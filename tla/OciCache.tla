------------------------------ MODULE OciCache ------------------------------
(***************************************************************************)
(* The plugin cache of `forge` (crates/forge-cli/src/oci.rs): any number   *)
(* of `forge` processes fetch plugins from OCI registries through one      *)
(* cache directory.  They share no lock, so every file system call and     *)
(* every registry request is a step of its own, and a process may be       *)
(* killed between any two of them.                                         *)
(*                                                                         *)
(* Files.  A blob is written to `<hex>.wasm.tmp` and renamed; a pointer    *)
(* file is truncated and then written in place.  A plugin is NumChunks     *)
(* chunks because `std::fs::write` needs several write(2) calls for it; a  *)
(* pointer (71 bytes) needs one.                                           *)
(***************************************************************************)
EXTENDS Naturals

CONSTANTS
  Procs,      (* `forge` processes                                          *)
  Layers,     (* sha256 digests of wasm layers                              *)
  Manifests,  (* manifest digests                                           *)
  Names,      (* (registry, repository, tag) triples                        *)
  Paths,      (* files under by-tag/                                        *)
  Refs,       (* the plugin references the processes fetch                  *)
  LayerOf,    (* the wasm layer a manifest declares, or NoLayer             *)
  OtherAlgo,  (* manifests that name their layer by a non-sha256 digest     *)
  Sanitize,   (* the by-tag/ file of a name                                 *)
  NumChunks,  (* write(2) calls a plugin needs                              *)
  Failures,   (* may a process be killed, or a file system call fail?       *)
  Evictions,  (* may the user delete blobs from the cache directory?        *)
  NoLayer, NoManifest, NoName, NoRef, NoFile, Empty, Hole

Chunks == 1..NumChunks
Content == [Chunks -> Layers \union {Hole}]
Blank == [c \in Chunks |-> Hole]
Whole(l) == [c \in Chunks |-> l]
Pointer == Layers \union {NoFile, Empty}

(* A parsed reference has a tag, a manifest digest, or both. *)
Reference == [name: Names \union {NoName}, digest: Manifests \union {NoManifest}]
Pinned(r) == r.digest # NoManifest
Tagged(r) == r.name # NoName

ASSUME NumChunksAssumption == NumChunks \in Nat \ {0}
ASSUME RefsAssumption ==
  /\ Refs \subseteq Reference
  /\ \A r \in Refs : Pinned(r) \/ Tagged(r)
ASSUME LayerOfAssumption == LayerOf \in [Manifests -> Layers \union {NoLayer}]
ASSUME SanitizeAssumption == Sanitize \in [Names -> Paths]
ASSUME SentinelAssumption ==
  /\ {NoLayer, NoFile, Empty, Hole} \cap Layers = {}
  /\ NoManifest \notin Manifests
  /\ NoName \notin Names
  /\ NoRef \notin Reference
  /\ NoFile # Empty
  /\ NoFile \notin Content
  /\ Failures \in BOOLEAN /\ Evictions \in BOOLEAN

VARIABLES
  registry,  (* the manifest each tag points to, or NoManifest              *)
  tmp,       (* by-digest/sha256/<hex>.wasm.tmp, or NoFile                  *)
  blob,      (* by-digest/sha256/<hex>.wasm, or NoFile                      *)
  mptr,      (* by-manifest/sha256/<hex>.digest                             *)
  tptr,      (* by-tag/<registry>/<repo>/<tag>.digest                       *)
  pc,        (* the next step of a process                                  *)
  ref,       (* the reference a process fetches                             *)
  lay,       (* the layer digest a process works with                       *)
  bytes,     (* the plugin bytes a process holds                            *)
  link,      (* where the file a process writes is linked now               *)
  off,       (* chunks a process has written to that file                   *)
  outcome,   (* how the last fetch of a process ended                       *)
  seen,      (* history: layers the tag had since a fetch by tag began      *)
  tagged     (* history: layers the tag ever had                            *)

files == <<tmp, blob, mptr, tptr>>
local == <<lay, bytes, link, off>>
vars == <<registry, files, pc, ref, local, outcome, seen, tagged>>

Steps == {"idle", "pinned_ptr", "pinned_blob", "resolve", "tag_blob", "stale_ptr",
          "stale_blob", "pull", "tmp_open", "tmp_write", "rename", "mptr_open",
          "mptr_write", "tag_open", "tag_write"}
Outcomes == {"none", "served", "stale", "bad_digest", "failed"}
Links == {"none", "tmp", "blob", "gone"}

TypeOK ==
  /\ registry \in [Names -> Manifests \union {NoManifest}]
  /\ tmp \in [Layers -> Content \union {NoFile}]
  /\ blob \in [Layers -> Content \union {NoFile}]
  /\ mptr \in [Manifests -> Pointer]
  /\ tptr \in [Paths -> Pointer]
  /\ pc \in [Procs -> Steps]
  /\ ref \in [Procs -> Refs \union {NoRef}]
  /\ lay \in [Procs -> Layers \union {NoLayer}]
  /\ bytes \in [Procs -> Content]
  /\ link \in [Procs -> Links]
  /\ off \in [Procs -> 0..NumChunks]
  /\ outcome \in [Procs -> Outcomes]
  /\ seen \in [Procs -> SUBSET Layers]
  /\ tagged \in [Names -> SUBSET Layers]

(* The layers a manifest declares: none or one. *)
LayersOf(m) == IF m \in Manifests THEN {LayerOf[m]} \ {NoLayer} ELSE {}

Init ==
  /\ registry \in [Names -> Manifests \union {NoManifest}]
  /\ tmp = [l \in Layers |-> NoFile]
  /\ blob = [l \in Layers |-> NoFile]
  /\ mptr = [m \in Manifests |-> NoFile]
  /\ tptr = [f \in Paths |-> NoFile]
  /\ pc = [p \in Procs |-> "idle"]
  /\ ref = [p \in Procs |-> NoRef]
  /\ lay = [p \in Procs |-> NoLayer]
  /\ bytes = [p \in Procs |-> Blank]
  /\ link = [p \in Procs |-> "none"]
  /\ off = [p \in Procs |-> 0]
  /\ outcome = [p \in Procs |-> "none"]
  /\ seen = [p \in Procs |-> {}]
  /\ tagged = [n \in Names |-> LayersOf(registry[n])]

-----------------------------------------------------------------------------
(* Control. *)

Goto(p, s) ==
  /\ pc' = [pc EXCEPT ![p] = s]
  /\ UNCHANGED <<ref, outcome, seen>>

(* fetch_to_bytes returns b, or an error when b is Blank. *)
Return(p, kind, b) ==
  /\ pc' = [pc EXCEPT ![p] = "idle"]
  /\ outcome' = [outcome EXCEPT ![p] = kind]
  /\ bytes' = [bytes EXCEPT ![p] = b]
  /\ lay' = [lay EXCEPT ![p] = NoLayer]
  /\ link' = [link EXCEPT ![p] = "none"]
  /\ off' = [off EXCEPT ![p] = 0]
  /\ UNCHANGED <<ref, seen>>

Fail(p) == Return(p, "failed", Blank)

Start(p, r) ==
  /\ pc[p] = "idle"
  /\ pc' = [pc EXCEPT ![p] = IF Pinned(r) THEN "pinned_ptr" ELSE "resolve"]
  /\ ref' = [ref EXCEPT ![p] = r]
  /\ bytes' = [bytes EXCEPT ![p] = Blank]
  /\ outcome' = [outcome EXCEPT ![p] = "none"]
  /\ seen' = [seen EXCEPT ![p] = IF Pinned(r) THEN {} ELSE LayersOf(registry[r.name])]
  /\ UNCHANGED <<registry, files, lay, link, off, tagged>>

(* Mutant: whatever a pointer file holds is taken for a layer digest. *)
FollowPointerUnchecked(p, d, hit, Miss) ==
  /\ UNCHANGED <<registry, files, tagged>>
  /\ \/ d = NoFile /\ Miss
     \/ /\ d # NoFile
        /\ lay' = [lay EXCEPT ![p] = d]
        /\ Goto(p, hit)
        /\ UNCHANGED <<bytes, link, off>>

(* A pointer file is read and trimmed; its content becomes a blob path, so  *)
(* an empty file is an unsupported digest algorithm, not a miss.            *)
FollowPointer(p, d, hit, Miss) ==
  /\ UNCHANGED <<registry, files, tagged>>
  /\ \/ /\ d = NoFile
        /\ Miss
     \/ /\ d = Empty
        /\ Return(p, "bad_digest", Blank)
     \/ /\ d \in Layers
        /\ lay' = [lay EXCEPT ![p] = d]
        /\ Goto(p, hit)
        /\ UNCHANGED <<bytes, link, off>>

PullNext(p) ==
  /\ Goto(p, "pull")
  /\ lay' = [lay EXCEPT ![p] = NoLayer]
  /\ UNCHANGED <<bytes, link, off>>

-----------------------------------------------------------------------------
(* Reading the cache. *)

ReadManifestPointer(p) ==
  /\ pc[p] = "pinned_ptr"
  /\ FollowPointer(p, mptr[ref[p].digest], "pinned_blob", PullNext(p))

ReadPinnedBlob(p) ==
  /\ pc[p] = "pinned_blob"
  /\ UNCHANGED <<registry, files, tagged>>
  /\ IF blob[lay[p]] = NoFile THEN PullNext(p)
                              ELSE Return(p, "served", blob[lay[p]])

(* Mutant: a tag that is in the cache is not revalidated. *)
ResolveCached(p) ==
  /\ pc[p] = "resolve"
  /\ UNCHANGED <<registry, files, tagged>>
  /\ LET d == tptr[Sanitize[ref[p].name]] IN
     IF d \in Layers
     THEN /\ Goto(p, "tag_blob")
          /\ lay' = [lay EXCEPT ![p] = d]
          /\ UNCHANGED <<bytes, link, off>>
     ELSE Goto(p, "pull") /\ UNCHANGED local

(* resolve_layer_digest: any error sends the fetch to the offline fallback. *)
Resolve(p) ==
  /\ pc[p] = "resolve"
  /\ UNCHANGED <<registry, files, tagged>>
  /\ LET m == registry[ref[p].name] IN
     \/ Goto(p, "stale_ptr") /\ UNCHANGED local
     \/ /\ LayersOf(m) # {}
        /\ IF m \in OtherAlgo
           THEN Return(p, "bad_digest", Blank)
           ELSE /\ Goto(p, "tag_blob")
                /\ lay' = [lay EXCEPT ![p] = LayerOf[m]]
                /\ UNCHANGED <<bytes, link, off>>

ReadTaggedBlob(p) ==
  /\ pc[p] = "tag_blob"
  /\ UNCHANGED <<registry, files, tagged>>
  /\ IF blob[lay[p]] = NoFile
     THEN PullNext(p)
     ELSE /\ Goto(p, "tag_open")
          /\ bytes' = [bytes EXCEPT ![p] = blob[lay[p]]]
          /\ UNCHANGED <<lay, link, off>>

ReadTagPointer(p) ==
  /\ pc[p] = "stale_ptr"
  /\ FollowPointer(p, tptr[Sanitize[ref[p].name]], "stale_blob", Fail(p))

ReadStaleBlob(p) ==
  /\ pc[p] = "stale_blob"
  /\ UNCHANGED <<registry, files, tagged>>
  /\ IF blob[lay[p]] = NoFile THEN Fail(p)
                              ELSE Return(p, "stale", blob[lay[p]])

-----------------------------------------------------------------------------
(* Pulling and writing. *)

(* Mutant: the tag of a reference wins over its digest. *)
SelectedTagFirst(r) == IF Tagged(r) THEN registry[r.name] ELSE r.digest

(* The manifest a pull selects: the pinned one, else where the tag points   *)
(* by now.                                                                  *)
Selected(r) == IF Pinned(r) THEN r.digest ELSE registry[r.name]

(* oci-client verifies the manifest against the pin and the layer against   *)
(* the manifest, so a pull that succeeds returns exactly the layer.         *)
Pull(p) ==
  /\ pc[p] = "pull"
  /\ UNCHANGED <<registry, files, tagged>>
  /\ \/ Fail(p)
     \/ \E l \in LayersOf(Selected(ref[p])) :
          /\ Goto(p, "tmp_open")
          /\ lay' = [lay EXCEPT ![p] = l]
          /\ bytes' = [bytes EXCEPT ![p] = Whole(l)]
          /\ UNCHANGED <<link, off>>

(* Mutant: the old blob is removed before the new one is written. *)
OpenTmpRemoves(p) ==
  /\ pc[p] = "tmp_open"
  /\ tmp' = [tmp EXCEPT ![lay[p]] = Blank]
  /\ blob' = [blob EXCEPT ![lay[p]] = NoFile]
  /\ link' = [link EXCEPT ![p] = "tmp"]
  /\ off' = [off EXCEPT ![p] = 0]
  /\ Goto(p, "tmp_write")
  /\ UNCHANGED <<registry, mptr, tptr, lay, bytes, tagged>>

(* std::fs::write opens the shared temporary name with O_CREAT|O_TRUNC. *)
OpenTmp(p) ==
  /\ pc[p] = "tmp_open"
  /\ tmp' = [tmp EXCEPT ![lay[p]] = Blank]
  /\ link' = [link EXCEPT ![p] = "tmp"]
  /\ off' = [off EXCEPT ![p] = 0]
  /\ Goto(p, "tmp_write")
  /\ UNCHANGED <<registry, blob, mptr, tptr, lay, bytes, tagged>>

(* Mutant: a write that was cut short is not continued. *)
WriteTmpShort(p) ==
  /\ pc[p] = "tmp_write"
  /\ LET c == off[p] + 1
         Put(f) == [f EXCEPT ![lay[p]] = [@ EXCEPT ![c] = bytes[p][c]]]
     IN /\ tmp' = IF link[p] = "tmp" THEN Put(tmp) ELSE tmp
        /\ blob' = IF link[p] = "blob" THEN Put(blob) ELSE blob
        /\ off' = [off EXCEPT ![p] = c]
        /\ link' = [link EXCEPT ![p] = "none"]
        /\ Goto(p, "rename")
  /\ UNCHANGED <<registry, mptr, tptr, lay, bytes, tagged>>

(* The chunk goes to the open file, wherever it is linked by now. *)
WriteTmp(p) ==
  /\ pc[p] = "tmp_write"
  /\ LET c == off[p] + 1
         Put(f) == [f EXCEPT ![lay[p]] = [@ EXCEPT ![c] = bytes[p][c]]]
     IN /\ tmp' = IF link[p] = "tmp" THEN Put(tmp) ELSE tmp
        /\ blob' = IF link[p] = "blob" THEN Put(blob) ELSE blob
        /\ off' = [off EXCEPT ![p] = c]
        /\ link' = IF c = NumChunks THEN [link EXCEPT ![p] = "none"] ELSE link
        /\ Goto(p, IF c = NumChunks THEN "rename" ELSE "tmp_write")
  /\ UNCHANGED <<registry, mptr, tptr, lay, bytes, tagged>>

(* A rename relinks the file under every process that has it open. *)
Relinked(l) ==
  [q \in Procs |->
     IF lay[q] # l THEN link[q]
     ELSE CASE link[q] = "tmp"  -> "blob"
            [] link[q] = "blob" -> "gone"
            [] OTHER            -> link[q]]

AfterBlob(r) == IF Pinned(r) THEN "mptr_open" ELSE "tag_open"

Rename(p) ==
  /\ pc[p] = "rename"
  /\ UNCHANGED <<registry, mptr, tptr, tagged>>
  /\ IF tmp[lay[p]] = NoFile
     THEN Fail(p) /\ UNCHANGED <<tmp, blob>>
     ELSE /\ blob' = [blob EXCEPT ![lay[p]] = tmp[lay[p]]]
          /\ tmp' = [tmp EXCEPT ![lay[p]] = NoFile]
          /\ link' = Relinked(lay[p])
          /\ off' = [off EXCEPT ![p] = 0]
          /\ Goto(p, AfterBlob(ref[p]))
          /\ UNCHANGED <<lay, bytes>>

TruncateManifestPointer(p) ==
  /\ pc[p] = "mptr_open"
  /\ mptr' = [mptr EXCEPT ![ref[p].digest] = Empty]
  /\ Goto(p, "mptr_write")
  /\ UNCHANGED <<registry, tmp, blob, tptr, local, tagged>>

WriteManifestPointer(p) ==
  /\ pc[p] = "mptr_write"
  /\ mptr' = [mptr EXCEPT ![ref[p].digest] = lay[p]]
  /\ UNCHANGED <<registry, tmp, blob, tptr, tagged>>
  /\ IF Tagged(ref[p]) THEN Goto(p, "tag_open") /\ UNCHANGED local
                       ELSE Return(p, "served", bytes[p])

TruncateTagPointer(p) ==
  /\ pc[p] = "tag_open"
  /\ tptr' = [tptr EXCEPT ![Sanitize[ref[p].name]] = Empty]
  /\ Goto(p, "tag_write")
  /\ UNCHANGED <<registry, tmp, blob, mptr, local, tagged>>

(* Mutant: the tag is left out of the pointer's path. *)
WriteTagPointerShared(p) ==
  /\ pc[p] = "tag_write"
  /\ tptr' = [f \in Paths |-> lay[p]]
  /\ Return(p, "served", bytes[p])
  /\ UNCHANGED <<registry, tmp, blob, mptr, tagged>>

WriteTagPointer(p) ==
  /\ pc[p] = "tag_write"
  /\ tptr' = [tptr EXCEPT ![Sanitize[ref[p].name]] = lay[p]]
  /\ Return(p, "served", bytes[p])
  /\ UNCHANGED <<registry, tmp, blob, mptr, tagged>>

-----------------------------------------------------------------------------
(* Failures and the environment. *)

(* Mutant: a blob that cannot be written is no reason to stop. *)
IoFailureIgnored(p) ==
  /\ Failures
  /\ pc[p] \in {"tmp_open", "tmp_write", "rename"}
  /\ Goto(p, AfterBlob(ref[p]))
  /\ UNCHANGED <<registry, files, local, tagged>>

(* A file system call fails (disk full, permissions): CacheIo. *)
IoFailure(p) ==
  /\ Failures
  /\ pc[p] \notin {"idle", "resolve", "pull"}
  /\ Fail(p)
  /\ UNCHANGED <<registry, files, tagged>>

Crash(p) ==
  /\ Failures
  /\ pc[p] # "idle"
  /\ Return(p, "none", Blank)
  /\ UNCHANGED <<registry, files, tagged>>

(* Someone pushes another build under a tag, or removes the tag. *)
Push(n, m) ==
  /\ registry' = [registry EXCEPT ![n] = m]
  /\ tagged' = [tagged EXCEPT ![n] = @ \union LayersOf(m)]
  /\ seen' = [p \in Procs |->
                IF pc[p] # "idle" /\ ~Pinned(ref[p]) /\ ref[p].name = n
                THEN seen[p] \union LayersOf(m) ELSE seen[p]]
  /\ UNCHANGED <<files, pc, ref, local, outcome>>

Evict(l) ==
  /\ Evictions
  /\ blob' = [blob EXCEPT ![l] = NoFile]
  /\ link' = [q \in Procs |->
                IF lay[q] = l /\ link[q] = "blob" THEN "gone" ELSE link[q]]
  /\ UNCHANGED <<registry, tmp, mptr, tptr, pc, ref, lay, bytes, off, outcome,
                 seen, tagged>>

Advance(p) ==
  \/ ReadManifestPointer(p)
  \/ ReadPinnedBlob(p)
  \/ Resolve(p)
  \/ ReadTaggedBlob(p)
  \/ ReadTagPointer(p)
  \/ ReadStaleBlob(p)
  \/ Pull(p)
  \/ OpenTmp(p)
  \/ WriteTmp(p)
  \/ Rename(p)
  \/ TruncateManifestPointer(p)
  \/ WriteManifestPointer(p)
  \/ TruncateTagPointer(p)
  \/ WriteTagPointer(p)

Next ==
  \/ \E p \in Procs, r \in Refs : Start(p, r)
  \/ \E p \in Procs : Advance(p)
  \/ \E p \in Procs : IoFailure(p)
  \/ \E p \in Procs : Crash(p)
  \/ \E n \in Names, m \in Manifests \union {NoManifest} : Push(n, m)
  \/ \E l \in Layers : Evict(l)

Spec == Init /\ [][Next]_vars

-----------------------------------------------------------------------------
(* Properties. *)

Torn(l) == blob[l] # NoFile /\ blob[l] # Whole(l)
Writing(p) == pc[p] = "tmp_write"

(* The bytes a digest-pinned fetch returns come from the layer of the       *)
(* pinned manifest, whichever tags moved, whichever processes were killed   *)
(* and whatever the cache held: its fast path hashes nothing.  (With two    *)
(* processes at one temporary file they may be incomplete.)                 *)
PinnedNeverForeign ==
  \A p \in Procs : outcome[p] = "served" /\ Pinned(ref[p]) =>
    \A c \in Chunks : bytes[p][c] \in {LayerOf[ref[p].digest], Hole}

(* A fetch by tag that reached the registry returns a build the tag pointed *)
(* to at some moment of that fetch: `:latest` is never served stale         *)
(* (oci.rs:180-183), even when the tag moves between revalidation and pull. *)
TagServesFresh ==
  \A p \in Procs : outcome[p] = "served" /\ ~Pinned(ref[p]) =>
    \A c \in Chunks : bytes[p][c] \in seen[p] \union {Hole}

(* What the offline fallback returns is a build the tag once had ("the last *)
(* cached blob for the tag", oci.rs:40-42), or one that a reference with    *)
(* this tag and a digest has pinned; never that of another tag.             *)
PinnedWith(n) == {LayerOf[r.digest] : r \in {r \in Refs : r.name = n /\ Pinned(r)}}
StaleWasTagged ==
  \A p \in Procs : outcome[p] = "stale" =>
    LET n == ref[p].name IN
    \A c \in Chunks : bytes[p][c] \in tagged[n] \union PinnedWith(n) \union {Hole}

(* write_blob comes before the pointer writes, so a pointer that names a    *)
(* layer always leads to a blob file, at every crash point.                 *)
PointerHasBlob ==
  /\ \A m \in Manifests : mptr[m] \in Layers => blob[mptr[m]] # NoFile
  /\ \A f \in Paths : tptr[f] \in Layers => blob[tptr[f]] # NoFile

(* The store is content-addressed (oci.rs:19): when nobody is writing, the  *)
(* file of a digest holds exactly that layer.                               *)
BlobCanonical ==
  (\A p \in Procs : ~Writing(p)) => \A l \in Layers : ~Torn(l)

(* A torn blob has a writer that will still complete it: for every missing  *)
(* chunk some process holds the file open before that chunk.                *)
TornBlobHasWriter ==
  \A l \in Layers : blob[l] # NoFile =>
    \A c \in Chunks : blob[l][c] # l =>
      \E p \in Procs : Writing(p) /\ lay[p] = l /\ link[p] = "blob" /\ off[p] < c

(* A digest-pinned fetch follows its pointer or pulls; it never stops on a  *)
(* pointer it cannot use (oci.rs:10-11, "pulls from the registry on miss"). *)
PinnedNeverStuck ==
  \A p \in Procs : outcome[p] = "bad_digest" => ~Pinned(ref[p])

(* Once a pinned plugin is cached, it stays available without the network:  *)
(* no later fetch, killed or not, of any plugin makes the fast path miss.   *)
Cached(m) == mptr[m] \in Layers /\ blob[mptr[m]] = Whole(mptr[m])
CachedPinStays == [][\A m \in Manifests : Cached(m) => Cached(m)']_vars
=============================================================================
