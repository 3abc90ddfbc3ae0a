--------------------------- MODULE OciCacheProofs ---------------------------
(***************************************************************************)
(* Proofs about OciCache for any number of processes, plugins and names,   *)
(* and about Credentials, with which a plugin is pulled into the cache,    *)
(* for files of any size.                                                  *)
(***************************************************************************)
EXTENDS OciCache, Credentials, SequenceLemmas, TLAPS

WriteSteps == {"tmp_open", "tmp_write", "rename", "mptr_open", "mptr_write",
               "tag_open", "tag_write"}
BlobSteps == {"tmp_open", "tmp_write", "rename"}

(* What each step of a fetch may rely on. *)
RefKnown(p) ==
  /\ pc[p] # "idle" => ref[p] \in Refs /\ outcome[p] = "none"
  /\ pc[p] \in {"pinned_ptr", "pinned_blob", "mptr_open", "mptr_write"} => Pinned(ref[p])
  /\ pc[p] \in {"resolve", "tag_blob", "stale_ptr", "stale_blob"} => ~Pinned(ref[p])
  /\ pc[p] \in {"tag_open", "tag_write"} => Tagged(ref[p])
LayerKnown(p) ==
  pc[p] \in {"pinned_blob", "tag_blob", "stale_blob"} \union WriteSteps => lay[p] \in Layers
PinKept(p) ==
  pc[p] \in {"pinned_blob"} \union WriteSteps /\ Pinned(ref[p]) =>
    lay[p] = LayerOf[ref[p].digest]
BytesWhole(p) ==
  \/ pc[p] \in BlobSteps
  \/ pc[p] \in WriteSteps /\ Pinned(ref[p])
  => bytes[p] = Whole(lay[p])
FileOpen(p) ==
  /\ pc[p] = "tmp_write" => link[p] # "none" /\ off[p] < NumChunks
  /\ pc[p] # "tmp_write" => link[p] = "none"
  /\ link[p] = "tmp" => tmp[lay[p]] # NoFile
  /\ link[p] = "blob" => blob[lay[p]] # NoFile
ProcOK == \A p \in Procs :
  RefKnown(p) /\ LayerKnown(p) /\ PinKept(p) /\ BytesWhole(p) /\ FileOpen(p)

(* Files hold nothing but what their names say. *)
FilesKeyed ==
  /\ \A l \in Layers : tmp[l] # NoFile => \A c \in Chunks : tmp[l][c] \in {l, Hole}
  /\ \A l \in Layers : blob[l] # NoFile => \A c \in Chunks : blob[l][c] \in {l, Hole}
  /\ \A m \in Manifests : mptr[m] \in Layers => mptr[m] = LayerOf[m]

IInv == TypeOK /\ ProcOK /\ FilesKeyed /\ PinnedNeverForeign

USE NumChunksAssumption, RefsAssumption, LayerOfAssumption, SanitizeAssumption,
    SentinelAssumption

LEMMA InitInv == Init => IInv
<1> SUFFICES ASSUME Init PROVE IInv
  OBVIOUS
<1>1. TypeOK
  BY DEF Init, TypeOK, Content, Blank, Pointer, Steps, Outcomes, Links, LayersOf, Chunks
<1>2. ProcOK
  BY DEF Init, ProcOK, RefKnown, LayerKnown, PinKept, BytesWhole, FileOpen, WriteSteps, BlobSteps
<1>3. FilesKeyed
  BY DEF Init, FilesKeyed
<1>4. PinnedNeverForeign
  BY DEF Init, PinnedNeverForeign
<1> QED BY <1>1, <1>2, <1>3, <1>4 DEF IInv

(* A fetch that returns leaves the files alone, so only what it returns     *)
(* matters.                                                                 *)
LEMMA ReturnInv ==
  ASSUME NEW p \in Procs, NEW kind \in Outcomes, NEW b \in Content, IInv,
         Return(p, kind, b), UNCHANGED <<registry, files, tagged>>,
         kind = "served" /\ Pinned(ref[p]) =>
           \A c \in Chunks : b[c] \in {LayerOf[ref[p].digest], Hole}
  PROVE  IInv'
<1> USE DEF Return, files
<1>1. TypeOK'
  BY DEF IInv, TypeOK, ProcOK, RefKnown, LayerKnown, PinKept, BytesWhole, FileOpen, WriteSteps, BlobSteps, Content, Blank, Whole, Pointer, Steps, Outcomes, Links, Chunks
<1>2. ProcOK'
  BY DEF IInv, TypeOK, ProcOK, RefKnown, LayerKnown, PinKept, BytesWhole, FileOpen, WriteSteps, BlobSteps
<1>3. FilesKeyed'
  BY DEF IInv, FilesKeyed
<1>4. PinnedNeverForeign'
  BY DEF IInv, TypeOK, PinnedNeverForeign, ProcOK, RefKnown
<1> QED BY <1>1, <1>2, <1>3, <1>4 DEF IInv

LEMMA FailInv ==
  ASSUME NEW p \in Procs, IInv, Fail(p), UNCHANGED <<registry, files, tagged>>
  PROVE  IInv'
<1>1. Blank \in Content
  BY DEF Blank, Content
<1> QED BY <1>1, ReturnInv DEF Fail, Outcomes

(* A step that only reads leaves the files alone; here it goes on to s with *)
(* layer d and bytes b.                                                     *)
LEMMA ReadOnlyInv ==
  ASSUME NEW p \in Procs, NEW s \in Steps, NEW d \in Layers \union {NoLayer},
         NEW b \in Content, IInv, pc[p] # "idle", pc[p] # "tmp_write", Goto(p, s),
         lay' = [lay EXCEPT ![p] = d], bytes' = [bytes EXCEPT ![p] = b],
         UNCHANGED <<link, off, registry, files, tagged>>,
         s \notin {"idle", "tmp_write"},
         s \in {"pinned_ptr", "pinned_blob", "mptr_open", "mptr_write"} => Pinned(ref[p]),
         s \in {"resolve", "tag_blob", "stale_ptr", "stale_blob"} => ~Pinned(ref[p]),
         s \in {"tag_open", "tag_write"} => Tagged(ref[p]),
         s \in {"pinned_blob", "tag_blob", "stale_blob"} \union WriteSteps => d \in Layers,
         s \in {"pinned_blob"} \union WriteSteps /\ Pinned(ref[p]) =>
           d = LayerOf[ref[p].digest],
         s \in BlobSteps \/ (s \in WriteSteps /\ Pinned(ref[p])) => b = Whole(d)
  PROVE  IInv'
<1> USE DEF Goto, files
<1>1. TypeOK'
  BY DEF IInv, TypeOK, ProcOK, RefKnown, LayerKnown, PinKept, BytesWhole, FileOpen, WriteSteps, BlobSteps, Content, Blank, Whole, Pointer, Steps, Outcomes, Links, Chunks
<1>2. ProcOK'
  BY DEF IInv, TypeOK, ProcOK, RefKnown, LayerKnown, PinKept, BytesWhole, FileOpen, WriteSteps, BlobSteps
<1>3. FilesKeyed'
  BY DEF IInv, FilesKeyed
<1>4. PinnedNeverForeign'
  BY DEF IInv, TypeOK, PinnedNeverForeign, ProcOK, RefKnown
<1> QED BY <1>1, <1>2, <1>3, <1>4 DEF IInv


LEMMA StartInv ==
  ASSUME NEW p \in Procs, NEW r \in Refs, IInv, Start(p, r)
  PROVE  IInv'
<1> USE DEF Start, LayersOf, files, Pinned, Tagged, Reference
<1>1. TypeOK'
  BY DEF IInv, TypeOK, ProcOK, RefKnown, LayerKnown, PinKept, BytesWhole, FileOpen, WriteSteps, BlobSteps, Content, Blank, Whole, Pointer, Steps, Outcomes, Links, Chunks
<1>2. ProcOK'
  BY DEF IInv, TypeOK, FilesKeyed, ProcOK, RefKnown, LayerKnown, PinKept, BytesWhole, FileOpen, WriteSteps, BlobSteps, Content, Blank, Whole, Pointer, Chunks
<1>3. FilesKeyed'
  BY DEF IInv, TypeOK, FilesKeyed, ProcOK, RefKnown, LayerKnown, PinKept, BytesWhole, FileOpen, WriteSteps, BlobSteps, Content, Blank, Whole, Pointer, Chunks
<1>4. PinnedNeverForeign'
  BY DEF IInv, TypeOK, PinnedNeverForeign, ProcOK, RefKnown
<1> QED BY <1>1, <1>2, <1>3, <1>4 DEF IInv

LEMMA PullNextInv ==
  ASSUME NEW p \in Procs, IInv, PullNext(p), pc[p] # "idle", pc[p] # "tmp_write", UNCHANGED <<registry, files, tagged>>
  PROVE  IInv'
<1>1. bytes' = [bytes EXCEPT ![p] = bytes[p]] /\ bytes[p] \in Content
  BY DEF IInv, TypeOK, PullNext, Content
<1> QED BY <1>1, ReadOnlyInv DEF PullNext, Steps, WriteSteps, BlobSteps

LEMMA ReadManifestPointerInv ==
  ASSUME NEW p \in Procs, IInv, ReadManifestPointer(p)
  PROVE  IInv'
<1> DEFINE d == mptr[ref[p].digest]
<1>0. /\ UNCHANGED <<registry, files, tagged>>
      /\ pc[p] = "pinned_ptr" /\ ref[p] \in Refs /\ Pinned(ref[p])
      /\ ref[p].digest \in Manifests
      /\ bytes[p] \in Content /\ bytes = [bytes EXCEPT ![p] = bytes[p]]
  BY DEF ReadManifestPointer, FollowPointer, IInv, TypeOK, ProcOK, RefKnown, LayerKnown, PinKept, BytesWhole, FileOpen, WriteSteps, BlobSteps, Steps, Outcomes, Links, Pinned, Tagged, Reference, Content
<1>1. CASE PullNext(p)
  BY <1>0, <1>1, PullNextInv
<1>2. CASE Return(p, "bad_digest", Blank)
  BY <1>0, <1>2, ReturnInv DEF Outcomes, Blank, Content
<1>3. CASE /\ d \in Layers
           /\ lay' = [lay EXCEPT ![p] = d]
           /\ Goto(p, "pinned_blob")
           /\ UNCHANGED <<bytes, link, off>>
  <2>1. d = LayerOf[ref[p].digest]
    BY <1>0, <1>3 DEF IInv, FilesKeyed
  <2>2. /\ bytes' = [bytes EXCEPT ![p] = bytes[p]] /\ bytes[p] \in Content
        /\ pc[p] # "idle" /\ pc[p] # "tmp_write" /\ d \in Layers \union {NoLayer}
    BY <1>0, <1>3
  <2> HIDE DEF d
  <2> QED BY <1>0, <1>3, <2>1, <2>2, ReadOnlyInv, ZenonT(60) DEF Steps, WriteSteps, BlobSteps
<1> QED BY <1>1, <1>2, <1>3 DEF ReadManifestPointer, FollowPointer

LEMMA ReadPinnedBlobInv ==
  ASSUME NEW p \in Procs, IInv, ReadPinnedBlob(p)
  PROVE  IInv'
<1> USE DEF ReadPinnedBlob
<1>0. /\ UNCHANGED <<registry, files, tagged>>
      /\ pc[p] = "pinned_blob" /\ Pinned(ref[p])
      /\ lay[p] \in Layers /\ lay[p] = LayerOf[ref[p].digest]
  BY DEF IInv, TypeOK, ProcOK, RefKnown, LayerKnown, PinKept, BytesWhole, FileOpen, WriteSteps, BlobSteps, Steps, Outcomes, Links
<1>1. CASE PullNext(p)
  BY <1>0, <1>1, PullNextInv
<1>2. CASE blob[lay[p]] # NoFile /\ Return(p, "served", blob[lay[p]])
  <2>1. blob[lay[p]] \in Content
    BY <1>0, <1>2 DEF IInv, TypeOK
  <2>2. \A c \in Chunks : blob[lay[p]][c] \in {LayerOf[ref[p].digest], Hole}
    BY <1>0, <1>2 DEF IInv, FilesKeyed
  <2> QED BY <1>0, <1>2, <2>1, <2>2, ReturnInv DEF Outcomes
<1> QED BY <1>1, <1>2

LEMMA ResolveInv ==
  ASSUME NEW p \in Procs, IInv, Resolve(p)
  PROVE  IInv'
<1> USE DEF Resolve
<1> DEFINE m == registry[ref[p].name]
<1>0. /\ UNCHANGED <<registry, files, tagged>>
      /\ pc[p] = "resolve" /\ ref[p] \in Refs /\ ~Pinned(ref[p])
      /\ lay[p] \in Layers \union {NoLayer} /\ lay = [lay EXCEPT ![p] = lay[p]]
      /\ bytes[p] \in Content /\ bytes = [bytes EXCEPT ![p] = bytes[p]]
  BY DEF IInv, TypeOK, ProcOK, RefKnown, LayerKnown, PinKept, BytesWhole, FileOpen, WriteSteps, BlobSteps, Steps, Outcomes, Links, Content
<1>1. CASE Goto(p, "stale_ptr") /\ UNCHANGED local
  BY <1>0, <1>1, ReadOnlyInv, SMTT(30) DEF Steps, WriteSteps, BlobSteps, local
<1>2. CASE Return(p, "bad_digest", Blank)
  BY <1>0, <1>2, ReturnInv DEF Outcomes, Blank, Content
<1>3. CASE /\ LayersOf(m) # {}
           /\ Goto(p, "tag_blob")
           /\ lay' = [lay EXCEPT ![p] = LayerOf[m]]
           /\ UNCHANGED <<bytes, link, off>>
  <2>1. LayerOf[m] \in Layers
    BY <1>3 DEF LayersOf
  <2>2. bytes' = [bytes EXCEPT ![p] = bytes[p]]
    BY <1>0, <1>3
  <2> HIDE DEF m
  <2> QED BY <1>0, <1>3, <2>1, <2>2, ReadOnlyInv, ZenonT(60) DEF Steps, WriteSteps, BlobSteps
<1> QED BY <1>1, <1>2, <1>3

LEMMA ReadTaggedBlobInv ==
  ASSUME NEW p \in Procs, IInv, ReadTaggedBlob(p)
  PROVE  IInv'
<1> USE DEF ReadTaggedBlob
<1>0. /\ UNCHANGED <<registry, files, tagged>>
      /\ pc[p] = "tag_blob" /\ ref[p] \in Refs /\ ~Pinned(ref[p]) /\ Tagged(ref[p])
      /\ lay[p] \in Layers /\ lay = [lay EXCEPT ![p] = lay[p]]
  BY DEF IInv, TypeOK, ProcOK, RefKnown, LayerKnown, PinKept, BytesWhole, FileOpen, WriteSteps, BlobSteps, Steps, Outcomes, Links
<1>1. CASE PullNext(p)
  BY <1>0, <1>1, PullNextInv
<1>2. CASE /\ blob[lay[p]] # NoFile
           /\ Goto(p, "tag_open")
           /\ bytes' = [bytes EXCEPT ![p] = blob[lay[p]]]
           /\ UNCHANGED <<lay, link, off>>
  <2>1. blob[lay[p]] \in Content
    BY <1>0, <1>2 DEF IInv, TypeOK
  <2> QED BY <1>0, <1>2, <2>1, ReadOnlyInv DEF Steps, WriteSteps, BlobSteps
<1> QED BY <1>1, <1>2

LEMMA ReadTagPointerInv ==
  ASSUME NEW p \in Procs, IInv, ReadTagPointer(p)
  PROVE  IInv'
<1> DEFINE d == tptr[Sanitize[ref[p].name]]
<1>0. /\ UNCHANGED <<registry, files, tagged>>
      /\ pc[p] = "stale_ptr" /\ ref[p] \in Refs /\ ~Pinned(ref[p])
      /\ bytes[p] \in Content /\ bytes = [bytes EXCEPT ![p] = bytes[p]]
  BY DEF ReadTagPointer, FollowPointer, IInv, TypeOK, ProcOK, RefKnown, LayerKnown, PinKept, BytesWhole, FileOpen, WriteSteps, BlobSteps, Steps, Outcomes, Links, Content
<1>1. CASE Fail(p)
  BY <1>0, <1>1, FailInv
<1>2. CASE Return(p, "bad_digest", Blank)
  BY <1>0, <1>2, ReturnInv DEF Outcomes, Blank, Content
<1>3. CASE /\ d \in Layers
           /\ lay' = [lay EXCEPT ![p] = d]
           /\ Goto(p, "stale_blob")
           /\ UNCHANGED <<bytes, link, off>>
  <2>1. bytes' = [bytes EXCEPT ![p] = bytes[p]]
    BY <1>0, <1>3
  <2> HIDE DEF d
  <2> QED BY <1>0, <1>3, <2>1, ReadOnlyInv DEF Steps, WriteSteps, BlobSteps
<1> QED BY <1>1, <1>2, <1>3 DEF ReadTagPointer, FollowPointer

LEMMA ReadStaleBlobInv ==
  ASSUME NEW p \in Procs, IInv, ReadStaleBlob(p)
  PROVE  IInv'
<1> USE DEF ReadStaleBlob
<1>0. /\ UNCHANGED <<registry, files, tagged>>
      /\ pc[p] = "stale_blob" /\ lay[p] \in Layers
  BY DEF IInv, TypeOK, ProcOK, RefKnown, LayerKnown, PinKept, BytesWhole, FileOpen, WriteSteps, BlobSteps, Steps, Outcomes, Links
<1>1. CASE Fail(p)
  BY <1>0, <1>1, FailInv
<1>2. CASE blob[lay[p]] # NoFile /\ Return(p, "stale", blob[lay[p]])
  <2>1. blob[lay[p]] \in Content
    BY <1>0, <1>2 DEF IInv, TypeOK
  <2> QED BY <1>0, <1>2, <2>1, ReturnInv DEF Outcomes
<1> QED BY <1>1, <1>2

LEMMA PullInv ==
  ASSUME NEW p \in Procs, IInv, Pull(p)
  PROVE  IInv'
<1> USE DEF Pull
<1>0. /\ UNCHANGED <<registry, files, tagged>>
      /\ pc[p] = "pull" /\ ref[p] \in Refs
  BY DEF IInv, TypeOK, ProcOK, RefKnown, LayerKnown, PinKept, BytesWhole, FileOpen, WriteSteps, BlobSteps, Steps, Outcomes, Links
<1>1. CASE Fail(p)
  BY <1>0, <1>1, FailInv
<1>2. ASSUME NEW l \in LayersOf(Selected(ref[p])),
             Goto(p, "tmp_open"),
             lay' = [lay EXCEPT ![p] = l],
             bytes' = [bytes EXCEPT ![p] = Whole(l)],
             UNCHANGED <<link, off>>
      PROVE  IInv'
  <2>1. l \in Layers /\ (Pinned(ref[p]) => l = LayerOf[ref[p].digest])
    BY DEF LayersOf, Selected
  <2>2. Whole(l) \in Content
    BY <2>1 DEF Whole, Content
  <2> QED BY <1>0, <1>2, <2>1, <2>2, ReadOnlyInv DEF Steps, WriteSteps, BlobSteps
<1> QED BY <1>1, <1>2

LEMMA OpenTmpInv ==
  ASSUME NEW p \in Procs, IInv, OpenTmp(p)
  PROVE  IInv'
<1> USE DEF OpenTmp, Goto, Pinned, Tagged, Reference
<1>1. TypeOK'
  BY DEF IInv, TypeOK, ProcOK, RefKnown, LayerKnown, PinKept, BytesWhole, FileOpen, WriteSteps, BlobSteps, Content, Blank, Whole, Pointer, Steps, Outcomes, Links, Chunks
<1>2. ProcOK'
  BY DEF IInv, TypeOK, ProcOK, RefKnown, LayerKnown, PinKept, BytesWhole, FileOpen, WriteSteps, BlobSteps, Content, Blank, Whole, Chunks
<1>3. FilesKeyed'
  BY DEF IInv, TypeOK, FilesKeyed, ProcOK, RefKnown, LayerKnown, PinKept, BytesWhole, FileOpen, WriteSteps, BlobSteps, Content, Blank, Whole, Pointer, Chunks
<1>4. PinnedNeverForeign'
  BY DEF IInv, TypeOK, PinnedNeverForeign, ProcOK, RefKnown
<1> QED BY <1>1, <1>2, <1>3, <1>4 DEF IInv

LEMMA WriteTmpInv ==
  ASSUME NEW p \in Procs, IInv, WriteTmp(p)
  PROVE  IInv'
<1> USE DEF WriteTmp, Goto
<1> DEFINE l == lay[p]
           c == off[p] + 1
<1>0. /\ pc[p] = "tmp_write" /\ ref[p] \in Refs /\ l \in Layers /\ bytes[p] = Whole(l)
      /\ link[p] \in Links \ {"none"} /\ off[p] \in 0..NumChunks /\ off[p] < NumChunks
  BY DEF IInv, TypeOK, ProcOK, RefKnown, LayerKnown, PinKept, BytesWhole, FileOpen, WriteSteps, BlobSteps, Steps, Outcomes, Links
<1>c. c \in Chunks /\ bytes[p][c] = l
  BY <1>0 DEF Chunks, Whole
<1>f. /\ link[p] = "tmp" => tmp[l] \in Content
      /\ link[p] = "blob" => blob[l] \in Content
  BY <1>0 DEF IInv, TypeOK, ProcOK, FileOpen
<1>t. /\ link[p] = "tmp" => tmp' = [tmp EXCEPT ![l] = [tmp[l] EXCEPT ![c] = l]]
      /\ link[p] # "tmp" => tmp' = tmp
      /\ tmp' \in [Layers -> Content \union {NoFile}]
  BY <1>0, <1>c, <1>f DEF IInv, TypeOK, Content
<1>b. /\ link[p] = "blob" => blob' = [blob EXCEPT ![l] = [blob[l] EXCEPT ![c] = l]]
      /\ link[p] # "blob" => blob' = blob
      /\ blob' \in [Layers -> Content \union {NoFile}]
  BY <1>0, <1>c, <1>f DEF IInv, TypeOK, Content
<1>g. /\ link[p] = "tmp" => [tmp[l] EXCEPT ![c] = l] \in Content
      /\ link[p] = "blob" => [blob[l] EXCEPT ![c] = l] \in Content
  BY <1>0, <1>c, <1>f DEF Content
<1>n. ASSUME NEW k \in Layers
      PROVE  /\ tmp'[k] = NoFile <=> tmp[k] = NoFile
             /\ blob'[k] = NoFile <=> blob[k] = NoFile
  <2>1. tmp'[k] = NoFile <=> tmp[k] = NoFile
    BY <1>0, <1>t, <1>f, <1>g, SMTT(30) DEF IInv, TypeOK
  <2>2. blob'[k] = NoFile <=> blob[k] = NoFile
    BY <1>0, <1>b, <1>f, <1>g, SMTT(30) DEF IInv, TypeOK
  <2> QED BY <2>1, <2>2
<1>1. TypeOK'
  BY <1>0, <1>c, <1>t, <1>b DEF IInv, TypeOK, Chunks, Links, Steps
<1>2. ProcOK'
  BY <1>0, <1>n, SMTT(30) DEF IInv, TypeOK, ProcOK, RefKnown, LayerKnown, PinKept, BytesWhole, FileOpen, WriteSteps, BlobSteps, Chunks
<1>3. FilesKeyed'
  BY <1>0, <1>c, <1>f, <1>t, <1>b, <1>n DEF IInv, TypeOK, FilesKeyed, Content
<1>4. PinnedNeverForeign'
  BY DEF IInv, TypeOK, PinnedNeverForeign, ProcOK, RefKnown
<1> QED BY <1>1, <1>2, <1>3, <1>4 DEF IInv

LEMMA RenameInv ==
  ASSUME NEW p \in Procs, IInv, Rename(p)
  PROVE  IInv'
<1> USE DEF Rename
<1> DEFINE l == lay[p]
<1>0. pc[p] = "rename" /\ ref[p] \in Refs /\ l \in Layers
  BY DEF IInv, TypeOK, ProcOK, RefKnown, LayerKnown, PinKept, BytesWhole, FileOpen, WriteSteps, BlobSteps, Steps, Outcomes, Links
<1>a. CASE tmp[l] = NoFile
  BY <1>a, FailInv DEF files
<1>b. CASE tmp[l] # NoFile
  <2> USE <1>0, <1>b DEF Goto, AfterBlob
  <2>1. /\ blob' = [blob EXCEPT ![l] = tmp[l]] /\ tmp' = [tmp EXCEPT ![l] = NoFile]
        /\ link' = Relinked(l)
        /\ pc' = [pc EXCEPT ![p] = IF Pinned(ref[p]) THEN "mptr_open" ELSE "tag_open"]
        /\ UNCHANGED <<registry, mptr, tptr, ref, outcome, seen, tagged, lay, bytes>>
    OBVIOUS
  <2>2. link' \in [Procs -> Links]
    BY <2>1 DEF Relinked, IInv, TypeOK, Links
  <2>3. TypeOK'
    <3>1. off' \in [Procs -> 0..NumChunks]
      BY DEF IInv, TypeOK
    <3>2. blob' \in [Layers -> Content \union {NoFile}] /\ tmp' \in [Layers -> Content \union {NoFile}]
      BY <2>1 DEF IInv, TypeOK
    <3>3. pc' \in [Procs -> Steps]
      BY <2>1 DEF IInv, TypeOK, Steps
    <3> QED BY <2>1, <2>2, <3>1, <3>2, <3>3 DEF IInv, TypeOK
  <2>4. ASSUME NEW q \in Procs PROVE RefKnown(q)' /\ LayerKnown(q)' /\ PinKept(q)' /\ BytesWhole(q)'
    BY <2>1, RefsAssumption DEF IInv, TypeOK, ProcOK, RefKnown, LayerKnown, PinKept, BytesWhole, FileOpen, WriteSteps, BlobSteps
  <2>5. ASSUME NEW q \in Procs PROVE FileOpen(q)'
    <3>1. FileOpen(q) /\ LayerKnown(q)
      BY DEF IInv, ProcOK
    <3>2. /\ lay[q] # l => link'[q] = link[q]
          /\ lay[q] = l /\ link[q] = "tmp" => link'[q] = "blob"
          /\ lay[q] = l /\ link[q] = "blob" => link'[q] = "gone"
          /\ lay[q] = l /\ link[q] \notin {"tmp", "blob"} => link'[q] = link[q]
      BY <2>1 DEF Relinked
    <3>3. CASE q = p
      BY <2>1, <3>1, <3>2, <3>3 DEF FileOpen, IInv, TypeOK, Links
    <3>4. CASE q # p
      BY <2>1, <3>1, <3>2, <3>4 DEF FileOpen, LayerKnown, WriteSteps, IInv, TypeOK, Links
    <3> QED BY <3>3, <3>4
  <2>6. FilesKeyed'
    BY <2>1 DEF IInv, TypeOK, FilesKeyed
  <2>7. PinnedNeverForeign'
    BY <2>1 DEF IInv, TypeOK, PinnedNeverForeign
  <2> QED BY <2>3, <2>4, <2>5, <2>6, <2>7 DEF IInv, ProcOK
<1> QED BY <1>a, <1>b

LEMMA TruncateManifestPointerInv ==
  ASSUME NEW p \in Procs, IInv, TruncateManifestPointer(p)
  PROVE  IInv'
<1> USE DEF TruncateManifestPointer, Goto, local, Pinned, Tagged, Reference
<1>1. TypeOK'
  BY DEF IInv, TypeOK, ProcOK, RefKnown, LayerKnown, PinKept, BytesWhole, FileOpen, WriteSteps, BlobSteps, Content, Blank, Whole, Pointer, Steps, Outcomes, Links, Chunks
<1>2. ProcOK'
  BY DEF IInv, TypeOK, ProcOK, RefKnown, LayerKnown, PinKept, BytesWhole, FileOpen, WriteSteps, BlobSteps, Content, Blank, Whole, Chunks
<1>3. FilesKeyed'
  BY DEF IInv, TypeOK, FilesKeyed, ProcOK, RefKnown, LayerKnown, PinKept, BytesWhole, FileOpen, WriteSteps, BlobSteps, Content, Blank, Whole, Pointer, Chunks
<1>4. PinnedNeverForeign'
  BY DEF IInv, TypeOK, PinnedNeverForeign, ProcOK, RefKnown
<1> QED BY <1>1, <1>2, <1>3, <1>4 DEF IInv

LEMMA WriteManifestPointerInv ==
  ASSUME NEW p \in Procs, IInv, WriteManifestPointer(p)
  PROVE  IInv'
<1> USE DEF WriteManifestPointer
<1> DEFINE m == ref[p].digest
<1>0. /\ pc[p] = "mptr_write" /\ ref[p] \in Refs /\ Pinned(ref[p]) /\ m \in Manifests
      /\ lay[p] \in Layers /\ lay[p] = LayerOf[m] /\ bytes[p] = Whole(lay[p])
      /\ mptr' = [mptr EXCEPT ![m] = lay[p]]
      /\ UNCHANGED <<registry, tmp, blob, tptr, tagged>>
  BY DEF IInv, TypeOK, ProcOK, RefKnown, LayerKnown, PinKept, BytesWhole, FileOpen, WriteSteps, BlobSteps, Steps, Outcomes, Links, Pinned, Tagged, Reference
<1>p. mptr' \in [Manifests -> Pointer]
  BY <1>0 DEF IInv, TypeOK, Pointer
<1>k. \A k \in Manifests : mptr'[k] \in Layers => mptr'[k] = LayerOf[k]
  BY <1>0 DEF IInv, TypeOK, FilesKeyed
<1>a. CASE Tagged(ref[p]) /\ Goto(p, "tag_open") /\ UNCHANGED local
  <2> USE <1>0, <1>a DEF Goto, local
  <2>1. TypeOK'
    BY <1>p DEF IInv, TypeOK, Steps
  <2>2. ProcOK'
    BY DEF IInv, TypeOK, ProcOK, RefKnown, LayerKnown, PinKept, BytesWhole, FileOpen, WriteSteps, BlobSteps
  <2>3. FilesKeyed'
    BY <1>k DEF IInv, FilesKeyed
  <2>4. PinnedNeverForeign'
    BY DEF IInv, TypeOK, PinnedNeverForeign, ProcOK, RefKnown
  <2> QED BY <2>1, <2>2, <2>3, <2>4 DEF IInv
<1>b. CASE Return(p, "served", bytes[p])
  <2> USE <1>0, <1>b DEF Return
  <2>1. TypeOK'
    BY <1>p DEF IInv, TypeOK, Steps, Outcomes, Links
  <2>2. ProcOK'
    BY DEF IInv, TypeOK, ProcOK, RefKnown, LayerKnown, PinKept, BytesWhole, FileOpen, WriteSteps, BlobSteps
  <2>3. FilesKeyed'
    BY <1>k DEF IInv, FilesKeyed
  <2>4. PinnedNeverForeign'
    BY DEF IInv, TypeOK, PinnedNeverForeign, Whole
  <2> QED BY <2>1, <2>2, <2>3, <2>4 DEF IInv
<1> QED BY <1>a, <1>b

LEMMA TruncateTagPointerInv ==
  ASSUME NEW p \in Procs, IInv, TruncateTagPointer(p)
  PROVE  IInv'
<1> USE DEF TruncateTagPointer, Goto, local, Pinned, Tagged, Reference
<1>1. TypeOK'
  BY DEF IInv, TypeOK, ProcOK, RefKnown, LayerKnown, PinKept, BytesWhole, FileOpen, WriteSteps, BlobSteps, Content, Blank, Whole, Pointer, Steps, Outcomes, Links, Chunks
<1>2. ProcOK'
  BY DEF IInv, TypeOK, ProcOK, RefKnown, LayerKnown, PinKept, BytesWhole, FileOpen, WriteSteps, BlobSteps, Content, Blank, Whole, Chunks
<1>3. FilesKeyed'
  BY DEF IInv, TypeOK, FilesKeyed, ProcOK, RefKnown, LayerKnown, PinKept, BytesWhole, FileOpen, WriteSteps, BlobSteps, Content, Blank, Whole, Pointer, Chunks
<1>4. PinnedNeverForeign'
  BY DEF IInv, TypeOK, PinnedNeverForeign, ProcOK, RefKnown
<1> QED BY <1>1, <1>2, <1>3, <1>4 DEF IInv

LEMMA WriteTagPointerInv ==
  ASSUME NEW p \in Procs, IInv, WriteTagPointer(p)
  PROVE  IInv'
<1> USE DEF WriteTagPointer, Return, Pinned, Tagged, Reference
<1>1. TypeOK'
  BY DEF IInv, TypeOK, ProcOK, RefKnown, LayerKnown, PinKept, BytesWhole, FileOpen, WriteSteps, BlobSteps, Content, Blank, Whole, Pointer, Steps, Outcomes, Links, Chunks
<1>2. ProcOK'
  BY DEF IInv, TypeOK, ProcOK, RefKnown, LayerKnown, PinKept, BytesWhole, FileOpen, WriteSteps, BlobSteps, Content, Blank, Whole, Chunks
<1>3. FilesKeyed'
  BY DEF IInv, TypeOK, FilesKeyed, ProcOK, RefKnown, LayerKnown, PinKept, BytesWhole, FileOpen, WriteSteps, BlobSteps, Content, Blank, Whole, Pointer, Chunks
<1>4. PinnedNeverForeign'
  BY DEF IInv, TypeOK, PinnedNeverForeign, ProcOK, RefKnown, LayerKnown, PinKept, BytesWhole, FileOpen, WriteSteps, BlobSteps, Whole
<1> QED BY <1>1, <1>2, <1>3, <1>4 DEF IInv

LEMMA IoFailureInv ==
  ASSUME NEW p \in Procs, IInv, IoFailure(p)
  PROVE  IInv'
<1> QED BY FailInv DEF IoFailure

LEMMA CrashInv ==
  ASSUME NEW p \in Procs, IInv, Crash(p)
  PROVE  IInv'
<1>1. Blank \in Content
  BY DEF Blank, Content
<1> QED BY <1>1, ReturnInv DEF Crash, Outcomes

LEMMA PushInv ==
  ASSUME NEW n \in Names, NEW m \in Manifests \union {NoManifest}, IInv, Push(n, m)
  PROVE  IInv'
<1> USE DEF Push, local, files, LayersOf
<1>1. TypeOK'
  BY DEF IInv, TypeOK
<1>2. ProcOK'
  BY DEF IInv, ProcOK, RefKnown, LayerKnown, PinKept, BytesWhole, FileOpen, WriteSteps, BlobSteps
<1>3. FilesKeyed'
  BY DEF IInv, FilesKeyed
<1>4. PinnedNeverForeign'
  BY DEF IInv, PinnedNeverForeign
<1> QED BY <1>1, <1>2, <1>3, <1>4 DEF IInv

LEMMA EvictInv ==
  ASSUME NEW l \in Layers, IInv, Evict(l)
  PROVE  IInv'
<1> USE DEF Evict
<1>1. TypeOK'
  BY DEF IInv, TypeOK, Links
<1>2. ProcOK'
  BY DEF IInv, TypeOK, ProcOK, RefKnown, LayerKnown, PinKept, BytesWhole, FileOpen, WriteSteps, BlobSteps
<1>3. FilesKeyed'
  BY DEF IInv, TypeOK, FilesKeyed
<1>4. PinnedNeverForeign'
  BY DEF IInv, PinnedNeverForeign
<1> QED BY <1>1, <1>2, <1>3, <1>4 DEF IInv

LEMMA NextInv == IInv /\ [Next]_vars => IInv'
<1> SUFFICES ASSUME IInv, [Next]_vars PROVE IInv'
  OBVIOUS
<1>1. ASSUME NEW p \in Procs, NEW r \in Refs, Start(p, r) PROVE IInv'
  BY <1>1, StartInv
<1>2. ASSUME NEW p \in Procs, Advance(p) PROVE IInv'
  BY <1>2, ReadManifestPointerInv, ReadPinnedBlobInv, ResolveInv, ReadTaggedBlobInv,
     ReadTagPointerInv, ReadStaleBlobInv, PullInv, OpenTmpInv, WriteTmpInv, RenameInv,
     TruncateManifestPointerInv, WriteManifestPointerInv, TruncateTagPointerInv,
     WriteTagPointerInv DEF Advance
<1>3. ASSUME NEW p \in Procs, IoFailure(p) PROVE IInv'
  BY <1>3, IoFailureInv
<1>4. ASSUME NEW p \in Procs, Crash(p) PROVE IInv'
  BY <1>4, CrashInv
<1>5. ASSUME NEW n \in Names, NEW m \in Manifests \union {NoManifest}, Push(n, m) PROVE IInv'
  BY <1>5, PushInv
<1>6. ASSUME NEW l \in Layers, Evict(l) PROVE IInv'
  BY <1>6, EvictInv
<1>7. CASE UNCHANGED vars
  BY <1>7 DEF vars, files, local, IInv, TypeOK, FilesKeyed, PinnedNeverForeign, ProcOK, RefKnown, LayerKnown, PinKept, BytesWhole, FileOpen, WriteSteps, BlobSteps
<1> QED BY <1>1, <1>2, <1>3, <1>4, <1>5, <1>6, <1>7 DEF Next

LEMMA Invariance == Spec => []IInv
<1> QED BY InitInv, NextInv, PTL DEF Spec

(* The state of the cache and of every fetch is well-typed. *)
THEOREM TypeCorrect == Spec => []TypeOK
<1>1. IInv => TypeOK
  BY DEF IInv
<1> QED BY <1>1, Invariance, PTL

(* However many processes share the cache, whichever of them are killed and *)
(* whatever tags are pushed meanwhile, a digest-pinned fetch never returns  *)
(* a byte of another plugin.                                                *)
THEOREM PinHonoured == Spec => []PinnedNeverForeign
<1>1. IInv => PinnedNeverForeign
  BY DEF IInv
<1> QED BY <1>1, Invariance, PTL

-----------------------------------------------------------------------------
(* Processes racing on one temporary file repair what they tear, as long as *)
(* none of them dies.                                                       *)

Writer(p, l, where, c) ==
  Writing(p) /\ lay[p] = l /\ link[p] = where /\ off[p] < c

TornTmpHasWriter ==
  \A l \in Layers : tmp[l] # NoFile =>
    \A c \in Chunks : tmp[l][c] # l => \E p \in Procs : Writer(p, l, "tmp", c)

RaceInv == TornTmpHasWriter /\ TornBlobHasWriter

(* Writers and files are as before: the witnesses stay. *)
LEMMA RaceFrame ==
  ASSUME RaceInv, UNCHANGED <<tmp, blob>>,
         \A q \in Procs : Writing(q) =>
           /\ pc'[q] = pc[q] /\ lay'[q] = lay[q]
           /\ link'[q] = link[q] /\ off'[q] = off[q]
  PROVE  RaceInv'
<1>1. \A q \in Procs, l \in Layers, c \in Chunks, w \in {"tmp", "blob"} :
        Writer(q, l, w, c) => Writer(q, l, w, c)'
  BY DEF Writer, Writing
<1>2. TornTmpHasWriter'
  BY <1>1 DEF RaceInv, TornTmpHasWriter
<1>3. TornBlobHasWriter'
  BY <1>1 DEF RaceInv, TornBlobHasWriter, Writer
<1> QED BY <1>2, <1>3 DEF RaceInv

LEMMA OpenTmpRace ==
  ASSUME NEW p \in Procs, IInv, RaceInv, OpenTmp(p)
  PROVE  RaceInv'
<1> USE DEF OpenTmp, Goto
<1>0. /\ pc[p] = "tmp_open" /\ lay[p] \in Layers
      /\ tmp' = [tmp EXCEPT ![lay[p]] = Blank]
      /\ UNCHANGED <<lay, blob>>
      /\ Writer(p, lay[p], "tmp", 1)'
  BY DEF IInv, TypeOK, ProcOK, LayerKnown, WriteSteps, Writer, Writing
<1>1. ASSUME NEW q \in Procs, NEW l \in Layers, NEW c \in Chunks, NEW w \in {"tmp", "blob"},
             Writer(q, l, w, c)
      PROVE  Writer(q, l, w, c)'
  BY <1>1, <1>0 DEF Writer, Writing, IInv, TypeOK
<1>2. TornTmpHasWriter'
  <2> SUFFICES ASSUME NEW l \in Layers, tmp'[l] # NoFile,
                      NEW c \in Chunks, tmp'[l][c] # l
               PROVE  \E q \in Procs : Writer(q, l, "tmp", c)'
    BY DEF TornTmpHasWriter
  <2>1. CASE l = lay[p]
    <3>1. Writer(p, l, "tmp", c)'
      BY <1>0, <2>1 DEF Writer, IInv, TypeOK, Chunks
    <3> QED BY <3>1
  <2>2. CASE l # lay[p]
    BY <1>0, <1>1, <2>2 DEF RaceInv, TornTmpHasWriter, IInv, TypeOK
  <2> QED BY <2>1, <2>2
<1>3. TornBlobHasWriter'
  BY <1>0, <1>1 DEF RaceInv, TornBlobHasWriter, Writer
<1> QED BY <1>2, <1>3 DEF RaceInv

(* A written chunk is the layer's; later chunks keep their writer.          *)
LEMMA WriteTmpRace ==
  ASSUME NEW p \in Procs, IInv, RaceInv, WriteTmp(p)
  PROVE  RaceInv'
<1> USE DEF WriteTmp, Goto
<1> DEFINE k == lay[p]
           d == off[p] + 1
<1>0. /\ pc[p] = "tmp_write" /\ k \in Layers /\ bytes[p] = Whole(k)
      /\ off[p] \in 0..NumChunks /\ off[p] < NumChunks
  BY DEF IInv, TypeOK, ProcOK, LayerKnown, BytesWhole, FileOpen, WriteSteps, BlobSteps
<1>c. d \in Chunks /\ bytes[p][d] = k
  BY <1>0 DEF Chunks, Whole
<1>f. /\ link[p] = "tmp" => tmp[k] \in Content
      /\ link[p] = "blob" => blob[k] \in Content
  BY <1>0 DEF IInv, TypeOK, ProcOK, FileOpen
<1>t. /\ link[p] = "tmp" => tmp' = [tmp EXCEPT ![k] = [tmp[k] EXCEPT ![d] = k]]
      /\ link[p] # "tmp" => tmp' = tmp
  BY <1>0, <1>c
<1>b. /\ link[p] = "blob" => blob' = [blob EXCEPT ![k] = [blob[k] EXCEPT ![d] = k]]
      /\ link[p] # "blob" => blob' = blob
  BY <1>0, <1>c
<1>1. ASSUME NEW q \in Procs, NEW l \in Layers, NEW c \in Chunks, NEW w \in {"tmp", "blob"},
             Writer(q, l, w, c), q # p \/ c # d
      PROVE  Writer(q, l, w, c)'
  <2>1. CASE q # p
    BY <1>1, <2>1 DEF Writer, Writing, IInv, TypeOK
  <2>2. CASE q = p
    <3>1. d < c /\ d # NumChunks
      BY <1>0, <1>1, <2>2 DEF Writer, Chunks
    <3> QED BY <1>0, <1>1, <2>2, <3>1 DEF Writer, Writing, IInv, TypeOK
  <2> QED BY <2>1, <2>2
<1>2. TornTmpHasWriter'
  <2> SUFFICES ASSUME NEW l \in Layers, tmp'[l] # NoFile,
                      NEW c \in Chunks, tmp'[l][c] # l
               PROVE  \E q \in Procs : Writer(q, l, "tmp", c)'
    BY DEF TornTmpHasWriter
  <2>1. tmp[l] # NoFile /\ tmp[l][c] # l
    BY <1>0, <1>c, <1>f, <1>t DEF IInv, TypeOK, Content
  <2>2. PICK q \in Procs : Writer(q, l, "tmp", c)
    BY <2>1 DEF RaceInv, TornTmpHasWriter
  <2>3. q # p \/ c # d
    <3> SUFFICES ASSUME q = p, c = d PROVE FALSE
      OBVIOUS
    <3> QED BY <1>0, <1>c, <1>f, <1>t, <2>2 DEF Writer, IInv, TypeOK, Content
  <2> QED BY <1>1, <2>2, <2>3
<1>3. TornBlobHasWriter'
  <2> SUFFICES ASSUME NEW l \in Layers, blob'[l] # NoFile,
                      NEW c \in Chunks, blob'[l][c] # l
               PROVE  \E q \in Procs : Writer(q, l, "blob", c)'
    BY DEF TornBlobHasWriter, Writer
  <2>1. blob[l] # NoFile /\ blob[l][c] # l
    BY <1>0, <1>c, <1>f, <1>b DEF IInv, TypeOK, Content
  <2>2. PICK q \in Procs : Writer(q, l, "blob", c)
    BY <2>1 DEF RaceInv, TornBlobHasWriter, Writer
  <2>3. q # p \/ c # d
    <3> SUFFICES ASSUME q = p, c = d PROVE FALSE
      OBVIOUS
    <3> QED BY <1>0, <1>c, <1>f, <1>b, <2>2 DEF Writer, IInv, TypeOK, Content
  <2> QED BY <1>1, <2>2, <2>3
<1> QED BY <1>2, <1>3 DEF RaceInv

(* The published file takes its writers along.                              *)
LEMMA RenameRace ==
  ASSUME NEW p \in Procs, IInv, RaceInv, Rename(p)
  PROVE  RaceInv'
<1> DEFINE k == lay[p]
<1>0. pc[p] = "rename" /\ k \in Layers
  BY DEF Rename, IInv, ProcOK, LayerKnown, WriteSteps
<1>a. CASE tmp[k] = NoFile
  <2>1. \A q \in Procs : Writing(q) => /\ pc'[q] = pc[q] /\ lay'[q] = lay[q]
                                       /\ link'[q] = link[q] /\ off'[q] = off[q]
    BY <1>0, <1>a DEF Rename, Fail, Return, Writing, IInv, TypeOK
  <2> QED BY <1>a, <2>1, RaceFrame DEF Rename
<1>b. CASE tmp[k] # NoFile
  <2>0. /\ blob' = [blob EXCEPT ![k] = tmp[k]] /\ tmp' = [tmp EXCEPT ![k] = NoFile]
        /\ link' = Relinked(k) /\ lay' = lay
        /\ off' = [off EXCEPT ![p] = 0]
        /\ \A q \in Procs : Writing(q) => q # p /\ pc'[q] = pc[q]
    BY <1>0, <1>b DEF Rename, Goto, Writing, IInv, TypeOK
  <2>1. ASSUME NEW q \in Procs, NEW l \in Layers, l # k, NEW c \in Chunks,
               NEW w \in {"tmp", "blob"}, Writer(q, l, w, c)
        PROVE  Writer(q, l, w, c)'
    BY <2>0, <2>1 DEF Writer, Writing, Relinked, IInv, TypeOK
  <2>2. ASSUME NEW q \in Procs, NEW c \in Chunks, Writer(q, k, "tmp", c)
        PROVE  Writer(q, k, "blob", c)'
    BY <2>0, <2>2 DEF Writer, Writing, Relinked, IInv, TypeOK
  <2>3. TornTmpHasWriter'
    BY <1>0, <2>0, <2>1 DEF RaceInv, TornTmpHasWriter, IInv, TypeOK
  <2>4. TornBlobHasWriter'
    <3> SUFFICES ASSUME NEW l \in Layers, blob'[l] # NoFile,
                        NEW c \in Chunks, blob'[l][c] # l
                 PROVE  \E q \in Procs : Writer(q, l, "blob", c)'
      BY DEF TornBlobHasWriter, Writer
    <3>1. CASE l = k
      BY <1>0, <1>b, <2>0, <2>2, <3>1 DEF RaceInv, TornTmpHasWriter, IInv, TypeOK
    <3>2. CASE l # k
      BY <1>0, <2>0, <2>1, <3>2 DEF RaceInv, TornBlobHasWriter, Writer, IInv, TypeOK
    <3> QED BY <3>1, <3>2
  <2> QED BY <2>3, <2>4 DEF RaceInv
<1> QED BY <1>a, <1>b

LEMMA EvictRace ==
  ASSUME NEW k \in Layers, IInv, RaceInv, Evict(k)
  PROVE  RaceInv'
<1>0. /\ blob' = [blob EXCEPT ![k] = NoFile] /\ UNCHANGED <<tmp, pc, lay, off>>
      /\ \A q \in Procs : link'[q] = IF lay[q] = k /\ link[q] = "blob" THEN "gone" ELSE link[q]
  BY DEF Evict
<1>1. TornTmpHasWriter'
  BY <1>0 DEF RaceInv, TornTmpHasWriter, Writer, Writing
<1>2. TornBlobHasWriter'
  BY <1>0 DEF RaceInv, TornBlobHasWriter, Writing, IInv, TypeOK
<1> QED BY <1>1, <1>2 DEF RaceInv

LEMMA RaceNext ==
  ASSUME ~Failures, IInv, RaceInv, [Next]_vars
  PROVE  RaceInv'
<1> DEFINE Kept == \A q \in Procs : Writing(q) =>
                     /\ pc'[q] = pc[q] /\ lay'[q] = lay[q]
                     /\ link'[q] = link[q] /\ off'[q] = off[q]
<1>1. ASSUME NEW p \in Procs, NEW r \in Refs, Start(p, r) PROVE RaceInv'
  <2>1. Kept /\ UNCHANGED <<tmp, blob>>
    BY <1>1 DEF Start, Writing, files, IInv, TypeOK
  <2> QED BY <2>1, RaceFrame
<1>2. ASSUME NEW p \in Procs,
             \/ ReadManifestPointer(p) \/ ReadPinnedBlob(p) \/ Resolve(p)
             \/ ReadTaggedBlob(p) \/ ReadTagPointer(p) \/ ReadStaleBlob(p) \/ Pull(p)
             \/ TruncateManifestPointer(p) \/ WriteManifestPointer(p)
             \/ TruncateTagPointer(p) \/ WriteTagPointer(p)
      PROVE  RaceInv'
  <2>1. pc[p] # "tmp_write" /\ UNCHANGED <<tmp, blob>>
    BY <1>2 DEF ReadManifestPointer, ReadPinnedBlob, Resolve, ReadTaggedBlob,
       ReadTagPointer, ReadStaleBlob, Pull, TruncateManifestPointer,
       WriteManifestPointer, TruncateTagPointer, WriteTagPointer, FollowPointer, files
  <2>2. ASSUME NEW q \in Procs, q # p
        PROVE  /\ pc'[q] = pc[q] /\ lay'[q] = lay[q]
               /\ link'[q] = link[q] /\ off'[q] = off[q]
    <3> USE DEF Goto, Return, Fail, PullNext, local
    <3>1. CASE ReadManifestPointer(p)
      BY <3>1, <2>2 DEF ReadManifestPointer, FollowPointer, IInv, TypeOK
    <3>2. CASE ReadPinnedBlob(p)
      BY <3>2, <2>2 DEF ReadPinnedBlob, IInv, TypeOK
    <3>3. CASE Resolve(p)
      BY <3>3, <2>2 DEF Resolve, IInv, TypeOK
    <3>4. CASE ReadTaggedBlob(p)
      BY <3>4, <2>2 DEF ReadTaggedBlob, IInv, TypeOK
    <3>5. CASE ReadTagPointer(p)
      BY <3>5, <2>2 DEF ReadTagPointer, FollowPointer, IInv, TypeOK
    <3>6. CASE ReadStaleBlob(p)
      BY <3>6, <2>2 DEF ReadStaleBlob, IInv, TypeOK
    <3>7. CASE Pull(p)
      BY <3>7, <2>2 DEF Pull, IInv, TypeOK
    <3>8. CASE TruncateManifestPointer(p) \/ WriteManifestPointer(p)
      BY <3>8, <2>2 DEF TruncateManifestPointer, WriteManifestPointer, IInv, TypeOK
    <3>9. CASE TruncateTagPointer(p) \/ WriteTagPointer(p)
      BY <3>9, <2>2 DEF TruncateTagPointer, WriteTagPointer, IInv, TypeOK
    <3> QED BY <1>2, <3>1, <3>2, <3>3, <3>4, <3>5, <3>6, <3>7, <3>8, <3>9
  <2>3. Kept
    BY <2>1, <2>2 DEF Writing
  <2> QED BY <2>1, <2>3, RaceFrame
<1>3. ASSUME NEW p \in Procs, OpenTmp(p) \/ WriteTmp(p) \/ Rename(p) PROVE RaceInv'
  BY <1>3, OpenTmpRace, WriteTmpRace, RenameRace
<1>4. ASSUME NEW n \in Names, NEW m \in Manifests \union {NoManifest}, Push(n, m)
      PROVE  RaceInv'
  <2>1. Kept /\ UNCHANGED <<tmp, blob>>
    BY <1>4 DEF Push, files, local
  <2> QED BY <2>1, RaceFrame
<1>5. ASSUME NEW l \in Layers, Evict(l) PROVE RaceInv'
  BY <1>5, EvictRace
<1>6. CASE UNCHANGED vars
  <2>1. Kept /\ UNCHANGED <<tmp, blob>>
    BY <1>6 DEF vars, files, local
  <2> QED BY <2>1, RaceFrame
<1> QED BY <1>1, <1>2, <1>3, <1>4, <1>5, <1>6 DEF Next, Advance, IoFailure, Crash

(* When no process is killed and no file system call fails, a blob that     *)
(* misses a chunk is still open in a process that will write that chunk.    *)
THEOREM RacesRepaired ==
  ASSUME ~Failures
  PROVE  Spec => []TornBlobHasWriter
<1>1. Init => RaceInv
  BY DEF Init, RaceInv, TornTmpHasWriter, TornBlobHasWriter
<1>2. IInv /\ RaceInv /\ [Next]_vars => RaceInv'
  BY RaceNext
<1>3. RaceInv => TornBlobHasWriter
  BY DEF RaceInv
<1> QED BY <1>1, <1>2, <1>3, Invariance, PTL DEF Spec

(* Hence, once nobody writes, the store is what its file names say.         *)
THEOREM StoreCanonical ==
  ASSUME ~Failures
  PROVE  Spec => []BlobCanonical
<1>1. IInv /\ TornBlobHasWriter => BlobCanonical
  <2> SUFFICES ASSUME IInv, TornBlobHasWriter, \A p \in Procs : ~Writing(p),
                      NEW l \in Layers, blob[l] # NoFile
               PROVE  blob[l] = Whole(l)
    BY DEF BlobCanonical, Torn
  <2>1. blob[l] \in Content
    BY DEF IInv, TypeOK
  <2>2. \A c \in Chunks : blob[l][c] = l
    BY DEF TornBlobHasWriter
  <2> QED BY <2>1, <2>2 DEF Content, Whole
<1> QED BY <1>1, RacesRepaired, Invariance, PTL

-----------------------------------------------------------------------------
(* Tags and pointer files: what a fetch by tag returns is as fresh as the   *)
(* registry, what the offline fallback returns was once of that tag, and a  *)
(* pointer leads to a blob.                                                 *)

(* The layers a reference by tag n may stand for. *)
Legit(n) == tagged[n] \union PinnedWith(n)

(* A fetch by tag has seen all that the tag points to, and works with a     *)
(* layer it has seen.                                                       *)
Watching(p) ==
  pc[p] # "idle" /\ ~Pinned(ref[p]) =>
    /\ ref[p].name \in Names
    /\ LayersOf(registry[ref[p].name]) \subseteq seen[p]
    /\ seen[p] \subseteq tagged[ref[p].name]
LayerSeen(p) ==
  ~Pinned(ref[p]) /\ pc[p] \in {"tag_blob"} \union WriteSteps => lay[p] \in seen[p]
BytesOfLayer(p) ==
  pc[p] \in {"tag_open", "tag_write"} => \A c \in Chunks : bytes[p][c] \in {lay[p], Hole}
ServedFresh(p) ==
  outcome[p] = "served" /\ ~Pinned(ref[p]) => \A c \in Chunks : bytes[p][c] \in seen[p] \union {Hole}
FetchFresh(p) == Watching(p) /\ LayerSeen(p) /\ BytesOfLayer(p) /\ ServedFresh(p)
TagInv == \A p \in Procs : FetchFresh(p)

(* What a tag points to, it has pointed to. *)
TaggedNow == \A n \in Names : LayersOf(registry[n]) \subseteq tagged[n]

LEMMA InitTag == Init => TagInv /\ TaggedNow
BY DEF Init, TaggedNow, TagInv, FetchFresh, Watching, LayerSeen, BytesOfLayer, ServedFresh, WriteSteps

(* Only p moves, and the tags stay. *)
OnlyMoves(p) ==
  /\ UNCHANGED <<registry, tagged, seen, ref>>
  /\ \A q \in Procs \ {p} :
       pc'[q] = pc[q] /\ lay'[q] = lay[q] /\ bytes'[q] = bytes[q] /\ outcome'[q] = outcome[q]

LEMMA OthersFresh ==
  ASSUME NEW p \in Procs, TagInv, OnlyMoves(p), FetchFresh(p)'
  PROVE  TagInv'
<1> SUFFICES ASSUME NEW q \in Procs, q # p PROVE FetchFresh(q)'
  BY DEF TagInv
<1> QED
  BY DEF TagInv, OnlyMoves, FetchFresh, Watching, LayerSeen, BytesOfLayer, ServedFresh

LEMMA ReturnTag ==
  ASSUME NEW p \in Procs, NEW kind, NEW b, IInv, TagInv, Return(p, kind, b),
         UNCHANGED <<registry, files, tagged>>,
         kind = "served" /\ ~Pinned(ref[p]) => \A c \in Chunks : b[c] \in seen[p] \union {Hole}
  PROVE  TagInv'
<1>1. /\ UNCHANGED <<ref, seen>> /\ pc'[p] = "idle" /\ outcome'[p] = kind /\ bytes'[p] = b
  BY DEF Return, IInv, TypeOK
<1>2. OnlyMoves(p)
  BY <1>1 DEF OnlyMoves, Return, IInv, TypeOK
<1>3. FetchFresh(p)'
  BY <1>1 DEF FetchFresh, Watching, LayerSeen, BytesOfLayer, ServedFresh, WriteSteps
<1> QED
  BY <1>2, <1>3, OthersFresh

(* The pointer's last write returns what the process holds. *)
LEMMA ServeTag ==
  ASSUME NEW p \in Procs, IInv, TagInv, Return(p, "served", bytes[p]),
         pc[p] = "tag_write" \/ Pinned(ref[p]), pc[p] \in WriteSteps, UNCHANGED <<registry, tagged>>
  PROVE  TagInv'
<1>1. ~Pinned(ref[p]) => \A c \in Chunks : bytes[p][c] \in seen[p] \union {Hole}
  BY DEF TagInv, FetchFresh, LayerSeen, BytesOfLayer
<1>2. /\ UNCHANGED <<ref, seen>> /\ pc'[p] = "idle" /\ outcome'[p] = "served" /\ bytes'[p] = bytes[p]
  BY DEF Return, IInv, TypeOK
<1>3. OnlyMoves(p)
  BY <1>2 DEF OnlyMoves, Return, IInv, TypeOK
<1>4. FetchFresh(p)'
  BY <1>1, <1>2 DEF FetchFresh, Watching, LayerSeen, BytesOfLayer, ServedFresh, WriteSteps
<1> QED
  BY <1>3, <1>4, OthersFresh

(* A fetch goes on, to step s with layer d and bytes b. *)
LEMMA GotoTag ==
  ASSUME NEW p \in Procs, NEW s \in Steps, NEW d, NEW b, IInv, TagInv,
         pc[p] # "idle", Goto(p, s), lay'[p] = d, bytes'[p] = b,
         \A q \in Procs \ {p} : lay'[q] = lay[q] /\ bytes'[q] = bytes[q],
         UNCHANGED <<registry, tagged>>,
         ~Pinned(ref[p]) /\ s \in {"tag_blob"} \union WriteSteps => d \in seen[p],
         s \in {"tag_open", "tag_write"} => \A c \in Chunks : b[c] \in {d, Hole}
  PROVE  TagInv'
<1>1. UNCHANGED <<ref, seen, outcome>> /\ pc'[p] = s /\ outcome[p] = "none"
  BY DEF Goto, IInv, TypeOK, ProcOK, RefKnown
<1>2. OnlyMoves(p)
  BY <1>1 DEF OnlyMoves, Goto, IInv, TypeOK
<1>3. Watching(p)'
  BY <1>1 DEF TagInv, FetchFresh, Watching
<1>4. FetchFresh(p)'
  BY <1>1, <1>3 DEF FetchFresh, LayerSeen, BytesOfLayer, ServedFresh
<1> QED
  BY <1>2, <1>4, OthersFresh

LEMMA PullNextTag ==
  ASSUME NEW p \in Procs, IInv, TagInv, PullNext(p), pc[p] # "idle", UNCHANGED <<registry, tagged>>
  PROVE  TagInv'
<1>1. Goto(p, "pull") /\ lay'[p] = NoLayer /\ bytes'[p] = bytes[p]
      /\ \A q \in Procs \ {p} : lay'[q] = lay[q] /\ bytes'[q] = bytes[q]
  BY DEF PullNext, IInv, TypeOK
<1>2. "pull" \in Steps /\ "pull" \notin WriteSteps
  BY DEF Steps, WriteSteps
<1> QED
  BY <1>1, <1>2, GotoTag

(* A pointer is followed: only the step by tag works with what it names,    *)
(* and that one does not come from a pointer.                               *)
LEMMA PointerTag ==
  ASSUME NEW p \in Procs, NEW d, NEW hit \in {"pinned_blob", "stale_blob"}, IInv, TagInv,
         pc[p] # "idle", lay' = [lay EXCEPT ![p] = d], Goto(p, hit),
         UNCHANGED <<bytes, registry, tagged>>
  PROVE  TagInv'
<1>1. lay'[p] = d /\ bytes'[p] = bytes[p] /\ \A q \in Procs \ {p} : lay'[q] = lay[q] /\ bytes'[q] = bytes[q]
  BY DEF IInv, TypeOK
<1>2. hit \in Steps /\ hit \notin WriteSteps /\ hit \notin {"tag_blob", "tag_open", "tag_write"}
  BY DEF Steps, WriteSteps
<1> QED
  BY <1>1, <1>2, GotoTag

LEMMA ReadersTag ==
  ASSUME NEW p \in Procs, IInv, TagInv,
         \/ ReadManifestPointer(p) \/ ReadPinnedBlob(p) \/ Resolve(p)
         \/ ReadTaggedBlob(p) \/ ReadTagPointer(p) \/ ReadStaleBlob(p)
  PROVE  TagInv'
<1>f. ASSUME Fail(p), UNCHANGED <<registry, files, tagged>> PROVE TagInv'
  BY <1>f, ReturnTag DEF Fail
<1>d. ASSUME Return(p, "bad_digest", Blank), UNCHANGED <<registry, files, tagged>> PROVE TagInv'
  BY <1>d, ReturnTag
<1>1. CASE ReadManifestPointer(p)
  <2>1. pc[p] # "idle" /\ UNCHANGED <<registry, files, tagged>>
    BY <1>1 DEF ReadManifestPointer, FollowPointer
  <2> QED
    BY <1>1, <1>d, <2>1, PullNextTag, PointerTag DEF ReadManifestPointer, FollowPointer
<1>2. CASE ReadPinnedBlob(p)
  <2>1. pc[p] # "idle" /\ UNCHANGED <<registry, files, tagged>> /\ Pinned(ref[p])
    BY <1>2 DEF ReadPinnedBlob, IInv, ProcOK, RefKnown
  <2>2. CASE Return(p, "served", blob[lay[p]])
    BY <2>1, <2>2, ReturnTag
  <2> QED
    BY <1>2, <2>1, <2>2, PullNextTag DEF ReadPinnedBlob
<1>3. CASE Resolve(p)
  <2> DEFINE m == registry[ref[p].name]
  <2>1. pc[p] # "idle" /\ UNCHANGED <<registry, files, tagged>> /\ ~Pinned(ref[p])
    BY <1>3 DEF Resolve, IInv, ProcOK, RefKnown
  <2>2. CASE Goto(p, "stale_ptr") /\ UNCHANGED local
    <3>1. "stale_ptr" \in Steps /\ "stale_ptr" \notin WriteSteps \union {"tag_blob"}
      BY DEF Steps, WriteSteps
    <3> QED
      BY <2>1, <2>2, <3>1, GotoTag DEF local, WriteSteps
  <2>3. CASE /\ LayersOf(m) # {} /\ Goto(p, "tag_blob")
             /\ lay' = [lay EXCEPT ![p] = LayerOf[m]] /\ UNCHANGED bytes
    <3>1. LayerOf[m] \in LayersOf(m)
      BY <2>3 DEF LayersOf
    <3>2. LayerOf[m] \in seen[p]
      BY <2>1, <3>1 DEF TagInv, FetchFresh, Watching
    <3>3. lay'[p] = LayerOf[m] /\ bytes'[p] = bytes[p]
          /\ \A q \in Procs \ {p} : lay'[q] = lay[q] /\ bytes'[q] = bytes[q]
      BY <2>3 DEF IInv, TypeOK
    <3>4. "tag_blob" \in Steps
      BY DEF Steps
    <3> HIDE DEF m
    <3> QED
      BY <2>1, <2>3, <3>2, <3>3, <3>4, GotoTag
  <2> QED
    BY <1>3, <1>d, <2>1, <2>2, <2>3 DEF Resolve
<1>4. CASE ReadTaggedBlob(p)
  <2>1. /\ pc[p] = "tag_blob" /\ UNCHANGED <<registry, files, tagged>> /\ ~Pinned(ref[p])
        /\ lay[p] \in Layers /\ lay[p] \in seen[p]
    BY <1>4 DEF ReadTaggedBlob, IInv, ProcOK, RefKnown, LayerKnown, TagInv, FetchFresh, LayerSeen
  <2>2. CASE /\ blob[lay[p]] # NoFile /\ Goto(p, "tag_open")
             /\ bytes' = [bytes EXCEPT ![p] = blob[lay[p]]] /\ UNCHANGED lay
    <3>1. \A c \in Chunks : blob[lay[p]][c] \in {lay[p], Hole}
      BY <2>1, <2>2 DEF IInv, FilesKeyed
    <3>2. lay'[p] = lay[p] /\ bytes'[p] = blob[lay[p]]
          /\ \A q \in Procs \ {p} : lay'[q] = lay[q] /\ bytes'[q] = bytes[q]
      BY <2>2 DEF IInv, TypeOK
    <3>3. "tag_open" \in Steps
      BY DEF Steps
    <3> QED
      BY <2>1, <2>2, <3>1, <3>2, <3>3, GotoTag
  <2> QED
    BY <1>4, <2>1, <2>2, PullNextTag DEF ReadTaggedBlob
<1>5. CASE ReadTagPointer(p)
  <2>1. pc[p] # "idle" /\ UNCHANGED <<registry, files, tagged>>
    BY <1>5 DEF ReadTagPointer, FollowPointer
  <2> QED
    BY <1>5, <1>d, <1>f, <2>1, PointerTag DEF ReadTagPointer, FollowPointer
<1>6. CASE ReadStaleBlob(p)
  <2>1. CASE Return(p, "stale", blob[lay[p]])
    BY <1>6, <2>1, ReturnTag DEF ReadStaleBlob
  <2> QED
    BY <1>6, <1>f, <2>1 DEF ReadStaleBlob
<1> QED
  BY <1>1, <1>2, <1>3, <1>4, <1>5, <1>6

LEMMA PullTag ==
  ASSUME NEW p \in Procs, IInv, TagInv, Pull(p)
  PROVE  TagInv'
<1>1. pc[p] = "pull" /\ UNCHANGED <<registry, files, tagged>>
  BY DEF Pull
<1>2. ASSUME NEW l \in LayersOf(Selected(ref[p])), Goto(p, "tmp_open"),
             lay' = [lay EXCEPT ![p] = l], bytes' = [bytes EXCEPT ![p] = Whole(l)]
      PROVE  TagInv'
  <2>1. ~Pinned(ref[p]) => l \in seen[p]
    BY <1>1 DEF TagInv, FetchFresh, Watching, Selected
  <2>2. lay'[p] = l /\ bytes'[p] = Whole(l)
        /\ \A q \in Procs \ {p} : lay'[q] = lay[q] /\ bytes'[q] = bytes[q]
    BY <1>2 DEF IInv, TypeOK
  <2>3. "tmp_open" \in Steps /\ "tmp_open" \notin {"tag_open", "tag_write"}
    BY DEF Steps
  <2> QED
    BY <1>1, <1>2, <2>1, <2>2, <2>3, GotoTag
<1>3. CASE Fail(p)
  BY <1>1, <1>3, ReturnTag DEF Fail
<1> QED
  BY <1>2, <1>3 DEF Pull

LEMMA WritersTag ==
  ASSUME NEW p \in Procs, IInv, TagInv,
         \/ OpenTmp(p) \/ WriteTmp(p) \/ Rename(p) \/ TruncateManifestPointer(p)
         \/ WriteManifestPointer(p) \/ TruncateTagPointer(p) \/ WriteTagPointer(p)
  PROVE  TagInv'
<1> USE DEF Steps, WriteSteps
<1>1. /\ pc[p] \in WriteSteps /\ lay[p] \in Layers /\ UNCHANGED <<registry, tagged>>
      /\ ~Pinned(ref[p]) => lay[p] \in seen[p]
  BY DEF OpenTmp, WriteTmp, Rename, TruncateManifestPointer, WriteManifestPointer, TruncateTagPointer,
         WriteTagPointer, IInv, ProcOK, LayerKnown, TagInv, FetchFresh, LayerSeen
<1>2. pc[p] \in {"rename", "mptr_write"} /\ (pc[p] = "mptr_write" => Pinned(ref[p]))
        => \A c \in Chunks : bytes[p][c] \in {lay[p], Hole}
  BY DEF IInv, ProcOK, BytesWhole, BlobSteps, Whole
<1>3. ASSUME NEW s \in WriteSteps, Goto(p, s), UNCHANGED <<lay, bytes>>,
             s \in {"tag_open", "tag_write"} => \A c \in Chunks : bytes[p][c] \in {lay[p], Hole}
      PROVE  TagInv'
  <2>1. s \in Steps
    OBVIOUS
  <2> QED
    BY <1>1, <1>3, <2>1, GotoTag
<1>4. CASE OpenTmp(p)
  BY <1>3, <1>4 DEF OpenTmp
<1>5. CASE WriteTmp(p)
  BY <1>3, <1>5 DEF WriteTmp
<1>6. CASE Rename(p)
  <2>1. CASE Fail(p) /\ UNCHANGED <<tmp, blob>>
    BY <1>1, <1>6, <2>1, ReturnTag DEF Fail, Rename, files
  <2>2. CASE Goto(p, AfterBlob(ref[p])) /\ UNCHANGED <<lay, bytes>>
    BY <1>2, <1>3, <1>6, <2>2 DEF Rename, AfterBlob
  <2> QED
    BY <1>6, <2>1, <2>2 DEF Rename
<1>7. CASE TruncateManifestPointer(p)
  BY <1>3, <1>7 DEF TruncateManifestPointer, local
<1>8. CASE WriteManifestPointer(p)
  <2>1. pc[p] = "mptr_write" /\ Pinned(ref[p])
    BY <1>8 DEF WriteManifestPointer, IInv, ProcOK, RefKnown
  <2>2. CASE Goto(p, "tag_open") /\ UNCHANGED local
    BY <1>2, <1>3, <2>1, <2>2 DEF local
  <2>3. CASE Return(p, "served", bytes[p])
    BY <1>1, <2>1, <2>3, ServeTag
  <2> QED
    BY <1>8, <2>2, <2>3 DEF WriteManifestPointer
<1>9. CASE TruncateTagPointer(p)
  BY <1>3, <1>9 DEF TruncateTagPointer, local, TagInv, FetchFresh, BytesOfLayer
<1>10. CASE WriteTagPointer(p)
  BY <1>1, <1>10, ServeTag DEF WriteTagPointer
<1> QED
  BY <1>4, <1>5, <1>6, <1>7, <1>8, <1>9, <1>10

LEMMA StartTag ==
  ASSUME NEW p \in Procs, NEW r \in Refs, IInv, TagInv, TaggedNow, Start(p, r)
  PROVE  TagInv'
<1>1. /\ UNCHANGED <<registry, tagged, lay>> /\ pc'[p] = IF Pinned(r) THEN "pinned_ptr" ELSE "resolve"
      /\ ref'[p] = r /\ outcome'[p] = "none"
      /\ seen'[p] = IF Pinned(r) THEN {} ELSE LayersOf(registry[r.name])
  BY DEF Start, IInv, TypeOK
<1>2. ~Pinned(r) => r.name \in Names
  BY DEF Pinned, Tagged, Reference
<1>3. FetchFresh(p)'
  BY <1>1, <1>2 DEF FetchFresh, Watching, LayerSeen, BytesOfLayer, ServedFresh, TaggedNow, LayersOf, WriteSteps
<1>4. ASSUME NEW q \in Procs, q # p PROVE FetchFresh(q)'
  <2>1. /\ pc'[q] = pc[q] /\ ref'[q] = ref[q] /\ outcome'[q] = outcome[q] /\ seen'[q] = seen[q]
        /\ bytes'[q] = bytes[q]
    BY <1>4 DEF Start, IInv, TypeOK
  <2> QED
    BY <1>1, <2>1 DEF TagInv, FetchFresh, Watching, LayerSeen, BytesOfLayer, ServedFresh, LayersOf
<1> QED
  BY <1>3, <1>4 DEF TagInv

LEMMA PushTag ==
  ASSUME NEW n \in Names, NEW m \in Manifests \union {NoManifest}, IInv, TagInv, TaggedNow, Push(n, m)
  PROVE  TagInv' /\ TaggedNow'
<1>1. /\ registry'[n] = m /\ tagged'[n] = tagged[n] \union LayersOf(m)
      /\ \A k \in Names \ {n} : registry'[k] = registry[k] /\ tagged'[k] = tagged[k]
  BY DEF Push, IInv, TypeOK
<1>2. TaggedNow'
  BY <1>1 DEF TaggedNow, LayersOf
<1>3. ASSUME NEW q \in Procs PROVE FetchFresh(q)'
  <2>1. /\ UNCHANGED <<pc, ref, lay, bytes, outcome>> /\ seen[q] \subseteq seen'[q]
        /\ pc[q] # "idle" /\ ~Pinned(ref[q]) /\ ref[q].name = n => seen'[q] = seen[q] \union LayersOf(m)
        /\ ~(pc[q] # "idle" /\ ~Pinned(ref[q]) /\ ref[q].name = n) => seen'[q] = seen[q]
    BY DEF Push, local
  <2>2. Watching(q)'
    BY <1>1, <2>1 DEF TagInv, FetchFresh, Watching, LayersOf
  <2> QED
    BY <2>1, <2>2 DEF TagInv, FetchFresh, LayerSeen, BytesOfLayer, ServedFresh
<1> QED
  BY <1>2, <1>3 DEF TagInv

(* A step of the environment that touches no fetch. *)
LEMMA IdleTag ==
  ASSUME TagInv, UNCHANGED <<registry, tagged, seen, ref, pc, lay, bytes, outcome>>
  PROVE  TagInv'
BY DEF TagInv, FetchFresh, Watching, LayerSeen, BytesOfLayer, ServedFresh

LEMMA NextTag == IInv /\ TagInv /\ TaggedNow /\ [Next]_vars => TagInv' /\ TaggedNow'
<1> SUFFICES ASSUME IInv, TagInv, TaggedNow, [Next]_vars PROVE TagInv' /\ TaggedNow'
  OBVIOUS
<1>1. ASSUME NEW p \in Procs, NEW r \in Refs, Start(p, r) PROVE TagInv' /\ UNCHANGED <<registry, tagged>>
  BY <1>1, StartTag DEF Start
<1>2. ASSUME NEW p \in Procs, Advance(p) PROVE TagInv' /\ UNCHANGED <<registry, tagged>>
  <2>1. UNCHANGED <<registry, tagged>>
    BY <1>2 DEF Advance, ReadManifestPointer, ReadPinnedBlob, Resolve, ReadTaggedBlob, ReadTagPointer,
       ReadStaleBlob, Pull, OpenTmp, WriteTmp, Rename, TruncateManifestPointer, WriteManifestPointer,
       TruncateTagPointer, WriteTagPointer, FollowPointer
  <2> QED
    BY <1>2, <2>1, ReadersTag, PullTag, WritersTag DEF Advance
<1>3. ASSUME NEW p \in Procs, IoFailure(p) \/ Crash(p) PROVE TagInv' /\ UNCHANGED <<registry, tagged>>
  BY <1>3, ReturnTag DEF IoFailure, Crash, Fail
<1>4. ASSUME NEW l \in Layers, Evict(l) PROVE TagInv' /\ UNCHANGED <<registry, tagged>>
  BY <1>4, IdleTag DEF Evict
<1>5. CASE UNCHANGED vars
  BY <1>5, IdleTag DEF vars, local, TaggedNow, LayersOf
<1>6. ASSUME UNCHANGED <<registry, tagged>> PROVE TaggedNow'
  BY <1>6 DEF TaggedNow, LayersOf
<1> QED
  BY <1>1, <1>2, <1>3, <1>4, <1>5, <1>6, PushTag DEF Next

LEMMA TagInvariance == Spec => []TagInv
<1> QED BY Invariance, InitTag, NextTag, PTL DEF Spec

(* A fetch by tag that reached the registry returns a build the tag pointed *)
(* to during that fetch, however the tag moves between revalidation and     *)
(* pull and whatever other processes put in the cache.                      *)
THEOREM TagsServedFresh == Spec => []TagServesFresh
<1>1. TagInv => TagServesFresh
  BY DEF TagInv, FetchFresh, ServedFresh, TagServesFresh
<1> QED BY <1>1, TagInvariance, PTL

-----------------------------------------------------------------------------
(* The offline fallback. *)

(* Names that share a pointer file would see each other's builds.           *)
SeparateFiles == \A n, k \in Names : Sanitize[n] = Sanitize[k] => n = k

(* The pointer file of a tag names a layer the tag stands for.              *)
PointersLegit == \A n \in Names : tptr[Sanitize[n]] \in Layers => tptr[Sanitize[n]] \in Legit(n)
FallsBack(p) ==
  /\ pc[p] \in {"stale_ptr", "stale_blob"} => ref[p].name \in Names
  /\ pc[p] = "stale_blob" => lay[p] \in Legit(ref[p].name)
  /\ outcome[p] = "stale" =>
       /\ ref[p].name \in Names
       /\ \A c \in Chunks : bytes[p][c] \in Legit(ref[p].name) \union {Hole}
StaleInv == PointersLegit /\ \A p \in Procs : FallsBack(p)

LEMMA InitStale == Init => StaleInv
BY DEF Init, StaleInv, PointersLegit, FallsBack

(* A step that leaves the pointer files alone, and in which a fetch that    *)
(* goes on does not fall back.                                              *)
LEMMA FetchStale ==
  ASSUME NEW p \in Procs, StaleInv, IInv, UNCHANGED <<tptr, registry, tagged>>,
         \A q \in Procs \ {p} : /\ pc'[q] = pc[q] /\ ref'[q] = ref[q] /\ lay'[q] = lay[q]
                                /\ bytes'[q] = bytes[q] /\ outcome'[q] = outcome[q],
         FallsBack(p)'
  PROVE  StaleInv'
BY DEF StaleInv, PointersLegit, FallsBack, Legit

LEMMA ReadersStale ==
  ASSUME NEW p \in Procs, StaleInv, IInv, TagInv,
         \/ ReadManifestPointer(p) \/ ReadPinnedBlob(p) \/ Resolve(p)
         \/ ReadTaggedBlob(p) \/ ReadTagPointer(p) \/ ReadStaleBlob(p)
  PROVE  StaleInv'
<1> USE DEF IInv, TypeOK
<1>1. /\ UNCHANGED <<tptr, registry, tagged, ref>> /\ pc[p] # "idle" /\ outcome[p] = "none"
      /\ \A q \in Procs \ {p} : /\ pc'[q] = pc[q] /\ lay'[q] = lay[q] /\ bytes'[q] = bytes[q]
                                /\ outcome'[q] = outcome[q]
  BY DEF ReadManifestPointer, ReadPinnedBlob, Resolve, ReadTaggedBlob, ReadTagPointer, ReadStaleBlob,
         FollowPointer, PullNext, Fail, Return, Goto, files, local, ProcOK, RefKnown
<1>2. CASE Resolve(p)
  <2>1. ref[p].name \in Names
    BY <1>2 DEF Resolve, ProcOK, RefKnown, TagInv, FetchFresh, Watching
  <2>2. FallsBack(p)'
    BY <1>1, <1>2, <2>1 DEF Resolve, FallsBack, Return, Goto
  <2> QED
    BY <1>1, <2>2, FetchStale
<1>3. CASE ReadTagPointer(p)
  <2> DEFINE d == tptr[Sanitize[ref[p].name]]
  <2>1. ref[p].name \in Names /\ ref[p].name = ref'[p].name
    BY <1>1, <1>3 DEF ReadTagPointer, StaleInv, FallsBack
  <2>2. CASE Fail(p) \/ Return(p, "bad_digest", Blank)
    BY <1>1, <2>2, FetchStale, SMTT(30) DEF Fail, Return, FallsBack
  <2>3. CASE d \in Layers /\ lay' = [lay EXCEPT ![p] = d] /\ Goto(p, "stale_blob")
    <3>1. d \in Legit(ref[p].name)
      BY <2>1, <2>3 DEF StaleInv, PointersLegit
    <3>2. Legit(ref[p].name)' = Legit(ref[p].name)
      BY <1>1 DEF Legit
    <3>3. lay'[p] = d /\ pc'[p] = "stale_blob" /\ outcome'[p] = "none"
      BY <1>1, <2>3 DEF Goto
    <3> HIDE DEF d
    <3>4. FallsBack(p)'
      BY <2>1, <3>1, <3>2, <3>3 DEF FallsBack
    <3> QED
      BY <1>1, <3>4, FetchStale
  <2> QED
    BY <1>3, <2>2, <2>3 DEF ReadTagPointer, FollowPointer
<1>4. CASE ReadStaleBlob(p)
  <2>1. /\ pc[p] = "stale_blob" /\ lay[p] \in Layers /\ ref[p].name \in Names
        /\ lay[p] \in Legit(ref[p].name) /\ Legit(ref[p].name)' = Legit(ref[p].name)
    BY <1>1, <1>4 DEF ReadStaleBlob, ProcOK, LayerKnown, StaleInv, FallsBack, Legit
  <2>2. CASE Fail(p)
    BY <1>1, <2>2, FetchStale, SMTT(30) DEF Fail, Return, FallsBack
  <2>3. CASE blob[lay[p]] # NoFile /\ Return(p, "stale", blob[lay[p]])
    <3>1. \A c \in Chunks : blob[lay[p]][c] \in {lay[p], Hole}
      BY <2>1, <2>3 DEF FilesKeyed
    <3>2. pc'[p] = "idle" /\ bytes'[p] = blob[lay[p]] /\ ref'[p] = ref[p]
      BY <2>3 DEF Return
    <3>3. FallsBack(p)'
      BY <2>1, <3>1, <3>2 DEF FallsBack
    <3> QED
      BY <1>1, <3>3, FetchStale
  <2> QED
    BY <1>4, <2>2, <2>3 DEF ReadStaleBlob
<1>5. CASE ReadManifestPointer(p) \/ ReadPinnedBlob(p) \/ ReadTaggedBlob(p)
  <2>1. FallsBack(p)'
    BY <1>1, <1>5 DEF ReadManifestPointer, ReadPinnedBlob, ReadTaggedBlob, FollowPointer, PullNext,
       FallsBack, Return, Goto
  <2> QED
    BY <1>1, <2>1, FetchStale
<1> QED
  BY <1>2, <1>3, <1>4, <1>5

LEMMA WritersStale ==
  ASSUME NEW p \in Procs, StaleInv, IInv,
         Pull(p) \/ OpenTmp(p) \/ WriteTmp(p) \/ Rename(p) \/ TruncateManifestPointer(p) \/ WriteManifestPointer(p)
  PROVE  StaleInv'
<1> USE DEF IInv, TypeOK
<1>1. /\ UNCHANGED <<tptr, registry, tagged, ref>> /\ pc[p] # "idle" /\ outcome[p] = "none"
      /\ pc'[p] \notin {"stale_ptr", "stale_blob"} /\ outcome'[p] # "stale"
      /\ \A q \in Procs \ {p} : /\ pc'[q] = pc[q] /\ lay'[q] = lay[q] /\ bytes'[q] = bytes[q]
                                /\ outcome'[q] = outcome[q]
  BY DEF Pull, OpenTmp, WriteTmp, Rename, TruncateManifestPointer, WriteManifestPointer, AfterBlob,
         Fail, Return, Goto, files, local, ProcOK, RefKnown
<1> QED
  BY <1>1, FetchStale, SMTT(30) DEF FallsBack

(* A tag pointer is written with a layer the fetch has seen, or has pinned. *)
LEMMA TagPointerStale ==
  ASSUME NEW p \in Procs, SeparateFiles, StaleInv, IInv, TagInv,
         TruncateTagPointer(p) \/ WriteTagPointer(p)
  PROVE  StaleInv'
<1> USE DEF IInv, TypeOK
<1> DEFINE n == ref[p].name
<1>1. /\ UNCHANGED <<registry, tagged, ref>> /\ pc[p] \in {"tag_open", "tag_write"} /\ outcome[p] = "none"
      /\ ref[p] \in Refs /\ Tagged(ref[p]) /\ lay[p] \in Layers
      /\ pc'[p] \notin {"stale_ptr", "stale_blob"} /\ outcome'[p] # "stale"
      /\ \A q \in Procs \ {p} : /\ pc'[q] = pc[q] /\ lay'[q] = lay[q] /\ bytes'[q] = bytes[q]
                                /\ outcome'[q] = outcome[q]
  BY DEF TruncateTagPointer, WriteTagPointer, Return, Goto, local, ProcOK, RefKnown, LayerKnown, WriteSteps
<1>2. n \in Names
  BY <1>1 DEF Tagged, Reference
<1>3. tptr' = [tptr EXCEPT ![Sanitize[n]] = Empty] \/ tptr' = [tptr EXCEPT ![Sanitize[n]] = lay[p]]
  BY DEF TruncateTagPointer, WriteTagPointer
<1>4. lay[p] \in Legit(n)
  <2>1. CASE Pinned(ref[p])
    BY <1>1, <2>1 DEF ProcOK, PinKept, WriteSteps, Legit, PinnedWith
  <2>2. CASE ~Pinned(ref[p])
    BY <1>1, <2>2 DEF TagInv, FetchFresh, Watching, LayerSeen, WriteSteps, Legit
  <2> QED
    BY <2>1, <2>2
<1>5. \A k \in Names : Legit(k)' = Legit(k)
  BY <1>1 DEF Legit
<1>6. ASSUME NEW k \in Names, tptr'[Sanitize[k]] \in Layers PROVE tptr'[Sanitize[k]] \in Legit(k)
  <2>1. CASE k = n
    BY <1>3, <1>4, <1>6, <2>1
  <2>2. CASE k # n
    <3>1. Sanitize[k] # Sanitize[n] /\ Sanitize[k] \in Paths
      BY <1>2, <2>2 DEF SeparateFiles
    <3>2. tptr'[Sanitize[k]] = tptr[Sanitize[k]]
      BY <1>3, <3>1
    <3> QED
      BY <1>6, <3>2 DEF StaleInv, PointersLegit
  <2> QED
    BY <2>1, <2>2
<1>7. PointersLegit'
  BY <1>5, <1>6 DEF PointersLegit
<1>8. ASSUME NEW q \in Procs PROVE FallsBack(q)'
  <2>1. CASE q = p
    BY <1>1, <2>1 DEF FallsBack
  <2>2. CASE q # p
    BY <1>1, <1>5, <2>2 DEF StaleInv, FallsBack
  <2> QED
    BY <2>1, <2>2
<1> QED
  BY <1>7, <1>8 DEF StaleInv

LEMMA NextStale == SeparateFiles /\ IInv /\ TagInv /\ StaleInv /\ [Next]_vars => StaleInv'
<1> SUFFICES ASSUME SeparateFiles, IInv, TagInv, StaleInv, [Next]_vars PROVE StaleInv'
  OBVIOUS
<1>1. ASSUME NEW p \in Procs, NEW r \in Refs, Start(p, r) PROVE StaleInv'
  BY <1>1, FetchStale DEF Start, files, FallsBack, IInv, TypeOK
<1>2. ASSUME NEW p \in Procs, Advance(p) PROVE StaleInv'
  BY <1>2, ReadersStale, WritersStale, TagPointerStale DEF Advance
<1>3. ASSUME NEW p \in Procs, IoFailure(p) \/ Crash(p) PROVE StaleInv'
  BY <1>3, FetchStale, SMTT(30) DEF IoFailure, Crash, Fail, Return, files, FallsBack, IInv, TypeOK
<1>4. ASSUME NEW n \in Names, NEW m \in Manifests \union {NoManifest}, Push(n, m) PROVE StaleInv'
  <2>1. UNCHANGED <<tptr, pc, ref, lay, bytes, outcome>>
    BY <1>4 DEF Push, files, local
  <2>2. \A k \in Names : Legit(k) \subseteq Legit(k)'
    BY <1>4 DEF Push, Legit, IInv, TypeOK
  <2> QED
    BY <2>1, <2>2 DEF StaleInv, PointersLegit, FallsBack
<1>5. CASE UNCHANGED <<tptr, tagged, pc, ref, lay, bytes, outcome>>
  BY <1>5 DEF StaleInv, PointersLegit, FallsBack, Legit
<1>6. ASSUME NEW l \in Layers, Evict(l) PROVE UNCHANGED <<tptr, tagged, pc, ref, lay, bytes, outcome>>
  BY <1>6 DEF Evict
<1>7. UNCHANGED vars => UNCHANGED <<tptr, tagged, pc, ref, lay, bytes, outcome>>
  BY DEF vars, files, local
<1> QED
  BY <1>1, <1>2, <1>3, <1>4, <1>5, <1>6, <1>7 DEF Next

(* What the offline fallback returns is a build the tag once had, or one    *)
(* pinned together with it, and never that of another tag, provided that no *)
(* two names share a pointer file.                                          *)
THEOREM StaleIsOfTheTag == ASSUME SeparateFiles PROVE Spec => []StaleWasTagged
<1>1. StaleInv => StaleWasTagged
  BY DEF StaleInv, FallsBack, StaleWasTagged, Legit
<1>2. IInv /\ TagInv /\ StaleInv /\ [Next]_vars => StaleInv'
  BY NextStale, SeparateFiles
<1> QED BY <1>1, <1>2, InitStale, Invariance, TagInvariance, PTL DEF Spec

-----------------------------------------------------------------------------
(* A pointer leads to a blob. *)

(* The blob is there before a pointer is written. *)
BlobFirst == \A p \in Procs :
  pc[p] \in {"mptr_open", "mptr_write", "tag_open", "tag_write"} => blob[lay[p]] # NoFile
BlobInv == PointerHasBlob /\ BlobFirst

LEMMA InitBlob == Init => BlobInv
BY DEF Init, BlobInv, BlobFirst, PointerHasBlob

(* Nothing but an eviction removes a blob. *)
BlobsStay == \A l \in Layers : blob[l] # NoFile => blob'[l] # NoFile

(* Blobs stay, pointers stay, and p is not about to write one it should not.*)
LEMMA PointersStay ==
  ASSUME NEW p \in Procs, BlobInv, IInv, BlobsStay, UNCHANGED <<mptr, tptr>>,
         \A q \in Procs \ {p} : pc'[q] = pc[q] /\ lay'[q] = lay[q],
         pc'[p] \in {"mptr_open", "mptr_write", "tag_open", "tag_write"} => blob'[lay'[p]] # NoFile
  PROVE  BlobInv'
<1>1. PointerHasBlob'
  BY DEF BlobInv, PointerHasBlob, BlobsStay
<1>2. BlobFirst'
  BY DEF BlobInv, BlobFirst, BlobsStay, IInv, ProcOK, LayerKnown, WriteSteps
<1> QED
  BY <1>1, <1>2 DEF BlobInv

LEMMA ReadersBlob ==
  ASSUME NEW p \in Procs, BlobInv, IInv,
         \/ ReadManifestPointer(p) \/ ReadPinnedBlob(p) \/ Resolve(p) \/ ReadTaggedBlob(p)
         \/ ReadTagPointer(p) \/ ReadStaleBlob(p) \/ Pull(p)
  PROVE  BlobInv'
<1> USE DEF IInv, TypeOK
<1>1. /\ UNCHANGED <<blob, mptr, tptr>> /\ \A q \in Procs \ {p} : pc'[q] = pc[q] /\ lay'[q] = lay[q]
      /\ pc'[p] \in {"mptr_open", "mptr_write", "tag_open", "tag_write"} => blob[lay[p]] # NoFile /\ lay'[p] = lay[p]
  BY DEF ReadManifestPointer, ReadPinnedBlob, Resolve, ReadTaggedBlob, ReadTagPointer, ReadStaleBlob,
         Pull, FollowPointer, PullNext, Fail, Return, Goto, files, local
<1>2. BlobsStay
  BY <1>1 DEF BlobsStay
<1> QED
  BY <1>1, <1>2, PointersStay

LEMMA BlobWritersBlob ==
  ASSUME NEW p \in Procs, BlobInv, IInv, OpenTmp(p) \/ WriteTmp(p) \/ Rename(p)
  PROVE  BlobInv'
<1> USE DEF IInv, TypeOK
<1>1. lay[p] \in Layers /\ pc[p] \in BlobSteps /\ UNCHANGED <<mptr, tptr>>
  BY DEF OpenTmp, WriteTmp, Rename, ProcOK, LayerKnown, WriteSteps, BlobSteps
<1>2. CASE OpenTmp(p)
  BY <1>2, PointersStay DEF OpenTmp, Goto, BlobsStay
<1>3. CASE WriteTmp(p)
  <2> DEFINE l == lay[p]
             c == off[p] + 1
  <2>1. link[p] = "blob" => blob[l] \in Content /\ blob' = [blob EXCEPT ![l] = [blob[l] EXCEPT ![c] = bytes[p][c]]]
    BY <1>1, <1>3 DEF WriteTmp, ProcOK, FileOpen
  <2>2. c \in Chunks /\ bytes[p][c] \in Layers \union {Hole}
    BY <1>3 DEF WriteTmp, ProcOK, FileOpen, Chunks, Content
  <2>3. link[p] = "blob" => [blob[l] EXCEPT ![c] = bytes[p][c]] \in Content
    BY <2>1, <2>2 DEF Content
  <2>4. link[p] # "blob" => blob' = blob
    BY <1>3 DEF WriteTmp
  <2>5. BlobsStay
    BY <1>1, <2>1, <2>3, <2>4, SMTT(30) DEF BlobsStay
  <2>6. /\ UNCHANGED lay /\ pc'[p] \in {"rename", "tmp_write"}
        /\ \A q \in Procs \ {p} : pc'[q] = pc[q]
    BY <1>3 DEF WriteTmp, Goto
  <2> QED
    BY <1>1, <2>5, <2>6, PointersStay
<1>4. CASE Rename(p)
  <2>1. CASE Fail(p) /\ UNCHANGED <<tmp, blob>>
    BY <1>1, <2>1, PointersStay DEF Fail, Return, BlobsStay
  <2>2. CASE /\ tmp[lay[p]] # NoFile /\ blob' = [blob EXCEPT ![lay[p]] = tmp[lay[p]]]
             /\ Goto(p, AfterBlob(ref[p])) /\ UNCHANGED lay
    BY <1>1, <2>2, PointersStay DEF Goto, BlobsStay
  <2> QED
    BY <1>4, <2>1, <2>2 DEF Rename
<1> QED
  BY <1>2, <1>3, <1>4

LEMMA PointerWritersBlob ==
  ASSUME NEW p \in Procs, BlobInv, IInv,
         \/ TruncateManifestPointer(p) \/ WriteManifestPointer(p)
         \/ TruncateTagPointer(p) \/ WriteTagPointer(p)
  PROVE  BlobInv'
<1> USE DEF IInv, TypeOK
<1>1. /\ UNCHANGED blob /\ blob[lay[p]] # NoFile /\ \A q \in Procs \ {p} : pc'[q] = pc[q] /\ lay'[q] = lay[q]
      /\ pc'[p] # "idle" => lay'[p] = lay[p]
  BY DEF TruncateManifestPointer, WriteManifestPointer, TruncateTagPointer, WriteTagPointer,
         Return, Goto, local, BlobInv, BlobFirst
<1>2. BlobFirst'
  BY <1>1 DEF BlobInv, BlobFirst
<1>3. /\ \A m \in Manifests : mptr'[m] \in {mptr[m], Empty, lay[p]}
      /\ \A f \in Paths : tptr'[f] \in {tptr[f], Empty, lay[p]}
  BY DEF TruncateManifestPointer, WriteManifestPointer, TruncateTagPointer, WriteTagPointer
<1>4. PointerHasBlob'
  BY <1>1, <1>3 DEF BlobInv, PointerHasBlob
<1> QED
  BY <1>2, <1>4 DEF BlobInv

LEMMA NextBlob == Evictions = FALSE /\ IInv /\ BlobInv /\ [Next]_vars => BlobInv'
<1> SUFFICES ASSUME Evictions = FALSE, IInv, BlobInv, [Next]_vars PROVE BlobInv'
  OBVIOUS
<1>1. ASSUME NEW p \in Procs, NEW r \in Refs, Start(p, r) PROVE BlobInv'
  BY <1>1, PointersStay DEF Start, files, IInv, TypeOK, BlobsStay
<1>2. ASSUME NEW p \in Procs, Advance(p) PROVE BlobInv'
  BY <1>2, ReadersBlob, BlobWritersBlob, PointerWritersBlob DEF Advance
<1>3. ASSUME NEW p \in Procs, IoFailure(p) \/ Crash(p) PROVE BlobInv'
  BY <1>3, PointersStay, SMTT(30) DEF IoFailure, Crash, Fail, Return, files, IInv, TypeOK, BlobsStay
<1>4. CASE UNCHANGED <<files, pc, lay>>
  BY <1>4 DEF files, BlobInv, BlobFirst, PointerHasBlob
<1>5. ASSUME NEW n \in Names, NEW m \in Manifests \union {NoManifest}, Push(n, m) PROVE UNCHANGED <<files, pc, lay>>
  BY <1>5 DEF Push, local
<1>6. UNCHANGED vars => UNCHANGED <<files, pc, lay>>
  BY DEF vars, local
<1> QED
  BY <1>1, <1>2, <1>3, <1>4, <1>5, <1>6 DEF Next, Evict

(* As long as the user does not delete blobs, a pointer that names a layer  *)
(* leads to a blob, at every crash point and for every interleaving.        *)
THEOREM PointersLeadToBlobs == ASSUME Evictions = FALSE PROVE Spec => []PointerHasBlob
<1>1. BlobInv => PointerHasBlob
  BY DEF BlobInv
<1>2. IInv /\ BlobInv /\ [Next]_vars => BlobInv'
  BY NextBlob
<1> QED BY <1>1, <1>2, InitBlob, Invariance, PTL DEF Spec

-----------------------------------------------------------------------------
(* One process at a time: what is pinned and cached stays so. *)

OneProcess == \A p, q \in Procs : p = q

PinSteps == {"pull", "tmp_open", "tmp_write", "rename", "mptr_open", "mptr_write"}

(* A pinned fetch that pulls has found no pointer, and a file that is       *)
(* written alone is whole when it is renamed.                               *)
WritesMissing(p) ==
  /\ pc[p] = "pinned_blob" => mptr[ref[p].digest] = lay[p]
  /\ pc[p] \in PinSteps /\ Pinned(ref[p]) => mptr[ref[p].digest] \notin Layers
  /\ pc[p] = "tmp_write" => link[p] = "tmp" /\ \A c \in 1..off[p] : tmp[lay[p]][c] = lay[p]
  /\ pc[p] = "rename" => tmp[lay[p]] = Whole(lay[p])
SoloInv == \A p \in Procs : WritesMissing(p)

LEMMA InitSolo == Init => SoloInv
BY DEF Init, SoloInv, WritesMissing, PinSteps

CachedStays == \A m \in Manifests : Cached(m) => Cached(m)'

LEMMA FilesStay ==
  ASSUME UNCHANGED <<mptr, blob>>
  PROVE  CachedStays
BY DEF CachedStays, Cached

(* A step that reads, or writes a pointer of a tag. *)
LEMMA ReadersSolo ==
  ASSUME NEW p \in Procs, OneProcess, IInv, BlobInv, SoloInv,
         \/ ReadManifestPointer(p) \/ ReadPinnedBlob(p) \/ Resolve(p) \/ ReadTaggedBlob(p)
         \/ ReadTagPointer(p) \/ ReadStaleBlob(p) \/ Pull(p) \/ TruncateTagPointer(p) \/ WriteTagPointer(p)
  PROVE  SoloInv' /\ CachedStays
<1> USE DEF IInv, TypeOK
<1>1. UNCHANGED <<mptr, blob, ref>> /\ pc'[p] \notin {"tmp_write", "rename"}
  BY DEF ReadManifestPointer, ReadPinnedBlob, Resolve, ReadTaggedBlob, ReadTagPointer, ReadStaleBlob,
         Pull, TruncateTagPointer, WriteTagPointer, FollowPointer, PullNext, Fail, Return, Goto, files, local
<1>2. CachedStays
  BY <1>1, FilesStay
<1>3. CASE ReadManifestPointer(p)
  <2>1. WritesMissing(p)'
    BY <1>1, <1>3 DEF ReadManifestPointer, FollowPointer, PullNext, Return, Goto, WritesMissing, PinSteps
  <2> QED
    BY <1>2, <2>1 DEF OneProcess, SoloInv
<1>4. CASE ReadPinnedBlob(p)
  <2>1. /\ pc[p] = "pinned_blob" /\ ref[p].digest \in Manifests /\ lay[p] \in Layers
        /\ mptr[ref[p].digest] = lay[p]
    BY <1>4 DEF ReadPinnedBlob, ProcOK, RefKnown, LayerKnown, Pinned, Reference, SoloInv, WritesMissing
  <2>2. blob[lay[p]] # NoFile
    BY <2>1 DEF BlobInv, PointerHasBlob
  <2>3. WritesMissing(p)'
    BY <1>1, <1>4, <2>2 DEF ReadPinnedBlob, Return, WritesMissing, PinSteps
  <2> QED
    BY <1>2, <2>3 DEF OneProcess, SoloInv
<1>5. CASE Resolve(p) \/ ReadTaggedBlob(p) \/ ReadTagPointer(p) \/ ReadStaleBlob(p)
  <2>1. ~Pinned(ref[p]) /\ pc'[p] # "pinned_blob"
    BY <1>5 DEF Resolve, ReadTaggedBlob, ReadTagPointer, ReadStaleBlob, FollowPointer, PullNext, Fail,
       Return, Goto, ProcOK, RefKnown
  <2> QED
    BY <1>1, <1>2, <2>1 DEF OneProcess, SoloInv, WritesMissing
<1>6. CASE Pull(p)
  <2>1. pc[p] = "pull" /\ pc'[p] \in {"idle", "tmp_open"}
    BY <1>6 DEF Pull, Fail, Return, Goto
  <2> QED
    BY <1>1, <1>2, <2>1 DEF OneProcess, SoloInv, WritesMissing, PinSteps
<1>7. CASE TruncateTagPointer(p) \/ WriteTagPointer(p)
  <2>1. pc'[p] \in {"idle", "tag_write"}
    BY <1>7 DEF TruncateTagPointer, WriteTagPointer, Return, Goto
  <2> QED
    BY <1>1, <1>2, <2>1 DEF OneProcess, SoloInv, WritesMissing, PinSteps
<1> QED
  BY <1>3, <1>4, <1>5, <1>6, <1>7

LEMMA OpenTmpSolo ==
  ASSUME NEW p \in Procs, OneProcess, IInv, SoloInv, OpenTmp(p)
  PROVE  SoloInv' /\ CachedStays
<1>1. UNCHANGED <<mptr, blob, ref, lay>> /\ pc[p] = "tmp_open" /\ pc'[p] = "tmp_write"
      /\ link'[p] = "tmp" /\ off'[p] = 0
  BY DEF OpenTmp, Goto, IInv, TypeOK
<1>2. WritesMissing(p)'
  BY <1>1 DEF SoloInv, WritesMissing, PinSteps
<1> QED
  BY <1>1, <1>2, FilesStay DEF OneProcess, SoloInv

LEMMA WriteTmpSolo ==
  ASSUME NEW p \in Procs, OneProcess, IInv, SoloInv, WriteTmp(p)
  PROVE  SoloInv' /\ CachedStays
<1> DEFINE l == lay[p]
           c == off[p] + 1
<1>1. /\ pc[p] = "tmp_write" /\ l \in Layers /\ link[p] = "tmp" /\ off[p] \in 0..NumChunks /\ off[p] < NumChunks
      /\ bytes[p] = Whole(l) /\ tmp[l] \in Content
      /\ \A k \in 1..off[p] : tmp[l][k] = l
  BY DEF WriteTmp, IInv, TypeOK, ProcOK, LayerKnown, BytesWhole, FileOpen, WriteSteps, BlobSteps,
         SoloInv, WritesMissing
<1>2. c \in Chunks /\ bytes[p][c] = l
  BY <1>1 DEF Chunks, Whole
<1>3. /\ UNCHANGED <<mptr, blob, ref, lay>> /\ tmp' = [tmp EXCEPT ![l] = [tmp[l] EXCEPT ![c] = l]]
      /\ off'[p] = c /\ pc'[p] = IF c = NumChunks THEN "rename" ELSE "tmp_write"
      /\ c # NumChunks => link'[p] = "tmp"
  BY <1>1, <1>2 DEF WriteTmp, Goto, IInv, TypeOK
<1>4. tmp'[l] \in Content /\ \A k \in 1..c : tmp'[l][k] = l
  <2>1. tmp'[l] = [tmp[l] EXCEPT ![c] = l]
    BY <1>1, <1>3 DEF IInv, TypeOK
  <2>2. tmp'[l] \in Content
    BY <1>1, <1>2, <2>1 DEF Content
  <2>3. ASSUME NEW k \in 1..c PROVE tmp'[l][k] = l
    <3>1. k \in Chunks /\ (k = c \/ k \in 1..off[p])
      BY <1>1, <2>3 DEF Chunks
    <3> QED
      BY <1>1, <2>1, <3>1 DEF Content
  <2> QED
    BY <2>2, <2>3
<1>5. c = NumChunks => tmp'[l] = Whole(l)
  <2>1. tmp'[l] \in [Chunks -> Layers \union {Hole}]
    BY <1>4 DEF Content
  <2>2. c = NumChunks => \A k \in Chunks : tmp'[l][k] = l
    BY <1>4 DEF Chunks
  <2> HIDE DEF l, c
  <2> QED
    BY <2>1, <2>2 DEF Whole
<1>6. WritesMissing(p)'
  BY <1>1, <1>3, <1>4, <1>5 DEF SoloInv, WritesMissing, PinSteps, Whole
<1> QED
  BY <1>3, <1>6, FilesStay DEF OneProcess, SoloInv

LEMMA RenameSolo ==
  ASSUME NEW p \in Procs, OneProcess, IInv, SoloInv, Rename(p)
  PROVE  SoloInv' /\ CachedStays
<1>1. pc[p] = "rename" /\ lay[p] \in Layers /\ tmp[lay[p]] = Whole(lay[p]) /\ UNCHANGED <<mptr, ref>>
      /\ pc'[p] \in {"idle", "mptr_open", "tag_open"}
  BY DEF Rename, Fail, Return, Goto, AfterBlob, IInv, TypeOK, ProcOK, LayerKnown, WriteSteps, SoloInv, WritesMissing
<1>2. blob' = blob \/ blob' = [blob EXCEPT ![lay[p]] = Whole(lay[p])]
  BY <1>1 DEF Rename
<1>3. CachedStays
  BY <1>1, <1>2 DEF CachedStays, Cached, IInv, TypeOK
<1> QED
  BY <1>1, <1>3 DEF OneProcess, SoloInv, WritesMissing, PinSteps

(* The manifest's pointer is written only where there was none. *)
LEMMA ManifestPointerSolo ==
  ASSUME NEW p \in Procs, OneProcess, IInv, SoloInv, TruncateManifestPointer(p) \/ WriteManifestPointer(p)
  PROVE  SoloInv' /\ CachedStays
<1>1. /\ pc[p] \in {"mptr_open", "mptr_write"} /\ Pinned(ref[p]) /\ ref[p].digest \in Manifests
      /\ mptr[ref[p].digest] \notin Layers /\ UNCHANGED <<blob, ref>>
  BY DEF TruncateManifestPointer, WriteManifestPointer, Return, Goto, IInv, TypeOK, ProcOK, RefKnown, Pinned,
         Reference, SoloInv, WritesMissing, PinSteps
<1>2. \A m \in Manifests \ {ref[p].digest} : mptr'[m] = mptr[m]
  BY DEF TruncateManifestPointer, WriteManifestPointer, IInv, TypeOK
<1>3. CachedStays
  BY <1>1, <1>2 DEF CachedStays, Cached
<1>4. WritesMissing(p)'
  BY <1>1 DEF TruncateManifestPointer, WriteManifestPointer, Return, Goto, WritesMissing, PinSteps, IInv, TypeOK
<1> QED
  BY <1>3, <1>4 DEF OneProcess, SoloInv

LEMMA NextSolo ==
  ASSUME OneProcess, Evictions = FALSE, IInv, BlobInv, SoloInv, [Next]_vars
  PROVE  SoloInv' /\ CachedStays
<1>1. ASSUME NEW p \in Procs, NEW r \in Refs, Start(p, r) PROVE SoloInv' /\ CachedStays
  <2>1. UNCHANGED <<mptr, blob>> /\ pc'[p] \in {"pinned_ptr", "resolve"}
    BY <1>1 DEF Start, files, IInv, TypeOK
  <2> QED
    BY <2>1, FilesStay DEF OneProcess, SoloInv, WritesMissing, PinSteps
<1>2. ASSUME NEW p \in Procs, Advance(p) PROVE SoloInv' /\ CachedStays
  BY <1>2, ReadersSolo, OpenTmpSolo, WriteTmpSolo, RenameSolo, ManifestPointerSolo DEF Advance
<1>3. ASSUME NEW p \in Procs, IoFailure(p) \/ Crash(p) PROVE SoloInv' /\ CachedStays
  <2>1. UNCHANGED <<mptr, blob>> /\ pc'[p] = "idle"
    BY <1>3 DEF IoFailure, Crash, Fail, Return, files, IInv, TypeOK
  <2> QED
    BY <2>1, FilesStay DEF OneProcess, SoloInv, WritesMissing, PinSteps
<1>4. CASE UNCHANGED <<files, pc, ref, local>>
  BY <1>4, FilesStay DEF files, local, SoloInv, WritesMissing
<1>5. ASSUME NEW n \in Names, NEW m \in Manifests \union {NoManifest}, Push(n, m)
      PROVE  UNCHANGED <<files, pc, ref, local>>
  BY <1>5 DEF Push
<1> QED
  BY <1>1, <1>2, <1>3, <1>4, <1>5 DEF Next, Evict, vars

(* When `forge` processes do not overlap and nobody deletes blobs, a pinned *)
(* plugin that is in the cache whole stays there, whatever is fetched       *)
(* later, and wherever a later fetch is killed.                             *)
THEOREM CachedPinsStay == ASSUME OneProcess, Evictions = FALSE PROVE Spec => CachedPinStays
<1>1. IInv /\ BlobInv /\ SoloInv /\ [Next]_vars => SoloInv'
  BY NextSolo
<1>2. IInv /\ BlobInv /\ SoloInv /\ [Next]_vars => [CachedStays]_vars
  BY NextSolo
<1>3. IInv /\ BlobInv /\ [Next]_vars => BlobInv'
  BY NextBlob
<1> QED BY <1>1, <1>2, <1>3, InitSolo, InitBlob, Invariance, PTL DEF Spec, CachedPinStays, CachedStays
-----------------------------------------------------------------------------
(* The search for a credential.                                             *)

(* Nothing, an error and a credential are three things.                     *)
LEMMA OutcomesApart ==
  /\ None # Failed /\ ~IsCred(None) /\ ~IsCred(Failed)
  /\ \A secret : IsCred(Cred(secret)) /\ Cred(secret).secret = secret
BY DEF None, Failed, Cred, IsCred

(* The search path is a list.                                              *)
LEMMA ConfigPathsIs == \A env : DOMAIN ConfigPaths(env) \subseteq Nat
<1> TAKE env
<1> DEFINE path(variable, place) == IF variable \in env.set THEN <<place>> ELSE <<>>
           docker == IF "DOCKER_CONFIG" \in env.set THEN <<"DOCKER_CONFIG">> ELSE path("HOME", "~/.docker")
           file == path("REGISTRY_AUTH_FILE", "REGISTRY_AUTH_FILE")
           run == path("XDG_RUNTIME_DIR", "XDG_RUNTIME_DIR")
           home == path("HOME", "~/.config")
           S == {"DOCKER_CONFIG", "~/.docker", "REGISTRY_AUTH_FILE", "XDG_RUNTIME_DIR", "~/.config"}
<1>1. \A v : \A p \in S : path(v, p) \in Seq(S) /\ <<p>> \in Seq(S)
  BY OneOrNone, Zenon
<1>2. docker \in Seq(S) /\ file \in Seq(S) /\ run \in Seq(S) /\ home \in Seq(S)
  <2> HIDE DEF path
  <2>1. /\ "DOCKER_CONFIG" \in S /\ "~/.docker" \in S /\ "REGISTRY_AUTH_FILE" \in S
        /\ "XDG_RUNTIME_DIR" \in S /\ "~/.config" \in S
    BY Zenon
  <2> HIDE DEF S
  <2> QED BY <1>1, <2>1, Zenon
<1>3. ConfigPaths(env) = docker \o file \o run \o home
  BY Zenon DEF ConfigPaths
<1> HIDE DEF docker, file, run, home, S
<1>4. ConfigPaths(env) \in Seq(S)
  BY <1>2, <1>3
<1> QED BY <1>4

(* The walk finds a credential if a file has one, and is not silent about   *)
(* an error.                                                                *)
LEMMA WalkIs ==
  ASSUME NEW w, DOMAIN w \subseteq Nat
  PROVE  /\ IsCred(Walk(w)) => \E i \in DOMAIN w : Walk(w) = w[i]
         /\ (\E i \in DOMAIN w : IsCred(w[i])) => IsCred(Walk(w))
         /\ Walk(w) = None => \A i \in DOMAIN w : w[i] # Failed
<1> DEFINE found == {i \in DOMAIN w : IsCred(w[i])}
           failed == \E i \in DOMAIN w : w[i] = Failed
<1>1. /\ found # {} => Walk(w) = w[Min(found)]
      /\ found = {} /\ failed => Walk(w) = Failed
      /\ found = {} /\ ~failed => Walk(w) = None
  BY DEF Walk
<1>2. found # {} => Min(found) \in found
  BY MinFacts
<1> HIDE DEF failed
<1>3. CASE found # {}
  <2>1. Min(found) \in DOMAIN w /\ IsCred(Walk(w)) /\ Walk(w) = w[Min(found)]
    BY <1>1, <1>2, <1>3
  <2> QED BY <2>1, OutcomesApart
<1>4. CASE found = {}
  BY <1>1, <1>4, OutcomesApart DEF failed
<1> QED BY <1>3, <1>4

(* A registry, and what may be in a credential file and at the end of it:   *)
(* the entries under a key are for the host of the key.                     *)
KeyOk(k) == k \in [url : BOOLEAN, host : {k.host}, path : BOOLEAN]
HelperOk(h) == h.starts \in BOOLEAN /\ h.exit \in {"ok", "miss", "fails"}
FileOk(file) ==
  /\ file.state \in {"absent", "unreadable", "broken", "parsed"}
  /\ \A k \in DOMAIN file.helpers : KeyOk(k) /\ HelperOk(file.helpers[k])
  /\ \A k \in DOMAIN file.auths :
       /\ KeyOk(k) /\ file.auths[k].secret = [host |-> k.host]
       /\ file.auths[k].auth \in {"bad", "good", "absent"} /\ file.auths[k].clear \in BOOLEAN
  /\ file.store # <<>> => HelperOk(file.store[1])
IsRegistry(reg) == KeyOk(reg) /\ ~reg.url /\ ~reg.path

(* What is found under a key of a registry is for its host.            *)
LEMMA LookupIs ==
  ASSUME NEW map, NEW reg, IsRegistry(reg), \A k \in DOMAIN map : KeyOk(k)
  PROVE  \A k \in Lookup(map, reg) : k \in DOMAIN map /\ k.host = reg.host
<1> SUFFICES ASSUME NEW k \in DOMAIN map, KeyHost(k) = reg PROVE k.host = reg.host
  BY DEF Lookup
<1> QED BY DEF KeyHost, KeyOk

(* A helper's credential is for the registry that was asked for, and a     *)
(* helper that cannot answer is an error.                                   *)
LEMMA HelperIs ==
  ASSUME NEW h, NEW reg, HelperOk(h), IsCred(RunHelper(h, reg))
  PROVE  RunHelper(h, reg).secret.host = reg.host
BY OutcomesApart DEF RunHelper, HelperOk

LEMMA HelperFails ==
  ASSUME NEW h, NEW reg, ~h.starts \/ h.exit = "fails" \/ (h.exit = "ok" /\ ~(h.reads /\ h.reply))
  PROVE  RunHelper(h, reg) = Failed
BY DEF RunHelper

(* What a file comes to is for the registry, and a source that cannot say   *)
(* what it has is an error.                                                 *)
LEMMA FromPathIs ==
  ASSUME NEW file, FileOk(file), NEW reg, IsRegistry(reg)
  PROVE  /\ \A o \in FromPath(file, reg) : IsCred(o) => o.secret.host = reg.host
         /\ Ailing(file, reg) => FromPath(file, reg) = {Failed}
<1> DEFINE helpers == Lookup(file.helpers, reg)
           entries == Lookup(file.auths, reg)
<1>1. /\ file.state = "absent" => FromPath(file, reg) = {None}
      /\ file.state \in {"unreadable", "broken"} => FromPath(file, reg) = {Failed}
      /\ file.state = "parsed" => FromPath(file, reg) = FromConfig(file, reg)
  BY DEF FromPath
<1>2. ASSUME NEW o \in FromConfig(file, reg), IsCred(o) PROVE o.secret.host = reg.host
  <2>1. ASSUME o = Store(file, reg) PROVE o.secret.host = reg.host
    <3>1. file.store # <<>> /\ o = RunHelper(file.store[1], reg)
      BY <1>2, <2>1, OutcomesApart DEF Store
    <3> QED BY <1>2, <3>1, HelperIs DEF FileOk
  <2>2. ASSUME NEW k \in helpers, o = RunHelper(file.helpers[k], reg)
        PROVE  o.secret.host = reg.host
    <3>1. HelperOk(file.helpers[k])
      BY LookupIs DEF FileOk
    <3> QED BY <1>2, <2>2, <3>1, HelperIs
  <2>3. ASSUME NEW k \in entries, o = FromEntry(file.auths[k]) PROVE o.secret.host = reg.host
    <3>1. k.host = reg.host /\ file.auths[k].secret = [host |-> k.host]
          /\ file.auths[k].auth \in {"bad", "good", "absent"} /\ file.auths[k].clear \in BOOLEAN
      <4>1. \A m \in DOMAIN file.auths : KeyOk(m)
        BY DEF FileOk
      <4>2. k \in DOMAIN file.auths /\ k.host = reg.host
        BY <4>1, LookupIs
      <4> QED BY <4>2 DEF FileOk
    <3>2. o = Cred(file.auths[k].secret)
      BY <1>2, <2>3, <3>1, OutcomesApart DEF FromEntry
    <3> QED BY <3>1, <3>2, OutcomesApart
  <2> HIDE DEF helpers, entries
  <2> QED BY <2>1, <2>2, <2>3 DEF FromConfig, helpers, entries
<1>3. ASSUME Ailing(file, reg) PROVE FromPath(file, reg) = {Failed}
  <2>1. CASE file.state \in {"unreadable", "broken"}
    BY <1>1, <2>1
  <2>2. CASE file.state \notin {"unreadable", "broken"}
    <3> DEFINE h == file.helpers[reg]
    <3>1. /\ file.state = "parsed" /\ helpers = {reg}
          /\ ~h.starts \/ h.exit = "fails" \/ (h.exit = "ok" /\ ~(h.reads /\ h.reply))
      BY <1>3, <2>2 DEF Ailing, Lookup
    <3>2. RunHelper(h, reg) = Failed
      BY <3>1, HelperFails
    <3> QED BY <1>1, <3>1, <3>2 DEF FromConfig
  <2> QED BY <2>1, <2>2
<1> QED BY <1>1, <1>2, <1>3, OutcomesApart DEF FileOk

(* Whatever is in the environment and on the disk, the search for a         *)
(* credential serves its purpose, for search paths of any shape and files  *)
(* with any number of helpers and entries: none that is there is hidden by  *)
(* a source that fails, a source that fails is not passed over in silence,  *)
(* and no registry is given what is for another one.                        *)
THEOREM SearchServes ==
  ASSUME NEW env, NEW disk, \A p \in DOMAIN disk : FileOk(disk[p]),
         Range(ConfigPaths(env)) \subseteq DOMAIN disk, NEW reg, IsRegistry(reg)
  PROVE  CredentialServes(env, disk, reg)
<1> DEFINE paths == ConfigPaths(env)
           read == [i \in DOMAIN paths |-> disk[paths[i]]]
           token == GhcrToken(env, reg)
           consulted == {disk[p] : p \in Range(paths)}
<1>1. DOMAIN paths \subseteq Nat
  BY ConfigPathsIs
<1> HIDE DEF paths, token
<1>2. /\ IsCred(token) => ResolveAuth(env, disk, reg) = {token}
      /\ ~IsCred(token) => ResolveAuth(env, disk, reg) = Credential(read, reg)
  BY DEF ResolveAuth, paths, token
<1>3. IsCred(token) => token.secret.host = reg.host
  <2>1. token = None \/ (token = Cred([host |-> Ghcr]) /\ reg.host = Ghcr)
    BY Zenon DEF GhcrToken, token
  <2> QED BY <2>1, OutcomesApart
<1>4. DOMAIN read = DOMAIN paths /\ consulted = {read[i] : i \in DOMAIN read}
      /\ \A i \in DOMAIN read : FileOk(read[i])
  BY DEF Range, paths
<1> HIDE DEF read, consulted
<1>5. ASSUME NEW o \in Credential(read, reg)
      PROVE  /\ (\E f \in consulted : \A x \in FromPath(f, reg) : IsCred(x)) => IsCred(o)
             /\ (\E f \in consulted : Ailing(f, reg)) => o # None
             /\ IsCred(o) => o.secret.host = reg.host
  <2>1. PICK w : /\ DOMAIN w = DOMAIN read /\ o = Walk(w)
                 /\ \A i \in DOMAIN read : w[i] \in FromPath(read[i], reg)
    BY DEF Credential
  <2>2. /\ IsCred(o) => \E i \in DOMAIN w : o = w[i]
        /\ (\E i \in DOMAIN w : IsCred(w[i])) => IsCred(o)
        /\ o = None => \A i \in DOMAIN w : w[i] # Failed
    BY <1>1, <1>4, <2>1, WalkIs
  <2>3. \A i \in DOMAIN read :
          /\ \A x \in FromPath(read[i], reg) : IsCred(x) => x.secret.host = reg.host
          /\ Ailing(read[i], reg) => FromPath(read[i], reg) = {Failed}
    BY <1>4, FromPathIs
  <2> QED BY <1>4, <2>1, <2>2, <2>3
<1>6. CASE IsCred(token)
  BY <1>2, <1>3, <1>6, OutcomesApart DEF CredentialServes
<1>7. CASE ~IsCred(token)
  BY <1>2, <1>5, <1>7 DEF CredentialServes, consulted, paths
<1> QED BY <1>6, <1>7
=============================================================================
