----------------------------- MODULE OutputGuard -----------------------------
(***************************************************************************)
(* The output guard (crates/forge-host/src/filesystem.rs): which lists of  *)
(* files a generator may hand to the host.                                 *)
(*                                                                         *)
(* A path is a record of an `abs` flag and its components, each "." or     *)
(* ".." or a member of BadNames (it contains a backslash or a NUL) or an   *)
(* ordinary name.  A file has a path and a size in bytes.                  *)
(***************************************************************************)
EXTENDS Naturals, Sequences, SequencesExt

CONSTANTS
  BadNames,   (* names that contain '\' or NUL                              *)
  MaxFiles,   (* Caps::max_files                                            *)
  MaxTotal,   (* Caps::max_total_bytes                                      *)
  MaxPerFile, (* Caps::max_per_file_bytes                                   *)
  MaxInt      (* u64::MAX                                                   *)

ASSUME CapsAssumption ==
  MaxFiles \in Nat /\ MaxTotal \in Nat /\ MaxPerFile \in Nat /\ MaxInt \in Nat

IsSeq(s) == s \in Seq({s[k] : k \in DOMAIN s})

(* A list of files with names in its paths and sizes, as a generator hands  *)
(* it over.                                                                 *)
FileList(files) ==
  /\ IsSeq(files)
  /\ \A i \in DOMAIN files : IsSeq(files[i].path.comps) /\ files[i].size \in Nat

(* Mutant: paths are compared as the generator spells them. *)
Spelled(path) == path.comps

(* std::path::Component::Normal segments are kept, "." segments dropped. *)
Normal(path) ==
  FlattenSeq([k \in DOMAIN path.comps |->
                IF path.comps[k] = "." THEN <<>> ELSE <<path.comps[k]>>])

(* Mutant: only a leading ".." is looked for. *)
SaneStart(path) ==
  /\ ~path.abs
  /\ Normal(path) # <<>>
  /\ path.comps[1] # ".."
  /\ \A i \in DOMAIN path.comps : path.comps[i] \notin BadNames

(* sanitize_path returns Ok. *)
Sane(path) ==
  /\ ~path.abs
  /\ Normal(path) # <<>>
  /\ \A i \in DOMAIN path.comps : path.comps[i] \notin {".."} \union BadNames

(* Mutant: byte counts wrap around. *)
WrappingAdd(a, b) == (a + b) % (MaxInt + 1)

SaturatingAdd(a, b) == Min({a + b, MaxInt})

TotalBytes(files) ==
  LET sum[n \in 0..Len(files)] ==
        IF n = 0 THEN 0 ELSE SaturatingAdd(sum[n - 1], files[n].size)
  IN sum[Len(files)]

(* The two caps Plugin::generate itself enforces on what the plugin returns. *)
HostAccepts(files) ==
  /\ Len(files) <= MaxFiles
  /\ TotalBytes(files) <= MaxTotal

(* validate_output returns Ok. *)
GuardAccepts(files) ==
  /\ Len(files) <= MaxFiles
  /\ \A i \in DOMAIN files :
       /\ Sane(files[i].path)
       /\ files[i].size <= MaxPerFile
  /\ \A i, j \in DOMAIN files :
       i # j => Normal(files[i].path) # Normal(files[j].path)
  /\ TotalBytes(files) <= MaxTotal

-----------------------------------------------------------------------------
(* What the guard is for.                                                   *)

(* A walk from the output directory, one component of the path at a time,   *)
(* until it leaves that directory.                                          *)
Below(names) == [inside |-> TRUE, names |-> names]
Outside == [inside |-> FALSE, names |-> <<>>]
Enter(d, c) ==
  CASE ~d.inside \/ c = "." -> d
    [] d.inside /\ c = ".." -> IF d.names = <<>> THEN Outside ELSE Below(Front(d.names))
    [] OTHER -> Below(Append(d.names, c))

Destination(path) ==
  LET at[k \in 0..Len(path.comps)] ==
        IF k = 0 THEN (IF path.abs THEN Outside ELSE Below(<<>>))
        ELSE Enter(at[k - 1], path.comps[k])
  IN at[Len(path.comps)]

(* The files lie below the output directory, each in a place of its own.    *)
FilesApart(files) ==
  /\ \A i \in DOMAIN files :
       LET d == Destination(files[i].path) IN d.inside /\ d.names # <<>>
  /\ \A i, j \in DOMAIN files :
       i # j => Destination(files[i].path) # Destination(files[j].path)

(* By the real sum of the sizes. *)
WithinBudget(files) ==
  SumFunction([i \in DOMAIN files |-> files[i].size]) <= MaxTotal
=============================================================================
