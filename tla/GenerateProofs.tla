--------------------------- MODULE GenerateProofs ---------------------------
(***************************************************************************)
(* Proofs about Generate: what exit code 0, a refused run and a hook may   *)
(* rely on, for any manifests, generators and file systems, with failures  *)
(* and kills anywhere and any number of runs over what earlier ones left;  *)
(* and about the output guard, for any lists of files.                     *)
(***************************************************************************)
EXTENDS Generate, SequenceLemmas, TLAPS

PathsOf(m) == {Target(m.files[k]) : k \in DOMAIN m.files}

(* The pipeline has not begun to write.                                     *)
Early == {"load_ir", "load_plugins", "stage", "validate"}
Late == {"open", "fill", "hook"}
Refusals == {"config", "input", "plugin", "stage", "guard"}
Steady == Running \/ why \in {"ok", "hook"}
Written == pc = "hook" \/ (~Running /\ why \in {"ok", "hook"})

StateInv ==
  /\ manifest \in Manifests
  /\ override \in Dirs \union {NoDir}
  /\ cur \in Pipes
  /\ pc \in Early \union Late \union {"exited"}
  /\ Running => why = "none"
  /\ why = "ok" => cur = Len(Pipelines)
  /\ DOMAIN disk = Dirs /\ \A d \in Dirs : DOMAIN disk[d] = Nodes
  /\ DOMAIN made = Pipes
  /\ \A i \in Pipes : PathsOf(made[i]) \subseteq Nodes

(* The IR is what the stages so far have made of it.                        *)
IrInv ==
  /\ pc \in {"load_ir", "load_plugins"} => stg = 1
  /\ pc \in {"load_plugins", "stage"} => "stages" \in DOMAIN ir
  /\ pc = "load_plugins" => ir.stages = <<>>
  /\ pc = "stage" => /\ stg \in 1..LastStage(cur)
                     /\ ir.stages = SubSeq(Pipelines[cur].stages, 1, stg - 1)
  /\ pc = "validate" => ir.stages = Pipelines[cur].stages /\ out \in FileLists
  /\ pc \in {"open", "fill"} => /\ made[cur] = [files |-> out, ir |-> ir]
                                /\ out \in FileLists
                                /\ pos \in 1..Len(out)

(* Pipelines before the current one have made their output, later ones have *)
(* not.                                                                     *)
MadeInv ==
  /\ Running => \A i \in Pipes : i > cur \/ (i = cur /\ pc \in Early) => made[i] = NoOutput
  /\ Steady => \A i \in Pipes : i < cur \/ (i = cur /\ pc \notin Early) =>
                 made[i].ir.stages = Pipelines[i].stages

(* The paths that pipeline i has written in full.                           *)
Wrote(i) ==
  {n \in Nodes :
     \/ i < cur /\ n \in PathsOf(made[i])
     \/ i = cur /\ Written /\ n \in PathsOf(made[i])
     \/ i = cur /\ pc \in {"open", "fill"} /\ \E k \in 1..(pos - 1) : n = Target(out[k])}

(* What such a path holds, and the one that is open just now.               *)
Holds(i, n) ==
  \E j \in Pipes : /\ j >= i
                   /\ OutDir(j) = OutDir(i)
                   /\ n \in PathsOf(made[j])
                   /\ disk[OutDir(i)][n] = File(made[j].ir)
                   /\ made[j].ir.stages = Pipelines[j].stages
Open(i, n) == pc = "fill" /\ OutDir(i) = OutDir(cur) /\ n = Target(out[pos])

DiskInv == Steady => \A i \in Pipes : \A n \in Wrote(i) : Holds(i, n) \/ Open(i, n)

(* Which directories this run has changed.                                  *)
Changed(last) == \A d \in Dirs : disk[d] # base[d] => \E i \in 1..last : d = OutDir(i)
BaseInv ==
  /\ pc \in Early \/ (~Running /\ why \in Refusals) => Changed(cur - 1)
  /\ pc \in Late => Changed(cur)

IInv == StateInv /\ IrInv /\ MadeInv /\ DiskInv /\ BaseInv

-----------------------------------------------------------------------------
(* Manifests and lists of files. *)

LEMMA ManifestFacts ==
  ASSUME NEW m \in Manifests
  PROVE  /\ Len(m) \in Nat \ {0} /\ DOMAIN m = 1..Len(m)
         /\ \A i \in DOMAIN m :
              /\ m[i].dir \in Dirs
              /\ Len(m[i].stages) \in Nat \ {0}
              /\ DOMAIN m[i].stages = 1..Len(m[i].stages)
<1>1. IsSeq(m) /\ Len(m) > 0
  BY ManifestsAssumption
<1>2. ASSUME NEW i \in DOMAIN m
      PROVE  IsSeq(m[i].stages) /\ Len(m[i].stages) > 0 /\ m[i].dir \in Dirs
  BY ManifestsAssumption
<1>3. ASSUME NEW s, IsSeq(s), Len(s) > 0
      PROVE  Len(s) \in Nat \ {0} /\ DOMAIN s = 1..Len(s)
  BY <1>3 DEF IsSeq
<1> QED BY <1>1, <1>2, <1>3

LEMMA FileListFacts ==
  ASSUME NEW files \in FileLists
  PROVE  Len(files) \in Nat /\ DOMAIN files = 1..Len(files)
<1>1. IsSeq(files)
  BY FilesAssumption DEF FileList
<1> QED BY <1>1 DEF IsSeq

(* The IR after one more stage. *)
LEMMA OneMoreStage ==
  ASSUME NEW s, IsSeq(s), NEW k \in 1..Len(s)
  PROVE  /\ Append(SubSeq(s, 1, k - 1), s[k]) = SubSeq(s, 1, k)
         /\ SubSeq(s, 1, 0) = <<>> /\ SubSeq(s, 1, Len(s)) = s
<1> DEFINE S == {s[i] : i \in DOMAIN s}
<1>1. s \in Seq(S)
  BY DEF IsSeq
<1> HIDE DEF S
<1> QED BY <1>1

LEMMA OutDirs ==
  ASSUME StateInv
  PROVE  /\ \A i \in Pipes : OutDir(i) \in Dirs
         /\ Pipes = 1..Len(Pipelines) /\ Len(Pipelines) \in Nat \ {0}
BY ManifestFacts DEF StateInv, Pipes, Pipelines, OutDir

-----------------------------------------------------------------------------
(* Steps that write nothing. *)

LEMMA InitIInv == Init => IInv
<1> SUFFICES ASSUME Init PROVE IInv
  OBVIOUS
<1>1. Len(manifest) \in Nat \ {0} /\ DOMAIN manifest = 1..Len(manifest)
  BY ManifestFacts DEF Init
<1>2. 1 \in Pipes
  BY <1>1 DEF Pipes, Pipelines
<1>3. StateInv
  BY <1>2 DEF Init, StateInv, Running, PathsOf, NoOutput
<1>4. IrInv /\ MadeInv /\ DiskInv /\ BaseInv
  BY DEF Init, IrInv, MadeInv, DiskInv, BaseInv, Early, Late, Refusals, Steady, Running
<1> QED BY <1>3, <1>4 DEF IInv

(* An invocation ends without having finished. *)
LEMMA ExitIInv ==
  ASSUME IInv, pc' = "exited", why' \notin {"ok", "hook"},
         why' \in Refusals => pc \in Early /\ UNCHANGED disk,
         UNCHANGED <<manifest, override, made, base, cur>>,
         DOMAIN disk' = Dirs, \A d \in Dirs : DOMAIN disk'[d] = Nodes
  PROVE  IInv'
<1>1. StateInv'
  BY DEF IInv, StateInv, Running, PathsOf, Pipes, Pipelines
<1>2. IrInv' /\ MadeInv' /\ DiskInv'
  BY DEF IrInv, MadeInv, DiskInv, Steady, Running, Early
<1>3. BaseInv'
  BY DEF IInv, BaseInv, Changed, OutDir, Pipelines, Early, Late, Running
<1> QED BY <1>1, <1>2, <1>3 DEF IInv

(* The disk and what was made stay, as does how far the pipeline got.       *)
LEMMA StayIInv ==
  ASSUME IInv, UNCHANGED <<manifest, override, disk, made, base, cur, why>>,
         pc \in Early, pc' \in Early, IrInv'
  PROVE  IInv'
<1>1. StateInv'
  BY DEF IInv, StateInv, Running, PathsOf, Pipes, Pipelines, Early
<1>2. MadeInv'
  BY DEF IInv, MadeInv, Steady, Running, Early, Pipes, Pipelines
<1>3. ASSUME NEW i \in Pipes, NEW n PROVE n \in Wrote(i)' <=> n \in Wrote(i)
  BY DEF Wrote, PathsOf, Written, Running, Early
<1>4. ASSUME NEW i \in Pipes, NEW n PROVE Holds(i, n)' <=> Holds(i, n)
  BY DEF Holds, PathsOf, OutDir, Pipes, Pipelines
<1>5. Steady
  BY DEF Steady, Running, Early
<1>6. DiskInv'
  BY <1>3, <1>4, <1>5 DEF IInv, DiskInv, Open, Early, Pipes, Pipelines
<1>7. BaseInv'
  BY DEF IInv, BaseInv, Changed, OutDir, Pipelines, Early, Late, Running
<1> QED BY <1>1, <1>2, <1>6, <1>7 DEF IInv

LEMMA BeginIInv == ASSUME IInv, NEW o \in Dirs \union {NoDir}, Begin(o) PROVE IInv'
<1>1. UNCHANGED manifest /\ cur' = 1 /\ Pipes' = Pipes /\ 1 \in Pipes
  <2>1. UNCHANGED manifest /\ cur' = 1
    BY DEF Begin
  <2>2. Pipes' = Pipes
    BY <2>1 DEF Pipes, Pipelines
  <2>3. 1 \in Pipes
    BY OutDirs DEF IInv
  <2> QED BY <2>1, <2>2, <2>3
<1>2. made' = [i \in Pipes |-> NoOutput] /\ disk' = disk /\ base' = disk /\ override' = o
  BY DEF Begin
<1>3. \/ pc' = "load_ir" /\ why' = "none"
      \/ pc' = "exited" /\ why' = "config"
  BY DEF Begin, Exit
<1>4. StateInv'
  <2>1. \A i \in Pipes : PathsOf(made'[i]) = {}
    BY <1>2 DEF PathsOf, NoOutput
  <2> QED BY <1>1, <1>2, <1>3, <2>1 DEF IInv, StateInv, Running, Early
<1>5. IrInv'
  BY <1>3 DEF Begin, IrInv
<1>6. MadeInv'
  BY <1>1, <1>2, <1>3, OutDirs DEF IInv, MadeInv, Steady, Running, Early
<1>7. DiskInv'
  <2>1. ASSUME NEW i \in Pipes PROVE Wrote(i)' = {}
    BY <1>1, <1>2, <1>3, OutDirs DEF IInv, Wrote, Written, PathsOf, NoOutput, Running
  <2> QED BY <1>1, <2>1 DEF DiskInv
<1>8. BaseInv'
  BY <1>2, <1>3 DEF BaseInv, Changed, Early, Late
<1> QED BY <1>4, <1>5, <1>6, <1>7, <1>8 DEF IInv

(* The input file means nothing to the invariant. *)
LEMMA SameIInv ==
  ASSUME IInv, UNCHANGED <<manifest, disk, pc, override, cur, stg, ir, out, pos, why, base, made>>
  PROVE  IInv'
<1>1. StateInv' /\ IrInv' /\ MadeInv' /\ BaseInv'
  BY DEF IInv, StateInv, IrInv, MadeInv, BaseInv, Changed, Steady, Running, PathsOf, OutDir, LastStage,
         Pipes, Pipelines
<1>2. ASSUME NEW i \in Pipes, NEW n
      PROVE  (n \in Wrote(i)' <=> n \in Wrote(i)) /\ (Holds(i, n)' <=> Holds(i, n))
                /\ (Open(i, n)' <=> Open(i, n))
  BY DEF Wrote, Holds, Open, PathsOf, Written, Running, OutDir, Pipes, Pipelines
<1>3. DiskInv'
  BY <1>2 DEF IInv, DiskInv, Steady, Running, Pipes, Pipelines
<1> QED BY <1>1, <1>3 DEF IInv

LEMMA ComputeIInv ==
  ASSUME IInv, LoadIr \/ LoadPlugins \/ StageFails \/ Transform \/ RunGenerator
  PROVE  IInv'
<1>0. /\ DOMAIN disk = Dirs /\ \A d \in Dirs : DOMAIN disk[d] = Nodes
      /\ cur \in DOMAIN manifest /\ manifest \in Manifests
  BY DEF IInv, StateInv, Pipes, Pipelines
<1> DEFINE s == manifest[cur].stages
<1>a. IsSeq(s) /\ Len(s) \in Nat \ {0}
  BY <1>0, ManifestsAssumption, ManifestFacts
<1>1. CASE LoadIr
  <2>1. CASE Exit("input") /\ pc = "load_ir"
    BY <1>0, <1>1, <2>1, ExitIInv DEF LoadIr, Exit, Refusals, Early, history
  <2>2. CASE ir' = [version |-> input, stages |-> <<>>] /\ pc' = "load_plugins" /\ UNCHANGED why
    <3>1. IrInv'
      BY <1>1, <2>2 DEF LoadIr, IInv, IrInv
    <3> QED BY <1>1, <2>2, <3>1, StayIInv DEF LoadIr, Early, history
  <2> QED BY <1>1, <2>1, <2>2 DEF LoadIr
<1>2. CASE LoadPlugins
  <2>1. CASE Exit("plugin") /\ pc = "load_plugins"
    BY <1>0, <1>2, <2>1, ExitIInv DEF LoadPlugins, Exit, Refusals, Early, history
  <2>2. CASE pc' = "stage" /\ UNCHANGED why
    <3>1. /\ stg' = 1 /\ ir' = ir /\ ir.stages = <<>> /\ "stages" \in DOMAIN ir
          /\ UNCHANGED <<manifest, cur>>
      BY <1>2, <2>2 DEF LoadPlugins, IInv, IrInv
    <3>2. SubSeq(s, 1, 1 - 1) = <<>>
      BY <1>a, OneMoreStage
    <3>3. IrInv'
      BY <2>2, <3>1, <3>2, <1>a DEF IrInv, LastStage, Pipelines
    <3> QED BY <1>2, <2>2, <3>3, StayIInv DEF LoadPlugins, Early, history
  <2> QED BY <1>2, <2>1, <2>2 DEF LoadPlugins
<1>3. CASE StageFails
  BY <1>0, <1>3, ExitIInv DEF StageFails, Exit, Refusals, Early, history
<1>b. ASSUME pc = "stage", ir' = [ir EXCEPT !.stages = Append(@, Pipelines[cur].stages[stg])]
      PROVE  /\ stg \in 1..Len(s) /\ "stages" \in DOMAIN ir'
             /\ ir'.stages = SubSeq(s, 1, stg)
  <2>1. /\ stg \in 1..Len(s) /\ ir.stages = SubSeq(s, 1, stg - 1) /\ "stages" \in DOMAIN ir
    BY <1>b DEF IInv, IrInv, LastStage, Pipelines
  <2>2. ir'.stages = Append(SubSeq(s, 1, stg - 1), s[stg]) /\ "stages" \in DOMAIN ir'
    BY <1>b, <2>1 DEF Pipelines
  <2> HIDE DEF s
  <2> QED BY <2>1, <2>2, <1>a, OneMoreStage
<1>4. CASE Transform
  <2>1. /\ stg \in 1..Len(s) /\ stg < Len(s) /\ "stages" \in DOMAIN ir'
        /\ ir'.stages = SubSeq(s, 1, stg)
    BY <1>4, <1>b DEF Transform, LastStage, Pipelines
  <2>2. stg' = stg + 1 /\ pc' = "stage" /\ pc = "stage" /\ UNCHANGED <<manifest, cur>>
    BY <1>4 DEF Transform
  <2>3. stg' \in 1..Len(s) /\ stg' - 1 = stg
    BY <2>1, <2>2, <1>a
  <2>4. IrInv'
    BY <2>1, <2>2, <2>3 DEF IrInv, LastStage, Pipelines
  <2> QED BY <1>4, <2>2, <2>4, StayIInv DEF Transform, Early, history
<1>5. CASE RunGenerator
  <2>1. /\ stg = Len(s) /\ ir'.stages = SubSeq(s, 1, stg)
    BY <1>5, <1>b DEF RunGenerator, LastStage, Pipelines
  <2>2. /\ pc' = "validate" /\ pc = "stage" /\ out' \in FileLists /\ UNCHANGED <<manifest, cur>>
    BY <1>5 DEF RunGenerator
  <2>3. SubSeq(s, 1, Len(s)) = s
    BY <1>a, OneMoreStage
  <2>4. IrInv'
    BY <2>1, <2>2, <2>3 DEF IrInv, Pipelines
  <2> QED BY <1>5, <2>2, <2>4, StayIInv DEF RunGenerator, Early, history
<1> QED BY <1>1, <1>2, <1>3, <1>4, <1>5

-----------------------------------------------------------------------------
(* Steps that write. *)

LEMMA ValidateIInv == ASSUME IInv, Validate PROVE IInv'
<1>0. /\ DOMAIN disk = Dirs /\ \A d \in Dirs : DOMAIN disk[d] = Nodes
      /\ cur \in Pipes /\ DOMAIN made = Pipes /\ pc = "validate" /\ why = "none"
      /\ out \in FileLists /\ ir.stages = Pipelines[cur].stages
  BY DEF IInv, StateInv, IrInv, Validate, Running
<1>1. CASE ~GuardAccepts(out)
  BY <1>0, <1>1, ExitIInv DEF Validate, Exit, Refusals, Early
<1>2. CASE GuardAccepts(out)
  <2>1. /\ made' = [made EXCEPT ![cur] = [files |-> out, ir |-> ir]]
        /\ why' = "none" /\ NextFile(1)
        /\ UNCHANGED <<manifest, disk, override, cur, ir, out, base>>
    BY <1>0, <1>2 DEF Validate
  <2>2. Len(out) \in Nat /\ DOMAIN out = 1..Len(out)
    BY <1>0, FileListFacts
  <2>3. \/ pc' = "hook" /\ DOMAIN out = {}
        \/ pc' = "open" /\ pos' = 1 /\ 1 \in 1..Len(out)
    BY <2>1, <2>2 DEF NextFile
  <2>4. Pipes' = Pipes /\ \A i \in Pipes : OutDir(i)' = OutDir(i) /\ Pipelines'[i] = Pipelines[i]
    BY <2>1 DEF Pipes, Pipelines, OutDir
  <2>5. \A k \in DOMAIN out : Target(out[k]) \in Nodes
    BY <1>0, <1>2, FilesAssumption
  <2>6. /\ made'[cur] = [files |-> out, ir |-> ir]
        /\ \A i \in Pipes : i # cur => made'[i] = made[i] /\ PathsOf(made'[i]) = PathsOf(made[i])
        /\ PathsOf(made'[cur]) = {Target(out[k]) : k \in DOMAIN out}
    BY <1>0, <2>1 DEF PathsOf
  <2>7. StateInv'
    <3>1. \A i \in Pipes : PathsOf(made'[i]) \subseteq Nodes
      BY <2>5, <2>6 DEF IInv, StateInv
    <3>2. DOMAIN made' = Pipes
      BY <1>0, <2>1
    <3>3. pc' \in Late /\ why' # "ok"
      BY <2>1, <2>3 DEF Late
    <3> QED BY <1>0, <2>1, <2>4, <3>1, <3>2, <3>3 DEF IInv, StateInv, Running
  <2>8. IrInv'
    BY <1>0, <2>1, <2>3, <2>6 DEF IrInv
  <2>9. MadeInv'
    <3>1. pc' \notin Early /\ cur' = cur /\ ir.stages = Pipelines[cur].stages
      BY <1>0, <2>1, <2>3 DEF Early
    <3>2. Running /\ Steady
      BY <1>0 DEF Running, Steady
    <3>3. ASSUME NEW i \in Pipes, i > cur PROVE made'[i] = NoOutput
      <4>1. i # cur
        BY <1>0, <3>3, OutDirs DEF IInv
      <4> QED BY <2>6, <3>2, <3>3, <4>1 DEF IInv, MadeInv
    <3>4. ASSUME NEW i \in Pipes, i < cur PROVE made'[i].ir.stages = Pipelines[i].stages
      <4>1. i # cur
        BY <1>0, <3>4, OutDirs DEF IInv
      <4> QED BY <2>6, <3>2, <3>4, <4>1 DEF IInv, MadeInv
    <3>5. made'[cur].ir.stages = Pipelines[cur].stages
      BY <2>6, <3>1
    <3> QED BY <1>0, <2>4, <3>1, <3>3, <3>4, <3>5 DEF MadeInv
  <2>10. PathsOf(made[cur]) = {}
    BY <1>0 DEF IInv, MadeInv, Running, Early, PathsOf, NoOutput
  <2>11. ASSUME NEW i \in Pipes, NEW n \in Wrote(i)' PROVE n \in Wrote(i)
    <3>1. CASE i = cur
      <4>1. CASE pc' = "hook" /\ DOMAIN out = {}
        <5>1. n \notin PathsOf(made'[cur])
          BY <2>6, <4>1
        <5> QED BY <2>1, <2>11, <3>1, <4>1, <5>1, OutDirs DEF IInv, Wrote
      <4>2. CASE pc' = "open" /\ pos' = 1
        <5>1. \A k \in 1..(pos' - 1) : FALSE
          BY <4>2
        <5> QED BY <2>1, <2>11, <3>1, <4>2, <5>1, OutDirs DEF IInv, Wrote, Written, Running
      <4> QED BY <2>3, <4>1, <4>2
    <3>2. CASE i # cur
      BY <2>1, <2>6, <2>11, <3>2 DEF Wrote
    <3> QED BY <3>1, <3>2
  <2>12. ASSUME NEW i \in Pipes, NEW n, Holds(i, n) PROVE Holds(i, n)'
    <3>1. PICK j \in Pipes : /\ j >= i /\ OutDir(j) = OutDir(i) /\ n \in PathsOf(made[j])
                             /\ disk[OutDir(i)][n] = File(made[j].ir)
                             /\ made[j].ir.stages = Pipelines[j].stages
      BY <2>12 DEF Holds
    <3>2. j # cur
      BY <2>10, <3>1
    <3> QED BY <2>1, <2>4, <2>6, <3>1, <3>2 DEF Holds
  <2>13. DiskInv'
    <3>1. Steady /\ \A i \in Pipes, n \in Nodes : ~Open(i, n)
      BY <1>0 DEF Steady, Running, Open
    <3>2. ASSUME NEW i \in Pipes, NEW n \in Wrote(i)' PROVE Holds(i, n)'
      <4>1. n \in Wrote(i) /\ n \in Nodes
        BY <2>11 DEF Wrote
      <4> QED BY <2>12, <3>1, <4>1 DEF IInv, DiskInv
    <3> QED BY <2>4, <3>2 DEF DiskInv
  <2>14. BaseInv'
    <3>1. Changed(cur - 1)
      BY <1>0 DEF IInv, BaseInv, Early
    <3>2. Changed(cur)'
      <4>1. ASSUME NEW d \in Dirs, disk[d] # base[d]
            PROVE  \E i \in 1..cur : d = OutDir(i)'
        <5>1. PICK i \in 1..(cur - 1) : d = OutDir(i)
          BY <4>1, <3>1 DEF Changed
        <5>2. i \in 1..cur /\ i \in Pipes
          BY <5>1, OutDirs DEF IInv, StateInv
        <5> QED BY <2>4, <5>1, <5>2
      <4> QED BY <2>1, <4>1 DEF Changed
    <3> QED BY <2>3, <3>2 DEF BaseInv, Early, Late, Running
  <2> QED BY <2>7, <2>8, <2>9, <2>13, <2>14 DEF IInv
<1> QED BY <1>1, <1>2

LEMMA OpenFileIInv == ASSUME IInv, OpenFile PROVE IInv'
<1> DEFINE n0 == Target(out[pos])
           D == OutDir(cur)
           tree == disk[D]
           dirs == [a \in Nodes |-> IF a \in Ancestors(n0) THEN Directory ELSE tree[a]]
<1>0. /\ DOMAIN disk = Dirs /\ \A d \in Dirs : DOMAIN disk[d] = Nodes
      /\ cur \in Pipes /\ DOMAIN made = Pipes /\ pc = "open" /\ why = "none"
      /\ made[cur] = [files |-> out, ir |-> ir] /\ pos \in 1..Len(out) /\ out \in FileLists
      /\ D \in Dirs
  BY OutDirs DEF IInv, StateInv, IrInv, OpenFile, Running
<1>1. UNCHANGED <<manifest, override, cur, ir, out, pos, base, made>>
  BY DEF OpenFile, history
<1> HIDE DEF D
<1>2. ASSUME NEW t, DOMAIN t = Nodes, disk' = [disk EXCEPT ![D] = t]
      PROVE  DOMAIN disk' = Dirs /\ \A d \in Dirs : DOMAIN disk'[d] = Nodes
  BY <1>0, <1>2
<1>3. CASE Exit("io") /\ disk' \in {disk, [disk EXCEPT ![D] = dirs]}
  <2>1. DOMAIN disk' = Dirs /\ \A d \in Dirs : DOMAIN disk'[d] = Nodes
    BY <1>0, <1>2, <1>3
  <2> QED BY <1>1, <1>3, <2>1, ExitIInv DEF Exit, Refusals
<1>4. CASE /\ disk' = [disk EXCEPT ![D] = [dirs EXCEPT ![n0] = Torn]]
           /\ pc' = "fill" /\ why' = why
           /\ \A a \in Ancestors(n0) : ~IsFile(tree[a])
  <2>1. DOMAIN disk' = Dirs /\ \A d \in Dirs : DOMAIN disk'[d] = Nodes
    <3>1. DOMAIN [dirs EXCEPT ![n0] = Torn] = Nodes
      OBVIOUS
    <3> QED BY <1>2, <1>4, <3>1
  <2>2. Pipes' = Pipes /\ \A i \in Pipes : OutDir(i)' = OutDir(i) /\ Pipelines'[i] = Pipelines[i]
    BY <1>1 DEF Pipes, Pipelines, OutDir
  <2>3. StateInv'
    BY <1>0, <1>1, <1>4, <2>1, <2>2 DEF IInv, StateInv, Running, Late, Pipelines
  <2>4. IrInv'
    BY <1>0, <1>1, <1>4 DEF IrInv
  <2>5. MadeInv'
    BY <1>0, <1>1, <1>4, <2>2 DEF IInv, MadeInv, Steady, Running, Early
  <2>6. ASSUME NEW i \in Pipes, NEW n \in Wrote(i)' PROVE n \in Wrote(i)
    BY <1>0, <1>1, <1>4, <2>6 DEF Wrote, Written, Running
  <2>7. ASSUME NEW i \in Pipes, NEW n \in Nodes, Holds(i, n), ~(OutDir(i) = D /\ n = n0)
        PROVE  Holds(i, n)'
    <3>1. PICK j \in Pipes : /\ j >= i /\ OutDir(j) = OutDir(i) /\ n \in PathsOf(made[j])
                             /\ disk[OutDir(i)][n] = File(made[j].ir)
                             /\ made[j].ir.stages = Pipelines[j].stages
      BY <2>7 DEF Holds
    <3>2. disk'[OutDir(i)][n] = disk[OutDir(i)][n]
      <4>1. OutDir(i) \in Dirs
        BY OutDirs DEF IInv
      <4>2. CASE OutDir(i) # D
        BY <1>0, <1>4, <4>1, <4>2
      <4>3. CASE OutDir(i) = D
        <5>1. IsFile(tree[n])
          BY <3>1, <4>3 DEF IsFile, File
        <5>2. n \notin Ancestors(n0) /\ n # n0
          BY <1>4, <2>7, <4>3, <5>1
        <5>3. disk'[D] = [dirs EXCEPT ![n0] = Torn]
          BY <1>0, <1>4
        <5>4. disk'[D][n] = tree[n]
          BY <5>2, <5>3
        <5> QED BY <4>3, <5>4
      <4> QED BY <4>2, <4>3
    <3> QED BY <1>1, <2>2, <3>1, <3>2 DEF Holds
  <2>8. DiskInv'
    <3>1. Steady /\ \A i \in Pipes, n \in Nodes : ~Open(i, n)
      BY <1>0 DEF Steady, Running, Open
    <3>2. ASSUME NEW i \in Pipes, NEW n \in Wrote(i)' PROVE Holds(i, n)' \/ Open(i, n)'
      <4>1. n \in Wrote(i) /\ n \in Nodes
        BY <2>6 DEF Wrote
      <4>2. Holds(i, n)
        BY <3>1, <4>1 DEF IInv, DiskInv
      <4>3. CASE OutDir(i) = D /\ n = n0
        BY <1>0, <1>1, <1>4, <2>2, <4>3 DEF Open, D
      <4> QED BY <2>7, <4>1, <4>2, <4>3
    <3> QED BY <2>2, <3>2 DEF DiskInv
  <2>9. BaseInv'
    <3>1. Changed(cur)
      BY <1>0 DEF IInv, BaseInv, Late
    <3>2. ASSUME NEW d \in Dirs, disk'[d] # base[d] PROVE \E i \in 1..cur : d = OutDir(i)'
      <4>1. cur \in 1..cur /\ \A i \in 1..cur : i \in Pipes
        BY OutDirs, <1>0 DEF IInv
      <4>2. CASE d = D
        BY <1>0, <2>2, <4>1, <4>2 DEF D
      <4>3. CASE d # D
        <5>1. disk[d] # base[d]
          BY <1>0, <1>4, <3>2, <4>3
        <5>2. PICK i \in 1..cur : d = OutDir(i)
          BY <3>1, <5>1 DEF Changed
        <5> QED BY <2>2, <4>1, <5>2
      <4> QED BY <4>2, <4>3
    <3>3. Changed(cur)'
      BY <1>1, <3>2 DEF Changed
    <3> QED BY <1>0, <1>4, <3>3 DEF BaseInv, Early, Late, Running
  <2> QED BY <2>3, <2>4, <2>5, <2>8, <2>9 DEF IInv
<1>5. \/ Exit("io") /\ disk' \in {disk, [disk EXCEPT ![D] = dirs]}
      \/ /\ disk' = [disk EXCEPT ![D] = [dirs EXCEPT ![n0] = Torn]]
         /\ pc' = "fill" /\ why' = why
         /\ \A a \in Ancestors(n0) : ~IsFile(tree[a])
  BY DEF OpenFile, D
<1> QED BY <1>3, <1>4, <1>5

LEMMA FillFileIInv == ASSUME IInv, FillFile PROVE IInv'
<1> DEFINE n0 == Target(out[pos])
           D == OutDir(cur)
<1>0. /\ DOMAIN disk = Dirs /\ \A d \in Dirs : DOMAIN disk[d] = Nodes
      /\ cur \in Pipes /\ DOMAIN made = Pipes /\ pc = "fill" /\ why = "none"
      /\ made[cur] = [files |-> out, ir |-> ir] /\ pos \in 1..Len(out) /\ out \in FileLists
      /\ D \in Dirs
  BY OutDirs DEF IInv, StateInv, IrInv, FillFile, Running
<1>1. /\ UNCHANGED <<manifest, override, cur, ir, out, why, base, made>>
      /\ disk' = [disk EXCEPT ![D][n0] = File(ir)] /\ NextFile(pos + 1)
  BY DEF FillFile, history
<1>2. Len(out) \in Nat /\ DOMAIN out = 1..Len(out)
  BY <1>0, FileListFacts
<1>3. \/ pc' = "hook" /\ pos = Len(out)
      \/ pc' = "open" /\ pos' = pos + 1 /\ pos' \in 1..Len(out)
  BY <1>0, <1>1, <1>2 DEF NextFile
<1>4. Pipes' = Pipes /\ \A i \in Pipes : OutDir(i)' = OutDir(i) /\ Pipelines'[i] = Pipelines[i]
  BY <1>1 DEF Pipes, Pipelines, OutDir
<1>5. DOMAIN disk' = Dirs /\ \A d \in Dirs : DOMAIN disk'[d] = Nodes
  BY <1>0, <1>1
<1>6. n0 \in PathsOf(made[cur]) /\ n0 \in Nodes /\ made[cur].ir = ir
  <2>1. n0 \in PathsOf(made[cur])
    BY <1>0, <1>2 DEF PathsOf
  <2> QED BY <1>0, <2>1 DEF IInv, StateInv
<1> HIDE DEF D, n0
<1>7. StateInv'
  BY <1>0, <1>1, <1>3, <1>4, <1>5 DEF IInv, StateInv, Running, Late, Pipelines
<1>8. IrInv'
  BY <1>0, <1>1, <1>3 DEF IrInv
<1>9. MadeInv'
  BY <1>0, <1>1, <1>3, <1>4 DEF IInv, MadeInv, Steady, Running, Early
<1>10. ASSUME NEW i \in Pipes, NEW n \in Wrote(i)' PROVE n \in Wrote(i) \/ (i = cur /\ n = n0)
  <2>1. CASE i # cur
    BY <1>1, <1>10, <2>1 DEF Wrote
  <2>2. CASE i = cur /\ pc' = "hook" /\ pos = Len(out)
    <3>1. n \in PathsOf(made[cur]) /\ n \in Nodes
      BY <1>0, <1>1, <1>10, <2>2, OutDirs DEF IInv, Wrote
    <3>2. PICK k \in 1..Len(out) : n = Target(out[k])
      BY <1>0, <1>2, <3>1 DEF PathsOf
    <3>3. k = pos \/ k \in 1..(pos - 1)
      <4>1. Len(out) \in Nat /\ k \in 1..Len(out) /\ pos = Len(out)
        BY <1>2, <2>2, <3>2
      <4> QED BY ONLY <4>1
    <3> QED BY <1>0, <2>2, <3>1, <3>2, <3>3 DEF Wrote, n0
  <2>3. CASE i = cur /\ pc' = "open" /\ pos' = pos + 1
    <3>1. PICK k \in 1..(pos' - 1) : n = Target(out[k])
      BY <1>0, <1>1, <1>10, <2>3, OutDirs DEF IInv, Wrote, Written, Running
    <3>2. k = pos \/ k \in 1..(pos - 1)
      BY <1>0, <1>2, <2>3, <3>1
    <3> QED BY <1>0, <1>10, <2>3, <3>1, <3>2 DEF Wrote, n0
  <2> QED BY <1>3, <2>1, <2>2, <2>3
<1>11. ASSUME NEW i \in Pipes, NEW n \in Nodes, Holds(i, n), ~(OutDir(i) = D /\ n = n0)
       PROVE  Holds(i, n)'
  <2>1. PICK j \in Pipes : /\ j >= i /\ OutDir(j) = OutDir(i) /\ n \in PathsOf(made[j])
                           /\ disk[OutDir(i)][n] = File(made[j].ir)
                           /\ made[j].ir.stages = Pipelines[j].stages
    BY <1>11 DEF Holds
  <2>2. disk'[OutDir(i)][n] = disk[OutDir(i)][n]
    <3>1. OutDir(i) \in Dirs
      BY OutDirs DEF IInv
    <3> QED BY <1>0, <1>1, <1>11, <3>1
  <2> QED BY <1>1, <1>4, <2>1, <2>2 DEF Holds
<1>12. ASSUME NEW i \in Pipes, NEW n, i <= cur, OutDir(i) = D, n = n0 PROVE Holds(i, n)'
  <2>1. disk'[OutDir(i)][n] = File(made[cur].ir)
    BY <1>0, <1>1, <1>6, <1>12
  <2>2. made[cur].ir.stages = Pipelines[cur].stages /\ cur >= i
    BY <1>0, <1>12, OutDirs DEF IInv, MadeInv, Steady, Running, Early
  <2>3. OutDir(cur) = OutDir(i) /\ n \in PathsOf(made[cur])
    BY <1>6, <1>12 DEF D
  <2> QED BY <1>0, <1>1, <1>4, <2>1, <2>2, <2>3 DEF Holds
<1>13. DiskInv'
  <2>1. ASSUME NEW i \in Pipes, NEW n \in Wrote(i)' PROVE Holds(i, n)'
    <3>1. i <= cur /\ n \in Nodes
      BY <1>0, <1>1, <2>1, OutDirs DEF IInv, Wrote
    <3>2. CASE OutDir(i) = D /\ n = n0
      BY <1>12, <3>1, <3>2
    <3>3. CASE ~(OutDir(i) = D /\ n = n0)
      <4>1. n \in Wrote(i)
        BY <1>10, <2>1, <3>3 DEF D
      <4>2. Holds(i, n)
        BY <1>0, <3>3, <4>1 DEF IInv, DiskInv, Steady, Running, Open, D, n0
      <4> QED BY <1>11, <3>1, <3>3, <4>2
    <3> QED BY <3>2, <3>3
  <2> QED BY <1>4, <2>1 DEF DiskInv
<1>14. BaseInv'
  <2>1. Changed(cur)
    BY <1>0 DEF IInv, BaseInv, Late
  <2>2. ASSUME NEW d \in Dirs, disk'[d] # base[d] PROVE \E i \in 1..cur : d = OutDir(i)'
    <3>1. cur \in 1..cur /\ \A i \in 1..cur : i \in Pipes
      BY OutDirs, <1>0 DEF IInv
    <3>2. CASE d = D
      BY <1>0, <1>4, <3>1, <3>2 DEF D
    <3>3. CASE d # D
      <4>1. disk[d] # base[d]
        BY <1>0, <1>1, <2>2, <3>3
      <4>2. PICK i \in 1..cur : d = OutDir(i)
        BY <2>1, <4>1 DEF Changed
      <4> QED BY <1>4, <3>1, <4>2
    <3> QED BY <3>2, <3>3
  <2>3. Changed(cur)'
    BY <1>1, <2>2 DEF Changed
  <2> QED BY <1>0, <1>1, <1>3, <2>3 DEF BaseInv, Early, Late, Running
<1> QED BY <1>7, <1>8, <1>9, <1>13, <1>14 DEF IInv

-----------------------------------------------------------------------------
(* Hooks, and the end. *)

LEMMA RunHookIInv == ASSUME IInv, RunHook PROVE IInv'
<1>0. /\ DOMAIN disk = Dirs /\ \A d \in Dirs : DOMAIN disk[d] = Nodes
      /\ cur \in Pipes /\ DOMAIN made = Pipes /\ pc = "hook" /\ why = "none"
      /\ Pipes = 1..Len(Pipelines) /\ Len(Pipelines) \in Nat \ {0}
  BY OutDirs DEF IInv, StateInv, RunHook, Running
<1>1. UNCHANGED <<manifest, disk, override, base, made>>
  BY DEF RunHook, history
<1>2. Pipes' = Pipes /\ \A i \in Pipes : OutDir(i)' = OutDir(i) /\ Pipelines'[i] = Pipelines[i]
  BY <1>1 DEF Pipes, Pipelines, OutDir
<1>3. ASSUME NEW i \in Pipes, NEW n PROVE Holds(i, n) => Holds(i, n)'
  BY <1>1, <1>2 DEF Holds
<1>4. Steady /\ \A i \in Pipes, n \in Nodes : ~Open(i, n)
  BY <1>0 DEF Steady, Running, Open
<1>5. CASE /\ cur' = cur
           /\ \/ pc' = "exited" /\ why' \in {"ok", "hook"} /\ (why' = "ok" => cur = Len(Pipelines))
              \/ pc' = "hook" /\ why' = "none"
  <2>1. StateInv' /\ IrInv'
    BY <1>0, <1>1, <1>2, <1>5 DEF IInv, StateInv, IrInv, Running, Late, Pipelines
  <2>2. MadeInv'
    BY <1>0, <1>1, <1>2, <1>5 DEF IInv, MadeInv, Steady, Running, Early
  <2>3. ASSUME NEW i \in Pipes, NEW n \in Wrote(i)' PROVE n \in Wrote(i) /\ n \in Nodes
    BY <1>0, <1>1, <1>5, <2>3 DEF Wrote, Written, Running
  <2>4. DiskInv'
    <3>1. ASSUME NEW i \in Pipes, NEW n \in Wrote(i)' PROVE Holds(i, n)'
      BY <1>3, <1>4, <2>3, <3>1 DEF IInv, DiskInv
    <3> QED BY <1>2, <3>1 DEF DiskInv
  <2>5. BaseInv'
    <3>1. Changed(cur)'
      <4>1. Changed(cur)
        BY <1>0 DEF IInv, BaseInv, Late
      <4>2. \A i \in 1..cur : i \in Pipes
        BY <1>0
      <4> QED BY <1>1, <1>2, <1>5, <4>1, <4>2 DEF Changed
    <3> QED BY <1>5, <3>1 DEF BaseInv, Early, Late, Refusals
  <2> QED BY <2>1, <2>2, <2>4, <2>5 DEF IInv
<1>6. CASE /\ cur # Len(Pipelines) /\ cur' = cur + 1 /\ pc' = "load_ir" /\ stg' = 1
           /\ why' = "none"
  <2>1. cur' \in Pipes /\ cur' - 1 = cur /\ \A i \in Pipes : i < cur' <=> i <= cur
    BY <1>0, <1>6
  <2>2. StateInv' /\ IrInv'
    BY <1>0, <1>1, <1>2, <1>6, <2>1 DEF IInv, StateInv, IrInv, Running, Early, Pipelines
  <2>3. MadeInv'
    <3>1. \A i \in Pipes : i >= cur' => i > cur
      BY <1>0, <2>1
    <3>2. \A i \in Pipes : i <= cur => made[i].ir.stages = Pipelines[i].stages
      BY <1>0, <1>4 DEF IInv, MadeInv, Early
    <3>3. \A i \in Pipes : i > cur => made[i] = NoOutput
      BY <1>0 DEF IInv, MadeInv, Running
    <3> QED BY <1>0, <1>1, <1>2, <1>6, <2>1, <3>1, <3>2, <3>3 DEF MadeInv, Steady, Running, Early
  <2>4. ASSUME NEW i \in Pipes, NEW n \in Wrote(i)' PROVE n \in Wrote(i) /\ n \in Nodes
    <3>1. i < cur' /\ n \in PathsOf(made[i]) /\ n \in Nodes
      BY <1>1, <1>6, <2>4 DEF Wrote, Written, Running
    <3>2. i < cur \/ i = cur
      BY <1>0, <2>1, <3>1
    <3> QED BY <1>0, <3>1, <3>2 DEF Wrote, Written
  <2>5. DiskInv'
    <3>1. ASSUME NEW i \in Pipes, NEW n \in Wrote(i)' PROVE Holds(i, n)'
      BY <1>3, <1>4, <2>4, <3>1 DEF IInv, DiskInv
    <3> QED BY <1>2, <3>1 DEF DiskInv
  <2>6. BaseInv'
    <3>1. Changed(cur - 1)'
      <4>1. Changed(cur)
        BY <1>0 DEF IInv, BaseInv, Late
      <4>2. \A i \in 1..cur : i \in Pipes
        BY <1>0
      <4> QED BY <1>1, <1>2, <2>1, <4>1, <4>2 DEF Changed
    <3> QED BY <1>6, <3>1 DEF BaseInv, Early, Late, Running
  <2> QED BY <2>2, <2>3, <2>5, <2>6 DEF IInv
<1>7. \/ /\ cur' = cur
         /\ \/ pc' = "exited" /\ why' \in {"ok", "hook"} /\ (why' = "ok" => cur = Len(Pipelines))
            \/ pc' = "hook" /\ why' = "none"
      \/ /\ cur # Len(Pipelines) /\ cur' = cur + 1 /\ pc' = "load_ir" /\ stg' = 1
         /\ why' = "none"
  BY <1>0 DEF RunHook, NextPipeline, Exit
<1> QED BY <1>5, <1>6, <1>7

LEMMA StepIInv == IInv /\ [Next]_vars => IInv'
<1> SUFFICES ASSUME IInv, [Next]_vars PROVE IInv'
  OBVIOUS
<1>0. DOMAIN disk = Dirs /\ \A d \in Dirs : DOMAIN disk[d] = Nodes
  BY DEF IInv, StateInv
<1>1. ASSUME NEW v \in Versions, EditInput(v) PROVE IInv'
  BY <1>1, SameIInv DEF EditInput, history
<1>2. CASE IoFailure \/ Kill
  BY <1>0, <1>2, ExitIInv DEF IoFailure, Kill, Exit, Refusals, history
<1>3. CASE UNCHANGED vars
  BY <1>3, SameIInv DEF vars
<1> QED
  BY <1>1, <1>2, <1>3, BeginIInv, ComputeIInv, ValidateIInv, OpenFileIInv, FillFileIInv,
     RunHookIInv DEF Next

(* Whenever a pipeline is done, its files are on disk as Delivered says.    *)
LEMMA DoneDelivers ==
  ASSUME IInv, NEW i \in Pipes, pc # "fill", Steady,
         i < cur \/ (i = cur /\ Written)
  PROVE  made[i] # NoOutput /\ Delivered(i)
<1>1. made[i].ir.stages = Pipelines[i].stages /\ Len(Pipelines[i].stages) # 0
  <2>1. i < cur \/ (i = cur /\ pc \notin Early)
    BY DEF Written, Running, Early
  <2>2. Len(Pipelines[i].stages) # 0
    BY ManifestFacts DEF IInv, StateInv, Pipes, Pipelines
  <2> QED BY <2>1, <2>2 DEF IInv, MadeInv
<1>2. made[i] # NoOutput
  BY <1>1 DEF NoOutput, NoIr
<1>3. ASSUME NEW k \in DOMAIN made[i].files
      PROVE  Holds(i, Target(made[i].files[k]))
  <2>1. Target(made[i].files[k]) \in Wrote(i)
    BY DEF Wrote, PathsOf, IInv, StateInv
  <2> QED BY <2>1 DEF IInv, DiskInv, Open
<1> QED BY <1>2, <1>3 DEF Delivered, Holds, PathsOf

(* Exit code 0 means that all files of all pipelines are there, complete    *)
(* and from the stages that were to make them, whatever earlier runs left.  *)
THEOREM ExitZeroMeansDelivered == Spec => []ExitZeroDelivers
<1>1. IInv => ExitZeroDelivers
  <2> SUFFICES ASSUME IInv, ~Running, ExitCode(why) = 0, NEW i \in Pipes
               PROVE  made[i] # NoOutput /\ Delivered(i)
    BY DEF ExitZeroDelivers
  <2>1. why = "ok"
    BY DEF ExitCode
  <2>2. cur = Len(Pipelines) /\ (i < cur \/ i = cur)
    BY <2>1, OutDirs DEF IInv, StateInv
  <2> QED BY <2>1, <2>2, DoneDelivers DEF Steady, Written, Running, Open
<1> QED BY <1>1, InitIInv, StepIInv, PTL DEF Spec

(* What the run works on and has made is of versions the input had since    *)
(* it started.                                                              *)
SeenInv ==
  /\ Running => input \in seen
  /\ pc \in {"load_plugins", "stage", "validate", "open", "fill"} =>
       "version" \in DOMAIN ir /\ ir.version \in seen
  /\ \A i \in Pipes : made[i] # NoOutput => made[i].ir.version \in seen

LEMMA InitSeen == Init => SeenInv
BY DEF Init, SeenInv, Running

LEMMA BeginSeen == ASSUME NEW o \in Dirs \union {NoDir}, Begin(o) PROVE SeenInv'
<1>1. input' \in seen' /\ pc' \in {"exited", "load_ir"}
  BY DEF Begin, Exit
<1>2. made' = [i \in Pipes |-> NoOutput] /\ Pipes' = Pipes
  BY DEF Begin, Pipes, Pipelines
<1> QED BY <1>1, <1>2 DEF SeenInv

(* Only Validate hands on what a pipeline has made.                         *)
LEMMA StepSeen == IInv /\ SeenInv /\ [Next]_vars => SeenInv'
<1> SUFFICES ASSUME IInv, SeenInv, [Next]_vars PROVE SeenInv'
  OBVIOUS
<1> USE DEF SeenInv, Running, Exit, Pipes, Pipelines
<1>1. CASE \E o \in Dirs \union {NoDir} : Begin(o)
  BY <1>1, BeginSeen
<1>2. CASE LoadIr
  BY <1>2 DEF LoadIr, history
<1>3. CASE LoadPlugins \/ StageFails
  BY <1>3 DEF LoadPlugins, StageFails, history
<1>4. CASE Transform \/ RunGenerator
  <2>1. PICK x : ir' = [ir EXCEPT !.stages = x]
    BY <1>4 DEF Transform, RunGenerator
  <2>2. "version" \in DOMAIN ir
    BY <1>4 DEF Transform, RunGenerator
  <2>3. "version" \in DOMAIN ir' /\ ir'.version = ir.version
    BY <2>1, <2>2
  <2> QED BY <1>4, <2>3 DEF Transform, RunGenerator, history
<1>5. CASE Validate
  <2>1. /\ UNCHANGED <<manifest, input, ir, seen>> /\ ir.version \in seen
        /\ pc' \in {"exited", "open", "hook"}
        /\ made' = made \/ made' = [made EXCEPT ![cur] = [files |-> out, ir |-> ir]]
    BY <1>5 DEF Validate, NextFile
  <2>2. DOMAIN made = Pipes
    BY DEF IInv, StateInv
  <2>3. ASSUME NEW i \in Pipes, made'[i] # NoOutput PROVE made'[i].ir.version \in seen
    <3>1. CASE made'[i] = made[i]
      BY <2>3, <3>1
    <3>2. CASE made'[i] = [files |-> out, ir |-> ir]
      BY <2>1, <3>2
    <3> QED BY <2>1, <2>2, <3>1, <3>2
  <2> QED BY <1>5, <2>1, <2>3 DEF Validate
<1>6. CASE OpenFile
  BY <1>6 DEF OpenFile, history
<1>7. CASE FillFile
  BY <1>7 DEF FillFile, NextFile, history
<1>8. CASE RunHook
  <2>1. UNCHANGED <<manifest, input, made, seen>> /\ pc = "hook"
        /\ pc' \in {"exited", "load_ir", "hook"}
    BY <1>8 DEF RunHook, NextPipeline, history
  <2> QED BY <2>1
<1>9. CASE \E v \in Versions : EditInput(v)
  BY <1>9 DEF EditInput
<1>10. CASE IoFailure \/ Kill
  BY <1>10 DEF IoFailure, Kill, history
<1>11. CASE UNCHANGED vars
  BY <1>11 DEF vars
<1> QED
  BY <1>1, <1>2, <1>3, <1>4, <1>5, <1>6, <1>7, <1>8, <1>9, <1>10, <1>11 DEF Next

(* What a run with exit code 0 leaves on disk is made of versions that the  *)
(* input had while it ran: of one version, unless somebody edited it.       *)
THEOREM OutputOfThisRun == Spec => []VersionsOfThisRun
<1>1. IInv /\ SeenInv => VersionsOfThisRun
  <2> SUFFICES ASSUME IInv, SeenInv, ~Running, ExitCode(why) = 0,
                      NEW i \in Pipes, NEW k \in DOMAIN made[i].files
               PROVE  disk[OutDir(i)][Target(made[i].files[k])].ir.version \in seen
    BY DEF VersionsOfThisRun
  <2> DEFINE n == Target(made[i].files[k])
  <2>1. why = "ok"
    BY DEF ExitCode
  <2>2. cur = Len(Pipelines) /\ (i < cur \/ i = cur)
    BY <2>1, OutDirs DEF IInv, StateInv
  <2>3. Delivered(i)
    BY <2>1, <2>2, DoneDelivers DEF Steady, Written, Running, Open
  <2>4. PICK j \in Pipes : /\ n \in {Target(made[j].files[m]) : m \in DOMAIN made[j].files}
                           /\ disk[OutDir(i)][n] = File(made[j].ir)
    BY <2>3 DEF Delivered
  <2>5. made[j] # NoOutput
    BY <2>4 DEF NoOutput
  <2>6. made[j].ir.version \in seen
    BY <2>5 DEF SeenInv
  <2> QED BY <2>4, <2>6 DEF File
<1> QED BY <1>1, InitIInv, StepIInv, InitSeen, StepSeen, PTL DEF Spec

(* A run that the input, a plugin, a stage or the guard stops has changed   *)
(* nothing in the output directories of its current and later pipelines.    *)
THEOREM RefusalWritesNothing == Spec => []RejectedWritesNothing
<1>1. IInv => RejectedWritesNothing
  BY DEF IInv, StateInv, BaseInv, Changed, RejectedWritesNothing, Refusals
<1> QED BY <1>1, InitIInv, StepIInv, PTL DEF Spec

(* A hook finds its pipeline's files complete on disk.                      *)
THEOREM HooksSeeFiles == Spec => []FilesBeforeHooks
<1>1. IInv => FilesBeforeHooks
  <2> SUFFICES ASSUME IInv, pc = "hook" \/ why = "hook"
               PROVE  made[cur] # NoOutput /\ Delivered(cur)
    BY DEF FilesBeforeHooks
  <2>1. Written /\ Steady /\ pc # "fill" /\ cur \in Pipes
    BY DEF IInv, StateInv, Written, Steady, Running
  <2> QED BY <2>1, DoneDelivers DEF Open
<1> QED BY <1>1, InitIInv, StepIInv, PTL DEF Spec

-----------------------------------------------------------------------------
(* What the output guard is for.                                            *)

Sizes(files) == [i \in DOMAIN files |-> files[i].size]

LEMMA MinIs ==
  ASSUME NEW m \in Nat, NEW n \in Nat
  PROVE  Min({m, n}) = IF m <= n THEN m ELSE n
BY MinOfTwo

(* The running total of the code is the real sum, cut off at MaxInt.        *)
LEMMA TotalBytesIs ==
  ASSUME NEW files, FileList(files)
  PROVE  /\ SumFunction(Sizes(files)) \in Nat
         /\ TotalBytes(files) = Min({SumFunction(Sizes(files)), MaxInt})
<1> DEFINE N == Len(files)
           F == Sizes(files)
           Is(s) == s = [n \in 0..N |-> IF n = 0 THEN 0 ELSE SaturatingAdd(s[n - 1], files[n].size)]
           sum == CHOOSE s : Is(s)
<1>1. N \in Nat /\ DOMAIN files = 1..N /\ MaxInt \in Nat
  BY CapsAssumption DEF FileList, IsSeq
<1>2. F \in [1..N -> Nat] /\ \A n \in 1..N : F[n] = files[n].size
  BY <1>1 DEF FileList, Sizes
<1>3. TotalBytes(files) = sum[N]
  BY DEF TotalBytes
<1> HIDE DEF F, N
<1>4. PICK r : /\ r \in [0..N -> Nat] /\ r[0] = 0 /\ r[N] = SumFunction(F)
               /\ \A n \in 1..N : r[n] = r[n - 1] + F[n]
  BY <1>1, <1>2, RunningSum
<1> DEFINE cut == [n \in 0..N |-> IF r[n] <= MaxInt THEN r[n] ELSE MaxInt]
<1>5. ASSUME NEW n \in 1..N
      PROVE  n - 1 \in 0..N /\ cut[n] = SaturatingAdd(cut[n - 1], files[n].size)
  <2>1. n - 1 \in 0..N /\ n \in 0..N
    BY <1>1
  <2>2. r[n - 1] \in Nat /\ F[n] \in Nat /\ r[n] = r[n - 1] + F[n] /\ files[n].size = F[n]
    BY <1>2, <1>4, <2>1
  <2> DEFINE x == cut[n - 1]
  <2>3. x \in Nat /\ x = IF r[n - 1] <= MaxInt THEN r[n - 1] ELSE MaxInt
    BY <1>1, <2>1, <2>2
  <2>4. cut[n] = IF r[n] <= MaxInt THEN r[n] ELSE MaxInt
    BY <2>1
  <2> HIDE DEF x, cut
  <2>5. Min({x + F[n], MaxInt}) = IF x + F[n] <= MaxInt THEN x + F[n] ELSE MaxInt
    BY <1>1, <2>2, <2>3, MinIs
  <2>6. cut[n] = Min({x + F[n], MaxInt})
    BY <1>1, <2>2, <2>3, <2>4, <2>5
  <2> QED BY <2>1, <2>2, <2>6 DEF SaturatingAdd, x
<1>6. Is(cut)
  <2>1. cut[0] = 0
    BY <1>1, <1>4
  <2>2. cut = [n \in 0..N |-> cut[n]]
    OBVIOUS
  <2>3. \A n \in 0..N : n = 0 \/ n \in 1..N
    BY <1>1
  <2> HIDE DEF cut
  <2> QED BY <1>5, <2>1, <2>2, <2>3
<1>7. Is(sum)
  BY <1>6
<1> HIDE DEF sum, cut
<1>8. \A n \in 0..N : sum[n] = IF n = 0 THEN 0 ELSE SaturatingAdd(sum[n - 1], files[n].size)
  BY <1>7
<1>9. sum[N] = cut[N]
  <2> DEFINE G == {n \in Nat : n <= N => sum[n] = cut[n]}
  <2>1. 0 \in G
    BY <1>1, <1>4, <1>8 DEF cut
  <2>2. ASSUME NEW n \in Nat, n \in G PROVE n + 1 \in G
    <3> SUFFICES ASSUME n + 1 <= N PROVE sum[n + 1] = cut[n + 1]
      OBVIOUS
    <3>1. n + 1 \in 0..N /\ n + 1 \in 1..N /\ n + 1 # 0 /\ (n + 1) - 1 = n /\ n <= N
      BY <1>1
    <3>2. sum[n + 1] = SaturatingAdd(sum[n], files[n + 1].size)
      BY <1>8, <3>1
    <3>3. cut[n + 1] = SaturatingAdd(cut[n], files[n + 1].size)
      BY <1>5, <3>1
    <3> QED BY <2>2, <3>1, <3>2, <3>3
  <2>3. Nat \subseteq G
    <3> HIDE DEF G
    <3> QED BY <2>1, <2>2, NatInduct
  <2> QED BY <1>1, <2>3
<1>10. cut[N] = IF SumFunction(F) <= MaxInt THEN SumFunction(F) ELSE MaxInt
  BY <1>1, <1>4 DEF cut
<1>11. SumFunction(F) \in Nat
  BY <1>1, <1>4
<1> QED BY <1>1, <1>3, <1>9, <1>10, <1>11, MinIs DEF F

(* A sane path leads to where its names say.                                *)
LEMMA SaneDestination ==
  ASSUME NEW path, IsSeq(path.comps), Sane(path)
  PROVE  Destination(path) = Below(Normal(path))
<1> DEFINE N == Len(path.comps)
           X == {path.comps[k] : k \in DOMAIN path.comps}
           part(c) == IF c = "." THEN <<>> ELSE <<c>>
           parts == [k \in DOMAIN path.comps |-> part(path.comps[k])]
           Is(at) == at = [k \in 0..N |-> IF k = 0 THEN (IF path.abs THEN Outside ELSE Below(<<>>))
                                          ELSE Enter(at[k - 1], path.comps[k])]
           at == CHOOSE a : Is(a)
<1>1. N \in Nat /\ DOMAIN path.comps = 1..N /\ \A k \in 1..N : path.comps[k] \in X
  BY DEF IsSeq
<1>2. parts \in Seq(Seq(X)) /\ Len(parts) = N /\ \A k \in 1..N : parts[k] = part(path.comps[k])
  <2>1. ASSUME NEW c \in X PROVE part(c) \in Seq(X)
    <3> HIDE DEF X
    <3> QED OBVIOUS
  <2>2. \A k \in 1..N : part(path.comps[k]) \in Seq(X)
    <3> HIDE DEF part
    <3> QED BY <1>1, <2>1
  <2> HIDE DEF part, X, N
  <2>3. parts \in [1..N -> Seq(X)] /\ \A k \in 1..N : parts[k] = part(path.comps[k])
    BY <1>1, <2>2
  <2> HIDE DEF parts
  <2> QED BY <1>1, <2>3
<1>3. Destination(path) = at[N]
  BY DEF Destination
<1>4. Normal(path) = FlattenSeq(parts)
  BY DEF Normal
<1>5. ~path.abs /\ Normal(path) # <<>> /\ \A k \in 1..N : path.comps[k] # ".."
  BY <1>1 DEF Sane
<1> HIDE DEF N, X, parts
<1>6. N # 0
  <2> SUFFICES ASSUME N = 0 PROVE parts = <<>>
    BY <1>2, <1>4, <1>5 DEF FlattenSeq
  <2> QED BY <1>2
<1>7. PICK f : FlattenSeq(parts) = f[N] /\ \A n \in 1..N : f[n] = IF n = 1 THEN parts[n] ELSE f[n - 1] \o parts[n]
  <2>1. \E f : FlattenSeq(parts) = f[Len(parts)] /\ Flattens(parts, f)
    <3>1. Len(parts) # 0 /\ parts \in Seq(Seq(X))
      BY <1>2, <1>6
    <3> QED BY <3>1, FlattenSteps
  <2> QED BY <1>2, <2>1 DEF Flattens
<1> DEFINE to == [k \in 0..N |-> IF k = 0 THEN <<>> ELSE f[k]]
<1>8. ASSUME NEW k \in 1..N, to[k - 1] \in Seq(X)
      PROVE  to[k] = to[k - 1] \o parts[k] /\ to[k] \in Seq(X)
  <2>1. k \in 0..N /\ k # 0 /\ k - 1 \in 0..N /\ parts[k] \in Seq(X)
    BY <1>1, <1>2
  <2>2. to[k] = f[k] /\ to[k - 1] = IF k = 1 THEN <<>> ELSE f[k - 1]
    BY <2>1
  <2> HIDE DEF to
  <2>3. to[k] = to[k - 1] \o parts[k]
    <3>1. CASE k = 1
      BY <1>7, <2>1, <2>2, <3>1
    <3>2. CASE k # 1
      BY <1>7, <2>1, <2>2, <3>2
    <3> QED BY <3>1, <3>2
  <2> DEFINE x == to[k - 1]
             y == parts[k]
  <2>4. x \in Seq(X) /\ y \in Seq(X)
    BY <1>8, <2>1
  <2> HIDE DEF x, y
  <2>5. x \o y \in Seq(X)
    BY <2>4
  <2> QED BY <2>3, <2>5 DEF x, y
<1>9. \A k \in 0..N : to[k] \in Seq(X)
  <2> DEFINE G == {k \in Nat : k <= N => to[k] \in Seq(X)}
  <2>1. 0 \in G
    BY <1>1
  <2> HIDE DEF to
  <2>2. ASSUME NEW k \in Nat, k \in G PROVE k + 1 \in G
    <3> SUFFICES ASSUME k + 1 <= N PROVE to[k + 1] \in Seq(X)
      OBVIOUS
    <3>1. k + 1 \in 1..N /\ (k + 1) - 1 = k /\ k <= N
      BY <1>1
    <3> QED BY <1>8, <2>2, <3>1
  <2>3. Nat \subseteq G
    <3> HIDE DEF G
    <3> QED BY <2>1, <2>2, NatInduct
  <2> QED BY <1>1, <2>3
<1> DEFINE w == [k \in 0..N |-> Below(to[k])]
<1>10. ASSUME NEW k \in 1..N PROVE w[k] = Enter(w[k - 1], path.comps[k])
  <2> DEFINE c == path.comps[k]
  <2>1. k \in 0..N /\ k - 1 \in 0..N
    BY <1>1
  <2>2. w[k] = Below(to[k]) /\ w[k - 1] = Below(to[k - 1]) /\ to[k - 1] \in Seq(X)
    BY <1>9, <2>1
  <2>3. c # ".." /\ c \in X /\ parts[k] = part(c)
    BY <1>1, <1>2, <1>5
  <2> HIDE DEF to, w, c
  <2>4. to[k] = to[k - 1] \o part(c)
    BY <1>8, <2>1, <2>2, <2>3
  <2>5. CASE c = "."
    BY <2>2, <2>4, <2>5 DEF Enter, Below, c
  <2>6. CASE c # "."
    <3>1. to[k] = Append(to[k - 1], c)
      BY <2>2, <2>3, <2>4, <2>6
    <3>2. Enter(Below(to[k - 1]), c) = Below(Append(to[k - 1], c))
      BY <2>3, <2>6 DEF Enter, Below
    <3> QED BY <2>2, <3>1, <3>2 DEF c
  <2> QED BY <2>5, <2>6
<1>11. w[0] = Below(<<>>)
  BY <1>1
<1>12. Is(w)
  <2>1. w = [k \in 0..N |-> w[k]]
    OBVIOUS
  <2>2. \A k \in 0..N : k = 0 \/ k \in 1..N
    BY <1>1
  <2> HIDE DEF w
  <2> QED BY <1>5, <1>10, <1>11, <2>1, <2>2
<1>13. Is(at)
  BY <1>12
<1> HIDE DEF at, w
<1>14. /\ at[0] = Below(<<>>)
       /\ \A k \in 1..N : at[k] = Enter(at[k - 1], path.comps[k])
  BY <1>1, <1>5, <1>13
<1>15. at[N] = w[N]
  <2> DEFINE G == {k \in Nat : k <= N => at[k] = w[k]}
  <2>1. 0 \in G
    BY <1>11, <1>14
  <2>2. ASSUME NEW k \in Nat, k \in G PROVE k + 1 \in G
    <3> SUFFICES ASSUME k + 1 <= N PROVE at[k + 1] = w[k + 1]
      OBVIOUS
    <3>1. k + 1 \in 1..N /\ (k + 1) - 1 = k /\ k <= N
      BY <1>1
    <3> QED BY <1>10, <1>14, <2>2, <3>1
  <2>3. Nat \subseteq G
    <3> HIDE DEF G
    <3> QED BY <2>1, <2>2, NatInduct
  <2> QED BY <1>1, <2>3
<1>16. w[N] = Below(f[N])
  BY <1>1, <1>6 DEF w
<1> QED BY <1>3, <1>4, <1>7, <1>15, <1>16

(* Whatever a generator returns, and however it spells the paths: what the  *)
(* guard lets through lies below the output directory, each file in a place *)
(* of its own.                                                              *)
THEOREM GuardKeepsFilesApart ==
  ASSUME NEW files, FileList(files), GuardAccepts(files)
  PROVE  FilesApart(files)
<1>1. ASSUME NEW i \in DOMAIN files
      PROVE  Destination(files[i].path) = Below(Normal(files[i].path)) /\ Normal(files[i].path) # <<>>
  <2>1. Sane(files[i].path) /\ IsSeq(files[i].path.comps)
    BY DEF FileList, GuardAccepts
  <2>2. Normal(files[i].path) # <<>>
    BY <2>1 DEF Sane
  <2> QED BY <2>1, <2>2, SaneDestination
<1>2. \A i, j \in DOMAIN files : i # j => Normal(files[i].path) # Normal(files[j].path)
  BY DEF GuardAccepts
<1>3. \A s, t : Below(s) = Below(t) => s = t
  <2>1. \A s : Below(s).names = s
    BY DEF Below
  <2> QED BY <2>1
<1>4. \A s : Below(s).inside /\ Below(s).names = s
  BY DEF Below
<1> QED BY <1>1, <1>2, <1>3, <1>4 DEF FilesApart

(* A saturating sum enforces the cap on the real one, whatever the sizes,   *)
(* unless the cap is the number that it saturates at.                       *)
THEOREM HostKeepsBudget ==
  ASSUME NEW files, FileList(files), HostAccepts(files), MaxTotal < MaxInt
  PROVE  WithinBudget(files)
<1> DEFINE n == SumFunction(Sizes(files))
<1>1. n \in Nat /\ TotalBytes(files) = Min({n, MaxInt}) /\ TotalBytes(files) <= MaxTotal
  BY TotalBytesIs DEF HostAccepts
<1> HIDE DEF n
<1>2. MaxTotal \in Nat /\ MaxInt \in Nat
  BY CapsAssumption
<1>3. Min({n, MaxInt}) = IF n <= MaxInt THEN n ELSE MaxInt
  BY <1>1, <1>2, MinIs
<1>4. n <= MaxTotal
  BY <1>1, <1>2, <1>3
<1> QED BY <1>4 DEF WithinBudget, Sizes, n

(* What a pipeline goes on to write has passed the guard.                   *)
Accepted == \A i \in Pipes : made[i].files \in FileLists \union {<<>>} /\ GuardAccepts(made[i].files)

LEMMA NoFiles == FileList(<<>>) /\ GuardAccepts(<<>>)
<1>1. IsSeq(<<>>) /\ Len(<<>>) = 0 /\ DOMAIN <<>> = {}
  BY DEF IsSeq
<1>2. FileList(<<>>)
  BY <1>1 DEF FileList
<1>3. TotalBytes(<<>>) = 0
  <2> DEFINE f == Sizes(<<>>)
  <2>1. f \in [1..0 -> Nat] /\ IsFiniteSet(1..0)
    BY <1>1, FS_Interval DEF Sizes
  <2>2. \A x \in 1..0 : f[x] = 0
    OBVIOUS
  <2> HIDE DEF f
  <2>3. SumFunction(f) = 0
    BY <2>1, <2>2, SumZero
  <2>4. TotalBytes(<<>>) = Min({0, MaxInt})
    BY <1>2, <2>3, TotalBytesIs DEF f
  <2> QED BY <2>4, MinIs, CapsAssumption
<1> QED BY <1>1, <1>2, <1>3, CapsAssumption DEF GuardAccepts

LEMMA StepAccepted ==
  ASSUME IInv, Accepted, [Next]_vars
  PROVE  Accepted'
<1>1. CASE Validate /\ GuardAccepts(out)
  <2>1. out \in FileLists /\ cur \in Pipes /\ DOMAIN made = Pipes /\ Pipes' = Pipes
    BY <1>1 DEF Validate, IInv, StateInv, IrInv, Pipes, Pipelines
  <2>2. made' = [made EXCEPT ![cur] = [files |-> out, ir |-> ir]]
    BY <1>1 DEF Validate
  <2>3. \A i \in Pipes : made'[i].files = IF i = cur THEN out ELSE made[i].files
    BY <2>1, <2>2
  <2> QED BY <1>1, <2>1, <2>3 DEF Accepted
<1>2. ASSUME NEW o \in Dirs \union {NoDir}, Begin(o) PROVE Accepted'
  <2>1. Pipes' = Pipes /\ made' = [i \in Pipes |-> NoOutput]
    BY <1>2 DEF Begin, Pipes, Pipelines
  <2> QED BY <2>1, NoFiles DEF Accepted, NoOutput
<1>3. CASE UNCHANGED <<manifest, made>>
  BY <1>3 DEF Accepted, Pipes, Pipelines
<1>4. CASE Validate /\ ~GuardAccepts(out)
  BY <1>3, <1>4 DEF Validate
<1>5. CASE LoadIr \/ LoadPlugins \/ StageFails \/ Transform \/ RunGenerator
  BY <1>3, <1>5 DEF LoadIr, LoadPlugins, StageFails, Transform, RunGenerator, history
<1>6. CASE OpenFile \/ FillFile \/ RunHook \/ IoFailure \/ Kill \/ UNCHANGED vars
  BY <1>3, <1>6 DEF OpenFile, FillFile, RunHook, IoFailure, Kill, vars, history
<1>7. ASSUME NEW v \in Versions, EditInput(v) PROVE Accepted'
  BY <1>3, <1>7 DEF EditInput, history
<1> QED BY <1>1, <1>2, <1>4, <1>5, <1>6, <1>7 DEF Next

(* All that a run writes was accepted: its files lie below the output       *)
(* directory, apart from each other, and within the byte budget.            *)
OutputsApart ==
  \A i \in Pipes : /\ FilesApart(made[i].files)
                   /\ MaxTotal < MaxInt => WithinBudget(made[i].files)

THEOREM OutputsStayApart == Spec => []OutputsApart
<1>1. Init => Accepted
  BY NoFiles DEF Init, Accepted, NoOutput, Pipes, Pipelines
<1>2. Accepted => OutputsApart
  <2> SUFFICES ASSUME Accepted, NEW i \in Pipes
               PROVE  /\ FilesApart(made[i].files)
                      /\ MaxTotal < MaxInt => WithinBudget(made[i].files)
    BY DEF OutputsApart
  <2>1. FileList(made[i].files) /\ GuardAccepts(made[i].files)
    BY NoFiles, FilesAssumption DEF Accepted
  <2>2. HostAccepts(made[i].files)
    BY <2>1 DEF GuardAccepts, HostAccepts
  <2> QED BY <2>1, <2>2, GuardKeepsFilesApart, HostKeepsBudget
<1> QED BY <1>1, <1>2, InitIInv, StepIInv, StepAccepted, PTL DEF Spec
=============================================================================
