------------------------------ MODULE Generate ------------------------------
(***************************************************************************)
(* `forge generate` (crates/forge-cli/src/main.rs, with the stage driver   *)
(* of crates/forge-pipeline/src/driver.rs): a manifest's pipelines run one *)
(* after the other; each loads its input, loads its plugins, runs its      *)
(* transformers and its generator, checks the generator's files with the   *)
(* output guard, writes them into its output directory and runs its        *)
(* post-generate hooks.  Plugins, hooks and the file system are the        *)
(* environment; the process may be killed at any step and run again.       *)
(*                                                                         *)
(* What a stage computes is abstracted to which stages worked on which     *)
(* version of the input.  `disk` is what forge wrote: what a hook makes of *)
(* the files is the hook's.                                                *)
(***************************************************************************)
EXTENDS OutputGuard

CONSTANTS
  Manifests, (* the manifests a user may have                               *)
  Dirs,      (* output directories                                          *)
  Nodes,     (* paths below an output directory: sequences of names         *)
  FileLists, (* what a generator may return                                 *)
  Versions,  (* contents the input file may have                            *)
  MaxRuns,   (* bound: invocations of forge                                 *)
  Failures,  (* may the process be killed, or a file system call fail?      *)
  NoDir

(* A manifest is a sequence of resolved pipelines.  A pipeline is [stages,  *)
(* dir, hooks]: its transformers followed by its generator, its output      *)
(* directory, and its hooks [empty, tolerant].                              *)
ASSUME ManifestsAssumption ==
  \A m \in Manifests :
    /\ IsSeq(m) /\ Len(m) > 0
    /\ \A i \in DOMAIN m :
         IsSeq(m[i].stages) /\ Len(m[i].stages) > 0 /\ m[i].dir \in Dirs

Target(f) == Normal(f.path)

(* Every path that the guard lets through is one of Nodes. *)
ASSUME FilesAssumption ==
  \A files \in FileLists :
    /\ FileList(files)
    /\ GuardAccepts(files) => \A k \in DOMAIN files : Target(files[k]) \in Nodes

NoIr == [version |-> 0, stages |-> <<>>]
Absent == [kind |-> "absent", ir |-> NoIr]
Directory == [kind |-> "dir", ir |-> NoIr]
Torn == [kind |-> "torn", ir |-> NoIr]
File(x) == [kind |-> "file", ir |-> x]

VARIABLES
  manifest,  (* the manifest                                                *)
  input,     (* version of the input file                                   *)
  disk,      (* what each output directory holds                            *)
  runs,      (* invocations so far                                          *)
  pc,        (* next step of the running invocation, or "exited"            *)
  override,  (* --out, or NoDir                                             *)
  cur,       (* current pipeline                                            *)
  stg,       (* current stage                                               *)
  ir,        (* the IR that goes into that stage                            *)
  out,       (* the generator's files                                       *)
  pos,       (* current file, or current hook                               *)
  why,       (* why the invocation ended                                    *)
  base,      (* history: the disk when the invocation started               *)
  made,      (* history: files and IR each pipeline went on to write        *)
  seen       (* history: versions of the input since the invocation started *)

vars == <<manifest, input, disk, runs, pc, override, cur, stg, ir, out, pos,
          why, base, made, seen>>
history == <<base, made, seen>>

Pipelines == manifest
Pipes == DOMAIN Pipelines
LastStage(i) == Len(Pipelines[i].stages)
Running == pc # "exited"
OutDir(i) == IF override = NoDir THEN Pipelines[i].dir ELSE override
NoOutput == [files |-> <<>>, ir |-> NoIr]

ExitCode(w) == CASE w = "ok" -> 0 [] w = "hook" -> 3 [] OTHER -> 2

Init ==
  /\ manifest \in Manifests
  /\ input \in Versions
  /\ disk = [d \in Dirs |-> [n \in Nodes |-> Absent]]
  /\ runs = 0
  /\ pc = "exited"
  /\ override = NoDir
  /\ cur = 1 /\ stg = 1 /\ pos = 1
  /\ ir = NoIr
  /\ out = <<>>
  /\ why = "none"
  /\ base = disk
  /\ made = [i \in Pipes |-> NoOutput]
  /\ seen = {input}

Exit(w) == pc' = "exited" /\ why' = w

-----------------------------------------------------------------------------
(* run_generate resolves the manifest before it touches anything. *)
Begin(o) ==
  /\ ~Running
  /\ runs < MaxRuns
  /\ runs' = runs + 1
  /\ override' = o
  /\ cur' = 1 /\ stg' = 1 /\ pos' = 1
  /\ ir' = NoIr
  /\ out' = <<>>
  /\ base' = disk
  /\ made' = [i \in Pipes |-> NoOutput]
  /\ seen' = {input}
  /\ IF o # NoDir /\ Len(Pipelines) > 1
     THEN Exit("config")
     ELSE pc' = "load_ir" /\ why' = "none"
  /\ UNCHANGED <<manifest, input, disk>>

(* Mutant: what an earlier run made of the input is taken for current. *)
LoadIrKept ==
  /\ pc = "load_ir"
  /\ LET kept == {x \in Range(disk[OutDir(cur)]) : x.kind = "file"}
     IN \E v \in IF kept = {} THEN {input} ELSE {x.ir.version : x \in kept} :
          ir' = [version |-> v, stages |-> <<>>]
  /\ pc' = "load_plugins"
  /\ UNCHANGED <<manifest, input, disk, runs, override, cur, stg, out, pos, why, history>>

(* The input is read again by every pipeline: parsed, where an error        *)
(* diagnostic stops the run, or read as IR JSON.                            *)
LoadIr ==
  /\ pc = "load_ir"
  /\ \/ /\ ir' = [version |-> input, stages |-> <<>>]
        /\ pc' = "load_plugins"
        /\ UNCHANGED why
     \/ Exit("input") /\ UNCHANGED ir
  /\ UNCHANGED <<manifest, input, disk, runs, override, cur, stg, out, pos, history>>

(* Every plugin of the pipeline is loaded, and its config validated, before *)
(* the first one runs.                                                      *)
LoadPlugins ==
  /\ pc = "load_plugins"
  /\ \/ pc' = "stage" /\ UNCHANGED why
     \/ Exit("plugin")
  /\ UNCHANGED <<manifest, input, disk, runs, override, cur, stg, ir, out, pos, history>>

(* A stage ends the run by an error (it rejects its input, traps, exceeds a *)
(* limit) or by diagnostics of severity error.                              *)
StageFails ==
  /\ pc = "stage"
  /\ Exit("stage")
  /\ UNCHANGED <<manifest, input, disk, runs, override, cur, stg, ir, out, pos, history>>

Transform ==
  /\ pc = "stage" /\ stg < LastStage(cur)
  /\ ir' = [ir EXCEPT !.stages = Append(@, Pipelines[cur].stages[stg])]
  /\ stg' = stg + 1
  /\ UNCHANGED <<manifest, input, disk, runs, pc, override, cur, out, pos, why, history>>

(* The host accepts the generator's files, or makes an error of them. *)
RunGenerator ==
  /\ pc = "stage" /\ stg = LastStage(cur)
  /\ \E files \in FileLists :
       /\ HostAccepts(files)
       /\ ir' = [ir EXCEPT !.stages = Append(@, Pipelines[cur].stages[stg])]
       /\ out' = files
       /\ pc' = "validate"
  /\ UNCHANGED <<manifest, input, disk, runs, override, cur, stg, pos, why, history>>

(* Mutant: the write loop stops one file short. *)
NextFileShort(k) == IF k >= Len(out) THEN pc' = "hook" /\ pos' = 1
                                     ELSE pc' = "open" /\ pos' = k

NextFile(k) == IF k > Len(out) THEN pc' = "hook" /\ pos' = 1
                               ELSE pc' = "open" /\ pos' = k

(* Mutant: files are checked one by one, each just before it is written. *)
ValidateLazily ==
  /\ pc = "validate"
  /\ IF GuardAccepts(out)
     THEN /\ made' = [made EXCEPT ![cur] = [files |-> out, ir |-> ir]]
          /\ NextFile(1)
          /\ UNCHANGED <<why, disk>>
     ELSE /\ Exit("guard")
          /\ disk' = [disk EXCEPT ![OutDir(cur)][Target(out[1])] = File(ir)]
          /\ UNCHANGED <<made, pos>>
  /\ UNCHANGED <<manifest, input, runs, override, cur, stg, ir, out, base, seen>>

Validate ==
  /\ pc = "validate"
  /\ IF GuardAccepts(out)
     THEN /\ made' = [made EXCEPT ![cur] = [files |-> out, ir |-> ir]]
          /\ NextFile(1)
          /\ UNCHANGED why
     ELSE Exit("guard") /\ UNCHANGED <<made, pos>>
  /\ UNCHANGED <<manifest, input, disk, runs, override, cur, stg, ir, out, base, seen>>

-----------------------------------------------------------------------------
(* Writing in place: create_dir_all(parent), open with truncation, write.   *)

Ancestors(n) == {SubSeq(n, 1, k) : k \in 1..(Len(n) - 1)}
IsFile(x) == x.kind \in {"torn", "file"}

OpenFile ==
  /\ pc = "open"
  /\ LET n == Target(out[pos])
         tree == disk[OutDir(cur)]
         dirs == [a \in Nodes |-> IF a \in Ancestors(n) THEN Directory ELSE tree[a]]
     IN \/ /\ \E a \in Ancestors(n) : IsFile(tree[a])
           /\ Exit("io")
           /\ UNCHANGED disk
        \/ /\ \A a \in Ancestors(n) : ~IsFile(tree[a])
           /\ IF tree[n] = Directory
              THEN Exit("io") /\ disk' = [disk EXCEPT ![OutDir(cur)] = dirs]
              ELSE /\ disk' = [disk EXCEPT ![OutDir(cur)] = [dirs EXCEPT ![n] = Torn]]
                   /\ pc' = "fill"
                   /\ UNCHANGED why
  /\ UNCHANGED <<manifest, input, runs, override, cur, stg, ir, out, pos, history>>

FillFile ==
  /\ pc = "fill"
  /\ disk' = [disk EXCEPT ![OutDir(cur)][Target(out[pos])] = File(ir)]
  /\ NextFile(pos + 1)
  /\ UNCHANGED <<manifest, input, runs, override, cur, stg, ir, out, why, history>>

(* Mutant: the exit status of one pipeline is taken for that of the run. *)
NextPipelineNone == Exit("ok") /\ UNCHANGED <<cur, stg, ir, out>>

NextPipeline ==
  IF cur = Len(Pipelines)
  THEN Exit("ok") /\ UNCHANGED <<cur, stg, ir, out>>
  ELSE /\ pc' = "load_ir"
       /\ cur' = cur + 1 /\ stg' = 1
       /\ ir' = NoIr /\ out' = <<>>
       /\ UNCHANGED why

(* Hooks run in order; the first that fails and is not tolerated, or has no *)
(* program to run, ends the whole invocation.                               *)
RunHook ==
  /\ pc = "hook"
  /\ LET hooks == Pipelines[cur].hooks IN
     IF pos > Len(hooks)
     THEN NextPipeline /\ pos' = 1
     ELSE \/ /\ hooks[pos].empty \/ ~hooks[pos].tolerant
             /\ Exit("hook")
             /\ UNCHANGED <<pos, cur, stg, ir, out>>
          \/ /\ ~hooks[pos].empty
             /\ pos' = pos + 1
             /\ UNCHANGED <<pc, why, cur, stg, ir, out>>
  /\ UNCHANGED <<manifest, input, disk, runs, override, history>>

-----------------------------------------------------------------------------
(* The environment. *)

EditInput(v) ==
  /\ input' = v
  /\ seen' = IF Running THEN seen \union {v} ELSE seen
  /\ UNCHANGED <<manifest, disk, runs, pc, override, cur, stg, ir, out, pos, why, base, made>>

(* create_dir_all(out_dir), before the first file, can fail too. *)
IoFailure ==
  /\ Failures
  /\ pc \in {"open", "fill"} \/ (pc = "validate" /\ GuardAccepts(out))
  /\ Exit("io")
  /\ UNCHANGED <<manifest, input, disk, runs, override, cur, stg, ir, out, pos, history>>

Kill ==
  /\ Failures
  /\ Running
  /\ Exit("killed")
  /\ UNCHANGED <<manifest, input, disk, runs, override, cur, stg, ir, out, pos, history>>

Next ==
  \/ \E o \in Dirs \union {NoDir} : Begin(o)
  \/ LoadIr
  \/ LoadPlugins
  \/ StageFails
  \/ Transform
  \/ RunGenerator
  \/ Validate
  \/ OpenFile
  \/ FillFile
  \/ RunHook
  \/ \E v \in Versions : EditInput(v)
  \/ IoFailure
  \/ Kill

Spec == Init /\ [][Next]_vars

-----------------------------------------------------------------------------
(* Properties. *)

(* Pipeline i put its files where they belong: each holds what the whole    *)
(* chain of i's stages made of one version of the input, unless a later     *)
(* pipeline of the run, with the same directory, wrote that path again.     *)
Delivered(i) ==
  \A k \in DOMAIN made[i].files :
    LET n == Target(made[i].files[k]) IN
    \E j \in Pipes : /\ j >= i
                     /\ OutDir(j) = OutDir(i)
                     /\ n \in {Target(made[j].files[m]) : m \in DOMAIN made[j].files}
                     /\ disk[OutDir(i)][n] = File(made[j].ir)
                     /\ made[j].ir.stages = Pipelines[j].stages

(* Exit code 0 means every pipeline delivered, whatever an earlier, failed  *)
(* or killed, invocation left behind.                                       *)
ExitZeroDelivers ==
  ~Running /\ ExitCode(why) = 0 =>
    \A i \in Pipes : made[i] # NoOutput /\ Delivered(i)

(* Every pipeline reads the input for itself (main.rs:595), yet two of them *)
(* see different versions only if the input is edited while forge runs: all *)
(* that a run with exit code 0 has put on disk, in whatever directory, is   *)
(* made of versions that the input had since that run started, and so of    *)
(* one version if nobody edited it, whatever earlier runs left there.       *)
VersionsOfThisRun ==
  ~Running /\ ExitCode(why) = 0 =>
    \A i \in Pipes : \A k \in DOMAIN made[i].files :
      disk[OutDir(i)][Target(made[i].files[k])].ir.version \in seen

(* An invocation that a stage, the guard, a plugin or the input stops       *)
(* leaves the output of the current and of all later pipelines as it was.   *)
RejectedWritesNothing ==
  why \in {"config", "input", "plugin", "stage", "guard"} =>
    \A d \in Dirs : disk[d] # base[d] => \E i \in 1..(cur - 1) : d = OutDir(i)

(* Hooks run on the files of their pipeline, complete and on disk.          *)
FilesBeforeHooks ==
  pc = "hook" \/ why = "hook" => made[cur] # NoOutput /\ Delivered(cur)

(* A run is all or nothing for a directory: "Atomically writes to the       *)
(* output directory" (architecture.md:60).                                  *)
AtomicOutput ==
  ~Running => \A d \in Dirs :
    \/ disk[d] = base[d]
    \/ \E i \in Pipes : /\ OutDir(i) = d
                        /\ made[i] # NoOutput
                        /\ Delivered(i)
=============================================================================
