------------------------------- MODULE Finalize -------------------------------
(***************************************************************************)
(* `canonicalize`, the last pass of the parser                             *)
(* (crates/forge-parser/src/finalize.rs): report dangling references, find *)
(* the strongly connected components of the reference graph with Tarjan's  *)
(* algorithm, order them with Kahn's, and emit the types.                  *)
(*                                                                         *)
(* The recursion of `strongconnect` is a stack of frames, and one action   *)
(* is one turn of its loop over the references of a type.                  *)
(***************************************************************************)
EXTENDS Naturals, SequencesExt

CONSTANTS Ids, Ghosts

ASSUME IdsAssumption == IsFiniteSet(Ids) /\ Ids \subseteq Nat /\ Ids \cap Ghosts = {}

VARIABLES
  refs,      (* the ids each type refers to                                 *)
  phase,     (* "check", "tarjan", "kahn" or "done"                         *)
  dangling,  (* the references reported as E-DANGLING-REF                   *)
  counter,   (* TarjanState: next index                                     *)
  index,     (* ... indices (0 while a type has none: counter starts at 1)  *)
  low,       (* ... lowlinks                                                *)
  stack,     (* ... stack                                                   *)
  frames,    (* calls of strongconnect: type, and references still to visit *)
  sccs,      (* ... sccs found                                              *)
  indeg,     (* edges into each component that are not emitted              *)
  ready,     (* components that wait for nothing                            *)
  order,     (* scc_order: indices of components                            *)
  sorted,    (* the types in their final order                              *)
  groups     (* recursion groups reported as W-RECURSIVE-TYPE               *)

tarjan == <<counter, index, low, stack, frames, sccs>>
kahn == <<indeg, ready, order>>
result == <<dangling, sorted, groups>>
vars == <<refs, phase, tarjan, kahn, result>>

Count == Cardinality(Ids)

Init ==
  /\ refs \in [Ids -> SUBSET (Ids \union Ghosts)]
  /\ phase = "check"
  /\ dangling = {}
  /\ counter = 1
  /\ index = [t \in Ids |-> 0] /\ low = [t \in Ids |-> 0]
  /\ stack = <<>> /\ frames = <<>> /\ sccs = <<>>
  /\ indeg = <<>> /\ ready = {} /\ order = <<>>
  /\ sorted = <<>> /\ groups = <<>>

-----------------------------------------------------------------------------
Check ==
  /\ phase = "check"
  /\ dangling' = {e \in Ids \X Ghosts : e[2] \in refs[e[1]]}
  /\ phase' = "tarjan"
  /\ UNCHANGED <<refs, tarjan, kahn, sorted, groups>>

-----------------------------------------------------------------------------
(* Tarjan's algorithm. *)

Unvisited == {t \in Ids : index[t] = 0}
Known(t) == refs[t] \cap Ids
Top == frames[Len(frames)]

(* strongconnect(t) is called; `callers` are the frames below it. *)
Enter(t, callers) ==
  /\ index' = [index EXCEPT ![t] = counter]
  /\ low' = [low EXCEPT ![t] = counter]
  /\ counter' = counter + 1
  /\ stack' = Append(stack, t)
  /\ frames' = Append(callers, [id |-> t, deps |-> Known(t)])
  /\ UNCHANGED sccs

Lower(t, n) == low' = [low EXCEPT ![t] = Min({@, n})]

Root ==
  /\ phase = "tarjan" /\ frames = <<>> /\ Unvisited # {}
  /\ Enter(Min(Unvisited), <<>>)
  /\ UNCHANGED <<refs, phase, kahn, result>>

(* Mutant: a reference to a visited type is never ticked off. *)
VisitAgain ==
  /\ phase = "tarjan" /\ frames # <<>> /\ Top.deps # {}
  /\ LET d == Min(Top.deps) IN
     IF d \in Unvisited
     THEN Enter(d, frames)
     ELSE Lower(Top.id, index[d]) /\ UNCHANGED <<frames, counter, index, stack, sccs>>
  /\ UNCHANGED <<refs, phase, kahn, result>>

Visit ==
  /\ phase = "tarjan" /\ frames # <<>> /\ Top.deps # {}
  /\ LET d == Min(Top.deps)
         callers == [frames EXCEPT ![Len(frames)].deps = @ \ {d}]
     IN IF d \in Unvisited
        THEN Enter(d, callers)
        ELSE /\ frames' = callers
             /\ IF d \in Range(stack) THEN Lower(Top.id, index[d]) ELSE UNCHANGED low
             /\ UNCHANGED <<counter, index, stack, sccs>>
  /\ UNCHANGED <<refs, phase, kahn, result>>

(* The component on top of the stack, when t is its root. *)
PopComponent(t) ==
  LET k == CHOOSE i \in DOMAIN stack : stack[i] = t IN
  /\ sccs' = Append(sccs, Range(SubSeq(stack, k, Len(stack))))
  /\ stack' = SubSeq(stack, 1, k - 1)

(* strongconnect returns, and its caller takes over the link. *)
Leave ==
  /\ phase = "tarjan" /\ frames # <<>> /\ Top.deps = {}
  /\ IF index[Top.id] = low[Top.id] THEN PopComponent(Top.id) ELSE UNCHANGED <<sccs, stack>>
  /\ frames' = Front(frames)
  /\ IF Len(frames) > 1 THEN Lower(frames[Len(frames) - 1].id, low[Top.id]) ELSE UNCHANGED low
  /\ UNCHANGED <<refs, phase, counter, index, kahn, result>>

-----------------------------------------------------------------------------
(* Kahn's algorithm. *)

(* How often `from` is pushed to rev[to]: once for every type of `from`     *)
(* that refers to `to`, however many of its references do.                  *)
Edges(from, to) ==
  IF from = to THEN 0
  ELSE Cardinality({t \in sccs[from] : refs[t] \cap sccs[to] # {}})

(* Mutant: rev forgets how many types of a component make the edge. *)
ReleasedOnce(i) == [s \in DOMAIN sccs |-> Min({Edges(s, i), 1})]

(* By how much the in-degrees drop when component i is emitted. *)
Released(i) == [s \in DOMAIN sccs |-> Edges(s, i)]

BuildDag ==
  /\ phase = "tarjan" /\ frames = <<>> /\ Unvisited = {}
  /\ indeg' = [s \in DOMAIN sccs |-> SumFunction([to \in DOMAIN sccs |-> Edges(s, to)])]
  /\ ready' = {s \in DOMAIN sccs : indeg'[s] = 0}
  /\ phase' = "kahn"
  /\ UNCHANGED <<refs, tarjan, order, result>>

(* Mutant: the largest name comes first. *)
EmitComponentLast ==
  /\ phase = "kahn" /\ ready # {}
  /\ LET i == CHOOSE s \in ready : \A u \in ready : Min(sccs[s]) >= Min(sccs[u])
         left == [s \in DOMAIN sccs |-> indeg[s] - Released(i)[s]]
     IN /\ order' = Append(order, i)
        /\ indeg' = left
        /\ ready' = (ready \ {i}) \union {s \in DOMAIN sccs : indeg[s] > 0 /\ left[s] = 0}
  /\ UNCHANGED <<refs, phase, tarjan, result>>

EmitComponent ==
  /\ phase = "kahn" /\ ready # {}
  /\ LET i == CHOOSE s \in ready : \A u \in ready : Min(sccs[s]) <= Min(sccs[u])
         left == [s \in DOMAIN sccs |-> indeg[s] - Released(i)[s]]
     IN /\ order' = Append(order, i)
        /\ indeg' = left
        /\ ready' = (ready \ {i}) \union {s \in DOMAIN sccs : indeg[s] > 0 /\ left[s] = 0}
  /\ UNCHANGED <<refs, phase, tarjan, result>>

Recursive(c) == Cardinality(c) > 1 \/ \E t \in c : t \in refs[t]

(* The types of a component in alphabetical order (members.sort).           *)
Members(c) ==
  CHOOSE s \in [1..Cardinality(c) -> c] : \A i, j \in DOMAIN s : i < j => s[i] < s[j]

Parts == [k \in DOMAIN order |-> Members(sccs[order[k]])]

(* The recursion groups among the parts, in their order.                    *)
RecursionGroups(parts) ==
  LET kept[n \in 0..Len(parts)] ==
        IF n = 0 THEN <<>>
        ELSE IF Recursive(Range(parts[n])) THEN Append(kept[n - 1], parts[n]) ELSE kept[n - 1]
  IN kept[Len(parts)]

EmitTypes ==
  /\ phase = "kahn" /\ ready = {}
  /\ sorted' = FlattenSeq(Parts)
  /\ groups' = RecursionGroups(Parts)
  /\ phase' = "done"
  /\ UNCHANGED <<refs, tarjan, kahn, dangling>>

Next == Check \/ Root \/ Visit \/ Leave \/ BuildDag \/ EmitComponent \/ EmitTypes

(* canonicalize is one sequential call, so it takes every step it can. *)
Spec == Init /\ [][Next]_vars /\ WF_vars(Next)

-----------------------------------------------------------------------------
(* Properties. *)

(* The IR the parser returns has every type once.  A reference to a later   *)
(* type only occurs inside a recursion group, whose types stand next to     *)
(* each other; and the groups are exactly the cycles of the references.     *)
Reference == INSTANCE TopologicalOrder WITH order <- [k \in DOMAIN order |-> sccs[order[k]]]
Position(t) == CHOOSE k \in DOMAIN sorted : sorted[k] = t
Grouped(t, r) == \E k \in DOMAIN groups : {t, r} \subseteq Range(groups[k])
IrOrdered ==
  phase = "done" =>
    /\ Len(sorted) = Count /\ Range(sorted) = Ids
    /\ \A t \in Ids : \A r \in Known(t) :
         \/ Position(r) < Position(t)
         \/ /\ Grouped(t, r)
            /\ \A k \in Position(t)..Position(r) : Grouped(t, sorted[k])
    /\ {Range(groups[k]) : k \in DOMAIN groups} = {c \in Reference!Components : Recursive(c)}

(* The order of the components is the abstract one, whatever the order in   *)
(* which Tarjan found them; and every type comes out.                       *)
ImplementsTopologicalOrder == Reference!Spec

(* canonicalize returns, for every reference graph. *)
Terminates == <>(phase = "done")
=============================================================================
