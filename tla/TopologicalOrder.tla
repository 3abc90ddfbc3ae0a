--------------------------- MODULE TopologicalOrder ---------------------------
(***************************************************************************)
(* What the parser's canonical order of types promises (finalize.rs and    *)
(* "Determinism rules" in docs/ir-spec.md): types come in groups, a group  *)
(* is the types that refer to each other in a cycle, a group comes after   *)
(* all groups it refers to, and whenever there is a choice the group with  *)
(* the alphabetically smallest member comes first.  The order depends on   *)
(* the references only.                                                    *)
(***************************************************************************)
EXTENDS Naturals, Sequences, FiniteSetsExt

CONSTANTS
  Ids,    (* type ids; numbers, because the order only compares them        *)
  Ghosts  (* ids that some reference names and no type has                  *)

ASSUME IdsAssumption == Ids \subseteq Nat /\ Ids \cap Ghosts = {}

VARIABLES
  refs,   (* the ids each type refers to                                    *)
  order   (* the groups emitted so far                                      *)

ovars == <<refs, order>>

References == [Ids -> SUBSET (Ids \union Ghosts)]

(* r can be reached from t by one or more references: it is in every set    *)
(* that holds t's references and the references of its own members.         *)
Closed(S) == \A u \in S : refs[u] \cap Ids \subseteq S
Reaches(t, r) ==
  \A S \in SUBSET Ids : Closed(S) /\ refs[t] \cap Ids \subseteq S => r \in S

(* Mutant: whatever a type refers to is put in its group. *)
ComponentBelow(t) == {t} \union {r \in Ids : Reaches(t, r)}

(* The types in a cycle with t, and t. *)
Component(t) == {t} \union {r \in Ids : Reaches(t, r) /\ Reaches(r, t)}
Components == {Component(t) : t \in Ids}

(* The types a group refers to; references nobody answers do not count. *)
Needs(c) == ((UNION {refs[t] : t \in c}) \cap Ids) \ c

Emitted == {order[i] : i \in DOMAIN order}

Ready(c) == c \notin Emitted /\ Needs(c) \subseteq UNION Emitted

Init == refs \in References /\ order = <<>>

Emit(c) ==
  /\ Ready(c)
  /\ \A d \in Components : Ready(d) => Min(c) <= Min(d)
  /\ order' = Append(order, c)
  /\ UNCHANGED refs

Next == \E c \in Components : Emit(c)

Spec == Init /\ [][Next]_ovars /\ WF_ovars(Next)

-----------------------------------------------------------------------------
(* A group only refers to itself and to groups before it: "a generator      *)
(* emitting files in iteration order never references a type before it has  *)
(* been declared" (docs/ir-spec.md:18-19), as far as cycles allow it.  Here *)
(* that is how Ready is defined; what it says of the code is proved of      *)
(* Finalize.                                                                *)
DependenciesFirst ==
  \A i \in DOMAIN order : Needs(order[i]) \subseteq UNION {order[j] : j \in 1..(i - 1)}

(* A type is emitted once, with all the types it is in a cycle with.        *)
GroupsDisjoint ==
  \A i, j \in DOMAIN order : i # j => order[i] \cap order[j] = {}

=============================================================================
