------------------------ MODULE TopologicalOrderProofs ------------------------
(***************************************************************************)
(* The canonical order of types emits no type twice, for every set of ids  *)
(* and every graph; with the invariant that Finalize inherits.             *)
(***************************************************************************)
EXTENDS TopologicalOrder, TLAPS

TypeInv == refs \in References /\ order \in Seq(Components)

IInv == TypeInv /\ DependenciesFirst /\ GroupsDisjoint

-----------------------------------------------------------------------------
(* What the reachability of types promises. *)

LEMMA ReachesTransitive ==
  ASSUME NEW t \in Ids, NEW r \in Ids, NEW s, Reaches(t, r), Reaches(r, s)
  PROVE  Reaches(t, s)
<1> SUFFICES ASSUME NEW S \in SUBSET Ids, Closed(S), refs[t] \cap Ids \subseteq S
             PROVE  s \in S
  BY DEF Reaches
<1>1. r \in S
  BY DEF Reaches
<1>2. refs[r] \cap Ids \subseteq S
  BY <1>1 DEF Closed
<1> QED
  BY <1>2 DEF Reaches

(* Two types of one component have the same component. *)
LEMMA ComponentOfMember ==
  ASSUME NEW t \in Ids, NEW u \in Component(t)
  PROVE  u \in Ids /\ Component(u) = Component(t)
<1>1. u \in Ids
  BY DEF Component
<1>2. CASE u = t
  BY <1>1, <1>2
<1>3. CASE u # t
  <2>1. Reaches(t, u) /\ Reaches(u, t)
    BY <1>3 DEF Component
  <2>2. ASSUME NEW r \in Component(t) PROVE r \in Component(u)
    <3>1. r \in Ids
      BY DEF Component
    <3>2. CASE r = t
      BY <2>1, <3>2 DEF Component
    <3>3. CASE r # t
      <4>1. Reaches(t, r) /\ Reaches(r, t)
        BY <3>3 DEF Component
      <4>2. Reaches(u, r) /\ Reaches(r, u)
        BY <1>1, <2>1, <3>1, <4>1, ReachesTransitive
      <4> QED
        BY <3>1, <4>2 DEF Component
    <3> QED
      BY <3>2, <3>3
  <2>3. ASSUME NEW r \in Component(u) PROVE r \in Component(t)
    <3>1. r \in Ids
      BY <1>1 DEF Component
    <3>2. CASE r = u
      BY <3>2
    <3>3. CASE r # u
      <4>1. Reaches(u, r) /\ Reaches(r, u)
        BY <3>3 DEF Component
      <4>2. Reaches(t, r) /\ Reaches(r, t)
        BY <1>1, <2>1, <3>1, <4>1, ReachesTransitive
      <4> QED
        BY <3>1, <4>2 DEF Component
    <3> QED
      BY <3>2, <3>3
  <2> QED
    BY <1>1, <2>2, <2>3
<1> QED
  BY <1>2, <1>3

LEMMA ComponentsDisjoint ==
  ASSUME NEW c \in Components, NEW d \in Components, c # d
  PROVE  c \cap d = {}
<1> SUFFICES ASSUME NEW u \in c, u \in d PROVE FALSE
  OBVIOUS
<1>1. PICK t \in Ids : c = Component(t)
  BY DEF Components
<1>2. PICK s \in Ids : d = Component(s)
  BY DEF Components
<1> QED
  BY <1>1, <1>2, ComponentOfMember

-----------------------------------------------------------------------------
LEMMA InitInductive == Init => IInv
BY DEF Init, IInv, TypeInv, DependenciesFirst, GroupsDisjoint

LEMMA EmitInductive ==
  ASSUME IInv, NEW c \in Components, Emit(c)
  PROVE  IInv'
<1>1. /\ order' = Append(order, c)
      /\ refs' = refs
      /\ c \notin Emitted
      /\ Needs(c) \subseteq UNION Emitted
  BY DEF Emit, Ready
<1>2. order \in Seq(Components)
  BY DEF IInv, TypeInv
<1>3. Components' = Components
  BY <1>1 DEF Components, Component, Reaches, Closed
<1>4. /\ Len(order) \in Nat
      /\ DOMAIN order = 1..Len(order)
      /\ DOMAIN order' = 1..(Len(order) + 1)
      /\ \A i \in DOMAIN order : order'[i] = order[i] /\ order[i] \in Components
      /\ order'[Len(order) + 1] = c
  BY <1>1, <1>2
<1>5. TypeInv'
  <2>1. order' \in Seq(Components)
    BY <1>1, <1>2
  <2> QED
    BY <1>1, <1>3, <2>1 DEF TypeInv, IInv, References
<1>6. DependenciesFirst'
  <2> SUFFICES ASSUME NEW i \in DOMAIN order'
               PROVE  ((UNION {refs'[t] : t \in order'[i]}) \cap Ids) \ order'[i]
                        \subseteq UNION {order'[j] : j \in 1..(i - 1)}
    BY DEF DependenciesFirst, Needs
  <2>1. ((UNION {refs'[t] : t \in order'[i]}) \cap Ids) \ order'[i] = Needs(order'[i])
    BY <1>1 DEF Needs
  <2>2. \A j \in 1..(i - 1) : order'[j] = order[j]
    BY <1>4
  <2>3. CASE i \in DOMAIN order
    <3>1. Needs(order[i]) \subseteq UNION {order[j] : j \in 1..(i - 1)}
      BY <2>3 DEF IInv, DependenciesFirst
    <3> QED
      BY <1>4, <2>1, <2>2, <2>3, <3>1
  <2>4. CASE i = Len(order) + 1
    <3>1. Emitted = {order[j] : j \in 1..(i - 1)}
      BY <1>4, <2>4 DEF Emitted
    <3> QED
      BY <1>1, <1>4, <2>1, <2>2, <2>4, <3>1
  <2> QED
    BY <1>4, <2>3, <2>4
<1>7. GroupsDisjoint'
  <2>1. \A i \in DOMAIN order : order[i] # c
    BY <1>1 DEF Emitted
  <2>2. \A i \in DOMAIN order : order[i] \cap c = {}
    BY <1>4, <2>1, ComponentsDisjoint
  <2>3. \A i, j \in DOMAIN order : i # j => order[i] \cap order[j] = {}
    BY DEF IInv, GroupsDisjoint
  <2> SUFFICES ASSUME NEW i \in DOMAIN order', NEW j \in DOMAIN order', i # j
               PROVE  order'[i] \cap order'[j] = {}
    BY DEF GroupsDisjoint
  <2>4. CASE i \in DOMAIN order /\ j \in DOMAIN order
    BY <1>4, <2>3, <2>4
  <2>5. CASE i = Len(order) + 1 /\ j \in DOMAIN order
    BY <1>4, <2>2, <2>5
  <2>6. CASE i \in DOMAIN order /\ j = Len(order) + 1
    BY <1>4, <2>2, <2>6
  <2> QED
    BY <1>4, <2>4, <2>5, <2>6
<1> QED
  BY <1>5, <1>6, <1>7 DEF IInv

LEMMA StutterInductive == IInv /\ UNCHANGED ovars => IInv'
BY DEF IInv, TypeInv, DependenciesFirst, GroupsDisjoint, ovars, References, Components,
       Component, Reaches, Closed, Needs

LEMMA StepsInductive == Init /\ [][Next]_ovars => []IInv
<1>1. IInv /\ [Next]_ovars => IInv'
  BY EmitInductive, StutterInductive DEF Next
<1> QED
  BY InitInductive, <1>1, PTL

LEMMA Inductive == Spec => []IInv
BY StepsInductive, PTL DEF Spec

(* Types in a cycle come out together and no type comes out twice.          *)
THEOREM TypesEmittedOnce == Spec => []GroupsDisjoint
<1>1. IInv => GroupsDisjoint
  BY DEF IInv
<1> QED
  BY Inductive, <1>1, PTL
=============================================================================
