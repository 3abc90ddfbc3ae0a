---------------------------- MODULE FinalizeProofs ----------------------------
(***************************************************************************)
(* Proofs about Finalize: for every reference graph, the components that   *)
(* canonicalize finds are the strongly connected ones, and it emits them   *)
(* in the order of TopologicalOrder.                                       *)
(***************************************************************************)
EXTENDS Finalize, SequenceLemmas, FiniteSetTheorems, TLAPS

Abstract ==
  INSTANCE TopologicalOrderProofs WITH order <- [k \in DOMAIN order |-> sccs[order[k]]]

(* Types that have been entered, those in a component that is done, those   *)
(* that still wait for theirs, and those of the calls in progress.          *)
Visited == {t \in Ids : index[t] # 0}
Popped == UNION Range(sccs)
OnStack == Range(stack)
Gray == {frames[i].id : i \in DOMAIN frames}

(* u can be reached from t by references, none or more.                     *)
To(t, u) == t = u \/ Reference!Reaches(t, u)

TypeInv ==
  /\ refs \in [Ids -> SUBSET (Ids \union Ghosts)]
  /\ phase \in {"check", "tarjan", "kahn", "done"}
  /\ counter \in Nat \ {0}
  /\ index \in [Ids -> Nat] /\ low \in [Ids -> Nat]
  /\ stack \in Seq(Ids)
  /\ frames \in Seq([id : Ids, deps : SUBSET Ids])
  /\ sccs \in Seq(SUBSET Ids)
  /\ order \in Seq(Nat)

(* Indices tell types apart, and grow along the stack and the calls.        *)
Numbered ==
  /\ \A t \in Ids : index[t] < counter
  /\ \A t, u \in Visited : index[t] = index[u] => t = u
  /\ \A i, j \in DOMAIN stack : i < j => index[stack[i]] < index[stack[j]]
  /\ \A i, j \in DOMAIN frames : i < j => index[frames[i].id] < index[frames[j].id]

(* Of a type that is entered, either the component is known, or it is on    *)
(* the stack; what a finished type refers to has been entered.              *)
Colours ==
  /\ OnStack \cap Popped = {}
  /\ Visited = OnStack \union Popped
  /\ Gray \subseteq OnStack
  /\ \A i \in DOMAIN frames : /\ frames[i].deps \subseteq Known(frames[i].id)
                              /\ Known(frames[i].id) \ frames[i].deps \subseteq Visited
  /\ \A t \in Visited \ Gray : Known(t) \subseteq Visited

(* A call in progress reaches everything above it on the stack, and         *)
(* everything on the stack reaches a call in progress at or below it.       *)
GrayReaches ==
  \A i \in DOMAIN frames : \A u \in OnStack :
    index[u] >= index[frames[i].id] => To(frames[i].id, u)
ReachesGray ==
  \A u \in OnStack : \E i \in DOMAIN frames :
    index[frames[i].id] <= index[u] /\ To(u, frames[i].id)

(* The part of the stack from one call in progress to the next.             *)
Segment(i) == {v \in OnStack : /\ index[v] >= index[frames[i].id]
                               /\ i < Len(frames) => index[v] < index[frames[i + 1].id]}

(* A lowlink is the index of a type on the stack that can be reached, and   *)
(* no index that a reference of the call's segment leads to is smaller.     *)
LowSound ==
  \A i \in DOMAIN frames :
    /\ low[frames[i].id] <= index[frames[i].id]
    /\ \E w \in OnStack : index[w] = low[frames[i].id] /\ To(frames[i].id, w)
LowComplete ==
  \A i \in DOMAIN frames : \A v \in Segment(i) : \A w \in Known(v) \cap OnStack :
    (v = frames[i].id => w \notin frames[i].deps) => low[frames[i].id] <= index[w]

(* What has been found are components, each once, each after those it       *)
(* refers to.                                                               *)
Found ==
  /\ \A i \in DOMAIN sccs : sccs[i] \in Reference!Components
  /\ \A i, j \in DOMAIN sccs : i # j => sccs[i] # sccs[j]
  /\ \A i \in DOMAIN sccs : \A t \in sccs[i] : Known(t) \subseteq UNION {sccs[j] : j \in 1..i}

Phases ==
  /\ phase = "check" => frames = <<>> /\ stack = <<>> /\ sccs = <<>> /\ Visited = {}
  /\ phase \in {"check", "tarjan"} => order = <<>>
  /\ phase \in {"kahn", "done"} => frames = <<>> /\ Visited = Ids

Connected == GrayReaches /\ ReachesGray /\ LowSound /\ LowComplete
TarjanInv == TypeInv /\ Numbered /\ Colours /\ Connected /\ Found /\ Phases

-----------------------------------------------------------------------------
(* Reachability. *)

LEMMA SameGraph ==
  ASSUME refs' = refs
  PROVE  /\ \A t, u \in Ids : To(t, u)' <=> To(t, u)
         /\ \A t \in Ids : Known(t)' = Known(t)
         /\ Reference!Components' = Reference!Components
BY DEF To, Known, Reference!Reaches, Reference!Closed, Reference!Components, Reference!Component

LEMMA EdgeReaches ==
  ASSUME NEW t \in Ids, NEW u \in Known(t)
  PROVE  To(t, u)
BY DEF Known, To, Reference!Reaches, Reference!Closed

LEMMA ToTransitive ==
  ASSUME NEW t \in Ids, NEW u \in Ids, NEW v, To(t, u), To(u, v)
  PROVE  To(t, v)
<1>1. CASE t = u \/ u = v
  BY <1>1
<1>2. CASE t # u /\ u # v
  <2>1. Reference!Reaches(t, u) /\ Reference!Reaches(u, v)
    BY <1>2 DEF To
  <2>2. Reference!Reaches(t, v)
    <3> SUFFICES ASSUME NEW S \in SUBSET Ids, Reference!Closed(S), refs[t] \cap Ids \subseteq S
                 PROVE  v \in S
      BY DEF Reference!Reaches
    <3>1. u \in S
      BY <2>1 DEF Reference!Reaches
    <3>2. refs[u] \cap Ids \subseteq S
      BY <3>1 DEF Reference!Closed
    <3> QED BY <2>1, <3>2 DEF Reference!Reaches
  <2> QED BY <2>2 DEF To
<1> QED BY <1>1, <1>2

(* References do not lead out of a set that has its members' references.    *)
LEMMA StaysInside ==
  ASSUME NEW C \in SUBSET Ids, \A v \in C : Known(v) \subseteq C, NEW t \in C, NEW u, To(t, u)
  PROVE  u \in C
<1>1. CASE t = u
  BY <1>1
<1>2. CASE Reference!Reaches(t, u)
  <2>1. Reference!Closed(C) /\ refs[t] \cap Ids \subseteq C
    BY DEF Known, Reference!Closed
  <2> QED BY <2>1, <1>2 DEF Reference!Reaches
<1> QED BY <1>1, <1>2 DEF To

LEMMA ComponentFacts ==
  ASSUME NEW t \in Ids
  PROVE  /\ Reference!Component(t) = {u \in Ids : To(t, u) /\ To(u, t)}
         /\ Reference!Component(t) \in Reference!Components
BY DEF Reference!Component, Reference!Components, To

LEMMA ComponentsApart ==
  ASSUME NEW c \in Reference!Components, NEW d \in Reference!Components, c # d
  PROVE  c \cap d = {}
<1>1. Abstract!Components = Reference!Components
  BY DEF Abstract!Components, Reference!Components, Abstract!Component, Reference!Component,
         Abstract!Reaches, Reference!Reaches, Abstract!Closed, Reference!Closed
<1> QED BY <1>1, Abstract!ComponentsDisjoint, IdsAssumption

-----------------------------------------------------------------------------
(* What the types of the variables say, spelled out. *)

LEMMA Shape ==
  ASSUME TypeInv
  PROVE  /\ Len(frames) \in Nat /\ DOMAIN frames = 1..Len(frames)
         /\ \A i \in DOMAIN frames : /\ frames[i] = [id |-> frames[i].id, deps |-> frames[i].deps]
                                     /\ frames[i].id \in Ids /\ frames[i].deps \subseteq Ids
         /\ Len(stack) \in Nat /\ DOMAIN stack = 1..Len(stack)
         /\ \A i \in DOMAIN stack : stack[i] \in Ids
         /\ Len(sccs) \in Nat /\ DOMAIN sccs = 1..Len(sccs)
         /\ \A i \in DOMAIN sccs : sccs[i] \subseteq Ids
         /\ OnStack \subseteq Ids /\ Popped \subseteq Ids /\ Gray \subseteq Ids
         /\ \A t \in Ids : index[t] \in Nat /\ low[t] \in Nat /\ Known(t) \subseteq Ids
<1>1. Len(frames) \in Nat /\ DOMAIN frames = 1..Len(frames)
  BY DEF TypeInv
<1>2. ASSUME NEW i \in DOMAIN frames
      PROVE  /\ frames[i] = [id |-> frames[i].id, deps |-> frames[i].deps]
             /\ frames[i].id \in Ids /\ frames[i].deps \subseteq Ids
  <2> DEFINE Frames == [id : Ids, deps : SUBSET Ids]
  <2>1. frames \in Seq(Frames)
    BY DEF TypeInv
  <2> HIDE DEF Frames
  <2>2. frames[i] \in Frames
    BY <2>1
  <2> QED BY <2>2 DEF Frames
<1>3. Len(stack) \in Nat /\ DOMAIN stack = 1..Len(stack) /\ \A i \in DOMAIN stack : stack[i] \in Ids
  BY DEF TypeInv
<1>4. Len(sccs) \in Nat /\ DOMAIN sccs = 1..Len(sccs) /\ \A i \in DOMAIN sccs : sccs[i] \subseteq Ids
  BY DEF TypeInv
<1>5. OnStack \subseteq Ids /\ Popped \subseteq Ids /\ Gray \subseteq Ids
  BY <1>2, <1>3, <1>4 DEF OnStack, Popped, Gray, Range
<1>6. \A t \in Ids : index[t] \in Nat /\ low[t] \in Nat /\ Known(t) \subseteq Ids
  BY DEF TypeInv, Known
<1> QED BY <1>1, <1>2, <1>3, <1>4, <1>5, <1>6

LEMMA InitTarjan == Init => TarjanInv
<1> SUFFICES ASSUME Init PROVE TarjanInv
  OBVIOUS
<1>1. TypeInv
  BY DEF Init, TypeInv
<1>2. DOMAIN stack = {} /\ DOMAIN frames = {} /\ DOMAIN sccs = {}
  BY DEF Init
<1>3. OnStack = {} /\ Popped = {} /\ Gray = {} /\ Visited = {}
  BY <1>2 DEF OnStack, Popped, Gray, Visited, Range, Init
<1> QED
  BY <1>1, <1>2, <1>3 DEF Init, TarjanInv, Numbered, Colours, Connected, GrayReaches, ReachesGray,
     LowSound, LowComplete, Found, Phases

-----------------------------------------------------------------------------
(* The invariant of the next state, with the reachability of this one.      *)

LEMMA NextConnected ==
  ASSUME refs' = refs,
         \A i \in DOMAIN frames' : \A u \in OnStack' :
           index'[u] >= index'[frames'[i].id] => To(frames'[i].id, u),
         \A u \in OnStack' : \E i \in DOMAIN frames' :
           index'[frames'[i].id] <= index'[u] /\ To(u, frames'[i].id),
         \A i \in DOMAIN frames' :
           /\ low'[frames'[i].id] <= index'[frames'[i].id]
           /\ \E w \in OnStack' : index'[w] = low'[frames'[i].id] /\ To(frames'[i].id, w),
         \A i \in DOMAIN frames' : \A v \in OnStack' : \A w \in Known(v) \cap OnStack' :
           /\ index'[v] >= index'[frames'[i].id]
           /\ i < Len(frames') => index'[v] < index'[frames'[i + 1].id]
           /\ v = frames'[i].id => w \notin frames'[i].deps
           => low'[frames'[i].id] <= index'[w]
  PROVE  Connected'
<1>1. GrayReaches'
  BY DEF GrayReaches, To, Reference!Reaches, Reference!Closed
<1>2. ReachesGray'
  BY DEF ReachesGray, To, Reference!Reaches, Reference!Closed
<1>3. LowSound'
  BY DEF LowSound, To, Reference!Reaches, Reference!Closed
<1>4. LowComplete'
  BY DEF LowComplete, Segment, Known
<1> QED BY <1>1, <1>2, <1>3, <1>4 DEF Connected

LEMMA NextFound ==
  ASSUME refs' = refs, sccs' = sccs, Found
  PROVE  Found' /\ Popped' = Popped
BY SameGraph DEF Found, Known, Popped

-----------------------------------------------------------------------------
(* strongconnect(d) is called by frames that have ticked d off.             *)

Ticked(callers, d) ==
  /\ callers \in Seq([id : Ids, deps : SUBSET Ids])
  /\ Len(callers) = Len(frames)
  /\ \A i \in DOMAIN frames : /\ callers[i].id = frames[i].id
                              /\ callers[i].deps \subseteq frames[i].deps
                              /\ frames[i].deps \subseteq callers[i].deps \union {d}

LEMMA TickTop ==
  ASSUME TypeInv, frames # <<>>, NEW d
  PROVE  Ticked([frames EXCEPT ![Len(frames)].deps = @ \ {d}], d)
<1> DEFINE Frames == [id : Ids, deps : SUBSET Ids]
           callers == [frames EXCEPT ![Len(frames)].deps = @ \ {d}]
<1>1. frames \in Seq(Frames)
  BY DEF TypeInv
<1>2. \A i \in DOMAIN frames : callers[i] =
        IF i = Len(frames) THEN [id |-> frames[i].id, deps |-> frames[i].deps \ {d}] ELSE frames[i]
  <2>1. ASSUME NEW i \in DOMAIN frames, i # Len(frames) PROVE callers[i] = frames[i]
    BY <1>1, <2>1
  <2> DEFINE n == Len(frames)
  <2>2. n \in DOMAIN frames
    BY Shape, <1>1
  <2>3. callers[n] = [frames[n] EXCEPT !.deps = @ \ {d}]
    BY <1>1, <2>2
  <2>4. callers[n] = [id |-> frames[n].id, deps |-> frames[n].deps \ {d}]
    <3>1. frames[n] = [id |-> frames[n].id, deps |-> frames[n].deps]
      BY Shape, <2>2
    <3> HIDE DEF n, callers
    <3> QED BY <2>3, <3>1
  <2> QED BY <2>1, <2>4
<1>3. \A i \in DOMAIN frames : callers[i] \in Frames
  BY Shape, <1>2
<1>4. DOMAIN callers = 1..Len(frames) /\ Len(frames) \in Nat
  BY Shape
<1>5. callers = [i \in 1..Len(frames) |-> callers[i]]
  BY <1>1, <1>4
<1> HIDE DEF Frames
<1>6. callers \in Seq(Frames) /\ Len(callers) = Len(frames)
  <2> HIDE DEF callers
  <2>1. callers \in [1..Len(frames) -> Frames]
    BY <1>3, <1>4, <1>5, Shape
  <2> QED BY <2>1, <1>4
<1> QED BY <1>2, <1>4, <1>6 DEF Ticked, Frames

LEMMA EnterEffect ==
  ASSUME TarjanInv, NEW d \in Unvisited, NEW callers, Ticked(callers, d), Enter(d, callers)
  PROVE  /\ d \in Ids /\ d \notin Visited /\ d \notin OnStack
         /\ index' \in [Ids -> Nat] /\ low' \in [Ids -> Nat]
         /\ index'[d] = counter /\ low'[d] = counter
         /\ \A t \in Ids : t # d => index'[t] = index[t] /\ low'[t] = low[t]
         /\ counter \in Nat \ {0} /\ counter' = counter + 1
         /\ DOMAIN frames' = 1..(Len(frames) + 1) /\ Len(frames') = Len(frames) + 1
         /\ frames' \in Seq([id : Ids, deps : SUBSET Ids])
         /\ \A i \in DOMAIN frames : /\ i \in DOMAIN frames' /\ frames'[i].id = frames[i].id
                                     /\ frames'[i].deps \subseteq frames[i].deps
                                     /\ frames[i].deps \subseteq frames'[i].deps \union {d}
         /\ frames'[Len(frames) + 1].id = d /\ frames'[Len(frames) + 1].deps = Known(d)
         /\ DOMAIN stack' = 1..(Len(stack) + 1) /\ stack' \in Seq(Ids)
         /\ \A i \in DOMAIN stack : stack'[i] = stack[i]
         /\ stack'[Len(stack) + 1] = d
         /\ OnStack' = OnStack \union {d} /\ Visited' = Visited \union {d}
         /\ Gray' = Gray \union {d} /\ sccs' = sccs
<1> USE Shape DEF TarjanInv
<1>1. d \in Ids /\ d \notin Visited /\ d \notin OnStack
  BY DEF Unvisited, Visited, Colours
<1>2. /\ index' \in [Ids -> Nat] /\ low' \in [Ids -> Nat]
      /\ index'[d] = counter /\ low'[d] = counter
      /\ \A t \in Ids : t # d => index'[t] = index[t] /\ low'[t] = low[t]
      /\ counter \in Nat \ {0} /\ counter' = counter + 1
  BY <1>1 DEF Enter, TypeInv
<1>3. Visited' = Visited \union {d}
  BY <1>1, <1>2 DEF Visited
<1> DEFINE Frames == [id : Ids, deps : SUBSET Ids]
           frame == [id |-> d, deps |-> Known(d)]
<1>4. frame \in Frames /\ frame.id = d /\ frame.deps = Known(d)
  BY <1>1
<1>5. callers \in Seq(Frames) /\ Len(callers) = Len(frames)
  BY DEF Ticked
<1>6. frames' = Append(callers, frame)
  BY DEF Enter
<1>7. /\ DOMAIN frames' = 1..(Len(frames) + 1) /\ Len(frames') = Len(frames) + 1
      /\ frames' \in Seq(Frames)
      /\ \A i \in DOMAIN frames : i \in DOMAIN frames' /\ frames'[i] = callers[i]
      /\ frames'[Len(frames) + 1] = frame
  <2> HIDE DEF Frames, frame
  <2>1. Len(frames) \in Nat /\ DOMAIN frames = 1..Len(frames)
    BY Shape
  <2> QED BY <1>4, <1>5, <1>6, <2>1
<1>8. \A i \in DOMAIN frames : /\ i \in DOMAIN frames' /\ frames'[i].id = frames[i].id
                               /\ frames'[i].deps \subseteq frames[i].deps
                               /\ frames[i].deps \subseteq frames'[i].deps \union {d}
  BY <1>7 DEF Ticked
<1>9. /\ DOMAIN stack' = 1..(Len(stack) + 1) /\ stack' \in Seq(Ids)
      /\ \A i \in DOMAIN stack : stack'[i] = stack[i]
      /\ stack'[Len(stack) + 1] = d
  BY <1>1, SMTT(30) DEF Enter, TypeInv
<1>10. OnStack' = OnStack \union {d}
  BY <1>9, SMTT(30) DEF OnStack, Range
<1>11. Gray' = Gray \union {d}
  <2>1. frames'[Len(frames) + 1].id = d
    BY <1>4, <1>7
  <2>2. \A i \in DOMAIN frames' : i \in DOMAIN frames \/ i = Len(frames) + 1
    BY <1>7, Shape
  <2>3. Len(frames) + 1 \in DOMAIN frames'
    BY <1>7, Shape
  <2>4. ASSUME NEW u \in Gray' PROVE u \in Gray \union {d}
    BY <1>8, <2>1, <2>2 DEF Gray
  <2>5. ASSUME NEW u \in Gray \union {d} PROVE u \in Gray'
    BY <1>8, <2>1, <2>3 DEF Gray
  <2> QED BY <2>4, <2>5
<1> QED
  BY <1>1, <1>2, <1>3, <1>4, <1>7, <1>8, <1>9, <1>10, <1>11 DEF Enter

LEMMA EnterKeeps ==
  ASSUME TarjanInv, NEW d \in Unvisited, NEW callers, Ticked(callers, d), Enter(d, callers),
         \A i \in DOMAIN frames : To(frames[i].id, d),
         phase = "tarjan", UNCHANGED <<refs, phase, order>>
  PROVE  TarjanInv'
<1> USE DEF TarjanInv
<1> DEFINE n == Len(frames)
<1>a. /\ n \in Nat /\ DOMAIN frames = 1..n /\ Len(stack) \in Nat /\ DOMAIN stack = 1..Len(stack)
      /\ OnStack \subseteq Ids /\ Popped \subseteq Ids /\ Gray \subseteq Ids
      /\ \A t \in Ids : index[t] \in Nat /\ low[t] \in Nat /\ Known(t) \subseteq Ids
      /\ \A i \in DOMAIN frames : frames[i].id \in Ids /\ frames[i].deps \subseteq Ids
  BY Shape
<1>b. /\ d \in Ids /\ d \notin Visited /\ d \notin OnStack
      /\ index' \in [Ids -> Nat] /\ low' \in [Ids -> Nat]
      /\ index'[d] = counter /\ low'[d] = counter
      /\ \A t \in Ids : t # d => index'[t] = index[t] /\ low'[t] = low[t]
      /\ counter \in Nat \ {0} /\ counter' = counter + 1
  BY EnterEffect
<1>c. /\ DOMAIN frames' = 1..(n + 1) /\ Len(frames') = n + 1
      /\ \A i \in DOMAIN frames : /\ i \in DOMAIN frames' /\ frames'[i].id = frames[i].id
                                  /\ frames'[i].deps \subseteq frames[i].deps
                                  /\ frames[i].deps \subseteq frames'[i].deps \union {d}
      /\ frames'[n + 1].id = d /\ frames'[n + 1].deps = Known(d)
  BY EnterEffect
<1>d. /\ DOMAIN stack' = 1..(Len(stack) + 1)
      /\ \A i \in DOMAIN stack : stack'[i] = stack[i]
      /\ stack'[Len(stack) + 1] = d
  BY EnterEffect
<1>e. /\ OnStack' = OnStack \union {d} /\ Visited' = Visited \union {d}
      /\ Gray' = Gray \union {d} /\ sccs' = sccs
  BY EnterEffect
<1>1. TypeInv'
  <2>1. frames' \in Seq([id : Ids, deps : SUBSET Ids]) /\ stack' \in Seq(Ids)
    BY EnterEffect
  <2> QED BY <1>b, <1>e, <2>1 DEF TypeInv
<1>2. OnStack \subseteq Visited
  BY DEF Colours
<1>3. \A i \in DOMAIN frames' : i \in DOMAIN frames \/ i = n + 1
  BY <1>a, <1>c
<1> HIDE DEF n
<1>4. \A i \in DOMAIN frames : /\ frames[i].id \in OnStack /\ frames[i].id \in Ids /\ frames[i].id # d
                               /\ index'[frames[i].id] = index[frames[i].id]
                               /\ low'[frames[i].id] = low[frames[i].id]
  BY <1>2, <1>a, <1>b, <1>c DEF Colours, Gray
<1>5. \A u \in OnStack : u \in Ids /\ u # d /\ index'[u] = index[u]
  BY <1>2, <1>a, <1>b
<1>6. \A t \in Ids : index[t] < counter /\ index[t] \in Nat /\ low[t] \in Nat
  BY <1>a DEF Numbered
<1>7. Numbered'
  <2>1. \A t \in Ids : index'[t] < counter'
    BY <1>6, <1>b
  <2>2. \A t, u \in Visited' : index'[t] = index'[u] => t = u
    BY <1>6, <1>b, <1>e DEF Numbered, Visited
  <2>3. ASSUME NEW i \in DOMAIN stack', NEW j \in DOMAIN stack', i < j
        PROVE  index'[stack'[i]] < index'[stack'[j]]
    <3>1. i \in DOMAIN stack /\ stack'[i] = stack[i] /\ stack[i] \in OnStack
      BY <2>3, <1>a, <1>d DEF OnStack, Range
    <3>2. CASE j \in DOMAIN stack
      <4>1. stack'[j] = stack[j] /\ stack[j] \in OnStack
        BY <3>2, <1>d DEF OnStack, Range
      <4>2. index[stack[i]] < index[stack[j]]
        BY <2>3, <3>1, <3>2 DEF Numbered
      <4> QED BY <1>5, <3>1, <4>1, <4>2
    <3>3. CASE j = Len(stack) + 1
      BY <1>5, <1>6, <1>b, <1>d, <3>1, <3>3
    <3> QED BY <3>2, <3>3, <1>a, <1>d
  <2>4. ASSUME NEW i \in DOMAIN frames', NEW j \in DOMAIN frames', i < j
        PROVE  index'[frames'[i].id] < index'[frames'[j].id]
    <3>1. i \in DOMAIN frames /\ frames'[i].id = frames[i].id
      BY <2>4, <1>a, <1>c
    <3>2. CASE j \in DOMAIN frames
      BY <1>4, <1>c, <2>4, <3>1, <3>2 DEF Numbered
    <3>3. CASE j = n + 1
      BY <1>4, <1>6, <1>b, <1>c, <3>1, <3>3
    <3> QED BY <1>3, <3>2, <3>3
  <2> QED BY <2>1, <2>2, <2>3, <2>4 DEF Numbered
<1>9. Found' /\ Popped' = Popped
  BY <1>e, NextFound
<1>10. Colours'
  <2>1. OnStack' \cap Popped' = {} /\ Visited' = OnStack' \union Popped' /\ Gray' \subseteq OnStack'
    BY <1>2, <1>9, <1>b, <1>e DEF Colours
  <2>2. ASSUME NEW i \in DOMAIN frames'
        PROVE  /\ frames'[i].deps \subseteq Known(frames'[i].id)
               /\ Known(frames'[i].id) \ frames'[i].deps \subseteq Visited'
    <3>1. CASE i \in DOMAIN frames
      <4>1. /\ frames[i].deps \subseteq Known(frames[i].id)
            /\ Known(frames[i].id) \ frames[i].deps \subseteq Visited
        BY <3>1 DEF Colours
      <4> QED BY <1>4, <1>c, <1>e, <3>1, <4>1
    <3>2. CASE i = n + 1
      BY <1>b, <1>c, <3>2
    <3> QED BY <1>3, <3>1, <3>2
  <2>3. \A t \in Visited' \ Gray' : Known(t) \subseteq Visited'
    <3>1. \A t \in Visited' \ Gray' : t \in Visited \ Gray /\ t \in Ids
      BY <1>e DEF Visited
    <3> QED BY <1>e, <3>1 DEF Colours
  <2> QED BY <2>1, <2>2, <2>3 DEF Colours, Known
<1>11. Connected'
  <2>1. ASSUME NEW i \in DOMAIN frames', NEW u \in OnStack', index'[u] >= index'[frames'[i].id]
        PROVE  To(frames'[i].id, u)
    <3>1. CASE i \in DOMAIN frames /\ u \in OnStack
      BY <1>4, <1>5, <1>c, <2>1, <3>1 DEF Connected, GrayReaches
    <3>2. CASE i \in DOMAIN frames /\ u = d
      BY <3>2, <1>c
    <3>3. CASE i = n + 1 /\ u \in OnStack
      BY <1>5, <1>6, <1>b, <1>c, <2>1, <3>3
    <3>4. CASE i = n + 1 /\ u = d
      BY <1>c, <3>4 DEF To
    <3> QED BY <1>3, <1>e, <3>1, <3>2, <3>3, <3>4
  <2>2. ASSUME NEW u \in OnStack'
        PROVE  \E i \in DOMAIN frames' : index'[frames'[i].id] <= index'[u] /\ To(u, frames'[i].id)
    <3>1. CASE u \in OnStack
      <4>1. PICK i \in DOMAIN frames : index[frames[i].id] <= index[u] /\ To(u, frames[i].id)
        BY <3>1 DEF Connected, ReachesGray
      <4> QED BY <1>4, <1>5, <1>c, <3>1, <4>1
    <3>2. CASE u = d
      <4>1. n + 1 \in DOMAIN frames' /\ frames'[n + 1].id = u
        BY <1>a, <1>c, <3>2
      <4> QED BY <1>b, <3>2, <4>1 DEF To
    <3> QED BY <1>e, <3>1, <3>2
  <2>3. ASSUME NEW i \in DOMAIN frames'
        PROVE  /\ low'[frames'[i].id] <= index'[frames'[i].id]
               /\ \E w \in OnStack' : index'[w] = low'[frames'[i].id] /\ To(frames'[i].id, w)
    <3>1. CASE i \in DOMAIN frames
      <4>1. low[frames[i].id] <= index[frames[i].id]
        BY <3>1 DEF Connected, LowSound
      <4>2. PICK w \in OnStack : index[w] = low[frames[i].id] /\ To(frames[i].id, w)
        BY <3>1 DEF Connected, LowSound
      <4> QED BY <1>4, <1>5, <1>c, <1>e, <3>1, <4>1, <4>2
    <3>2. CASE i = n + 1
      BY <1>b, <1>c, <1>e, <3>2 DEF To
    <3> QED BY <1>3, <3>1, <3>2
  <2>4. ASSUME NEW i \in DOMAIN frames', NEW v \in OnStack', NEW w \in Known(v) \cap OnStack',
               index'[v] >= index'[frames'[i].id],
               i < Len(frames') => index'[v] < index'[frames'[i + 1].id],
               v = frames'[i].id => w \notin frames'[i].deps
        PROVE  low'[frames'[i].id] <= index'[w]
    <3>1. CASE i \in DOMAIN frames
      <4>1. v \in Segment(i)
        <5>1. v \in OnStack
          <6>1. i < Len(frames') /\ i + 1 \in DOMAIN frames'
            BY <3>1, <1>a, <1>c
          <6>2. index'[v] < counter
            <7>1. CASE i + 1 \in DOMAIN frames
              <8>1. frames'[i + 1].id = frames[i + 1].id /\ frames[i + 1].id \in Ids
                BY <1>4, <1>c, <7>1
              <8>2. index'[frames'[i + 1].id] < counter
                BY <1>4, <1>6, <7>1, <8>1
              <8>3. index'[v] < index'[frames'[i + 1].id]
                BY <2>4, <6>1
              <8>4. v \in Ids
                BY <1>a, <1>b, <1>e
              <8> QED BY <1>b, <8>1, <8>2, <8>3, <8>4
            <7>2. CASE i + 1 = n + 1
              BY <1>b, <1>c, <2>4, <6>1, <7>2
            <7> QED BY <1>3, <6>1, <7>1, <7>2
          <6> QED BY <1>b, <1>e, <6>2
        <5>2. index[v] >= index[frames[i].id]
          BY <1>4, <1>5, <1>c, <2>4, <3>1, <5>1
        <5>3. i < Len(frames) => index[v] < index[frames[i + 1].id]
          <6> SUFFICES ASSUME i < Len(frames) PROVE index[v] < index[frames[i + 1].id]
            OBVIOUS
          <6>1. i + 1 \in DOMAIN frames /\ i < Len(frames')
            BY <3>1, <1>a, <1>c DEF n
          <6> QED BY <1>4, <1>5, <1>c, <2>4, <5>1, <6>1
        <5> QED BY <5>1, <5>2, <5>3 DEF Segment
      <4>2. CASE w \in OnStack
        <5>1. v = frames[i].id => w \notin frames[i].deps
          BY <1>5, <1>c, <2>4, <3>1, <4>2
        <5>2. low[frames[i].id] <= index[w]
          BY <3>1, <4>1, <4>2, <5>1 DEF Connected, LowComplete
        <5> QED BY <1>4, <1>5, <1>c, <3>1, <4>2, <5>2
      <4>3. CASE w = d
        <5>1. low[frames[i].id] <= index[frames[i].id]
          BY <3>1 DEF Connected, LowSound
        <5> QED BY <1>4, <1>6, <1>b, <1>c, <3>1, <4>3, <5>1
      <4> QED BY <1>e, <4>2, <4>3
    <3>2. CASE i = n + 1
      <4>1. v = d
        BY <1>5, <1>6, <1>b, <1>c, <1>e, <2>4, <3>2
      <4> QED BY <1>c, <2>4, <3>2, <4>1
    <3> QED BY <1>3, <3>1, <3>2
  <2> QED BY <2>1, <2>2, <2>3, <2>4, NextConnected
<1>12. Phases'
  BY DEF Phases
<1> QED BY <1>1, <1>7, <1>9, <1>10, <1>11, <1>12

-----------------------------------------------------------------------------
(* A reference to a type that has been entered is ticked off.               *)

LEMMA TopFacts ==
  ASSUME TarjanInv, frames # <<>>
  PROVE  /\ Len(frames) \in DOMAIN frames /\ Top.id \in Ids /\ Top.id \in Gray /\ Top.id \in OnStack
         /\ Top.deps \subseteq Known(Top.id) /\ Top.deps \subseteq Nat
         /\ \A i \in DOMAIN frames : frames[i].id = Top.id => i = Len(frames)
         /\ \A i \in DOMAIN frames : index[frames[i].id] <= index[Top.id] /\ To(frames[i].id, Top.id)
<1>0. /\ DOMAIN frames = 1..Len(frames) /\ Len(frames) \in Nat
      /\ \A i \in DOMAIN frames : frames[i].id \in Ids /\ frames[i].deps \subseteq Ids /\ index[frames[i].id] \in Nat
  BY Shape DEF TarjanInv
<1>1. Len(frames) \in DOMAIN frames
  BY <1>0 DEF TarjanInv, TypeInv
<1>2. /\ Top.id \in Ids /\ Top.id \in Gray /\ Top.id \in OnStack
      /\ Top.deps \subseteq Known(Top.id) /\ Top.deps \subseteq Nat
  BY <1>0, <1>1, IdsAssumption DEF TarjanInv, Colours, Gray, Top
<1>3. \A i \in DOMAIN frames : i < Len(frames) => index[frames[i].id] < index[Top.id]
  BY <1>1 DEF TarjanInv, Numbered, Top
<1>4. \A i \in DOMAIN frames : i < Len(frames) \/ i = Len(frames)
  BY <1>0
<1>5. \A i \in DOMAIN frames : frames[i].id = Top.id => i = Len(frames)
  BY <1>0, <1>3, <1>4
<1>6. \A i \in DOMAIN frames : index[frames[i].id] <= index[Top.id]
  BY <1>0, <1>1, <1>3, <1>4 DEF Top
<1>7. \A i \in DOMAIN frames : To(frames[i].id, Top.id)
  BY <1>0, <1>2, <1>6 DEF TarjanInv, Connected, GrayReaches
<1> QED BY <1>1, <1>2, <1>5, <1>6, <1>7

LEMMA TopReaches ==
  ASSUME TarjanInv, frames # <<>>, NEW d \in Top.deps
  PROVE  d \in Ids /\ \A i \in DOMAIN frames : To(frames[i].id, d)
<1>1. d \in Known(Top.id) /\ Top.id \in Ids
  BY TopFacts
<1>2. d \in Ids /\ To(Top.id, d)
  BY <1>1, EdgeReaches DEF Known
<1>3. \A i \in DOMAIN frames : frames[i].id \in Ids /\ To(frames[i].id, Top.id)
  BY TopFacts, Shape DEF TarjanInv
<1> QED BY <1>1, <1>2, <1>3, ToTransitive

(* What Visit does to the link of the top call.                             *)
LowersTo(d) ==
  IF d \in OnStack THEN Lower(Top.id, index[d]) ELSE UNCHANGED low

LEMMA RevisitKeeps ==
  ASSUME TarjanInv, frames # <<>>, NEW d \in Top.deps, d \in Visited,
         frames' = [frames EXCEPT ![Len(frames)].deps = @ \ {d}], LowersTo(d),
         phase = "tarjan", UNCHANGED <<refs, phase, order, counter, index, stack, sccs>>
  PROVE  TarjanInv'
<1> USE DEF TarjanInv
<1> DEFINE n == Len(frames)
           t == Top.id
<1>a. /\ n \in Nat /\ DOMAIN frames = 1..n
      /\ OnStack \subseteq Ids
      /\ \A u \in Ids : index[u] \in Nat /\ low[u] \in Nat
      /\ \A i \in DOMAIN frames : frames[i].id \in Ids /\ frames[i].deps \subseteq Ids
  BY Shape
<1>b. /\ n \in DOMAIN frames /\ t \in Ids /\ t \in OnStack /\ t = frames[n].id
      /\ \A i \in DOMAIN frames : frames[i].id = t => i = n
  BY TopFacts DEF Top
<1>c. d \in Ids /\ d \in Known(t) /\ To(t, d)
  BY TopReaches, TopFacts, <1>b
<1>d. /\ DOMAIN frames' = DOMAIN frames /\ Len(frames') = n
      /\ frames' \in Seq([id : Ids, deps : SUBSET Ids])
      /\ \A i \in DOMAIN frames : /\ frames'[i].id = frames[i].id
                                  /\ frames'[i].deps \subseteq frames[i].deps
                                  /\ frames[i].deps \subseteq frames'[i].deps \union {d}
                                  /\ i # n => frames'[i].deps = frames[i].deps
  <2>1. Ticked(frames', d)
    BY TickTop
  <2>2. DOMAIN frames' = DOMAIN frames
    BY <2>1, <1>a DEF Ticked
  <2>3. \A i \in DOMAIN frames : i # n => frames'[i] = frames[i]
    <3> DEFINE Frames == [id : Ids, deps : SUBSET Ids]
    <3>1. frames \in Seq(Frames)
      BY DEF TypeInv
    <3> HIDE DEF Frames
    <3> QED BY <3>1
  <2> QED BY <2>1, <2>2, <2>3 DEF Ticked
<1>e. /\ low' \in [Ids -> Nat]
      /\ \A u \in Ids : u # t => low'[u] = low[u]
      /\ low'[t] <= low[t]
      /\ d \in OnStack => low'[t] <= index[d]
      /\ low'[t] = low[t] \/ (d \in OnStack /\ low'[t] = index[d])
  <2>0. low \in [Ids -> Nat]
    BY DEF TypeInv
  <2>1. CASE d \in OnStack
    <3> DEFINE m == Min({low[t], index[d]})
    <3>1. m \in {low[t], index[d]} /\ m <= low[t] /\ m <= index[d]
      BY <1>a, <1>b, <1>c, MinOfTwo
    <3>2. low' = [low EXCEPT ![t] = m]
      BY <2>1 DEF LowersTo, Lower
    <3>3. m \in Nat
      BY <1>a, <1>b, <1>c, <3>1
    <3> HIDE DEF m
    <3>4. low' \in [Ids -> Nat] /\ low'[t] = m /\ \A u \in Ids : u # t => low'[u] = low[u]
      BY <1>b, <2>0, <3>2, <3>3
    <3> HIDE DEF t
    <3> QED BY <2>1, <3>1, <3>4
  <2>2. CASE d \notin OnStack
    <3>1. low' = low
      BY <2>2 DEF LowersTo
    <3> HIDE DEF t
    <3> QED BY <1>a, <1>b, <2>0, <2>2, <3>1
  <2> QED BY <2>1, <2>2
<1> HIDE DEF n, t
<1>f. OnStack' = OnStack /\ Visited' = Visited
  BY DEF OnStack, Visited
<1>g. Gray' = Gray
  BY <1>d DEF Gray
<1>1. TypeInv'
  BY <1>d, <1>e DEF TypeInv
<1>2. Numbered'
  BY <1>d, <1>f DEF Numbered
<1>3. Found' /\ Popped' = Popped
  BY NextFound
<1>4. Colours'
  <2>1. OnStack' \cap Popped' = {} /\ Visited' = OnStack' \union Popped' /\ Gray' \subseteq OnStack'
    BY <1>3, <1>f, <1>g DEF Colours
  <2>2. ASSUME NEW i \in DOMAIN frames'
        PROVE  /\ frames'[i].deps \subseteq Known(frames'[i].id)
               /\ Known(frames'[i].id) \ frames'[i].deps \subseteq Visited'
    BY <1>d, <1>f DEF Colours
  <2>3. \A u \in Visited' \ Gray' : Known(u) \subseteq Visited'
    BY <1>f, <1>g DEF Colours
  <2> QED BY <2>1, <2>2, <2>3 DEF Colours, Known
<1>5. Connected'
  <2>1. ASSUME NEW i \in DOMAIN frames', NEW u \in OnStack', index'[u] >= index'[frames'[i].id]
        PROVE  To(frames'[i].id, u)
    BY <1>d, <1>f, <2>1 DEF Connected, GrayReaches
  <2>2. ASSUME NEW u \in OnStack'
        PROVE  \E i \in DOMAIN frames' : index'[frames'[i].id] <= index'[u] /\ To(u, frames'[i].id)
    BY <1>d, <1>f DEF Connected, ReachesGray
  <2>3. ASSUME NEW i \in DOMAIN frames'
        PROVE  /\ low'[frames'[i].id] <= index'[frames'[i].id]
               /\ \E w \in OnStack' : index'[w] = low'[frames'[i].id] /\ To(frames'[i].id, w)
    <3>1. frames'[i].id = frames[i].id /\ frames[i].id \in Ids /\ i \in DOMAIN frames
      BY <1>a, <1>d
    <3>2. low[frames[i].id] <= index[frames[i].id]
      BY <3>1 DEF Connected, LowSound
    <3>3. PICK w \in OnStack : index[w] = low[frames[i].id] /\ To(frames[i].id, w)
      BY <3>1 DEF Connected, LowSound
    <3>4. CASE low'[frames[i].id] = low[frames[i].id]
      BY <1>f, <3>1, <3>2, <3>3, <3>4
    <3>5. CASE low'[frames[i].id] # low[frames[i].id]
      <4>1. frames[i].id = t /\ d \in OnStack /\ low'[t] = index[d]
        BY <1>e, <3>1, <3>5
      <4>2. low'[t] <= index[t]
        BY <1>a, <1>b, <1>c, <1>e, <3>2, <4>1
      <4> QED BY <1>c, <1>f, <3>1, <4>1, <4>2
    <3> QED BY <3>4, <3>5
  <2>4. ASSUME NEW i \in DOMAIN frames', NEW v \in OnStack', NEW w \in Known(v) \cap OnStack',
               index'[v] >= index'[frames'[i].id],
               i < Len(frames') => index'[v] < index'[frames'[i + 1].id],
               v = frames'[i].id => w \notin frames'[i].deps
        PROVE  low'[frames'[i].id] <= index'[w]
    <3>1. frames'[i].id = frames[i].id /\ frames[i].id \in Ids /\ i \in DOMAIN frames
      BY <1>a, <1>d
    <3>2. v \in Segment(i)
      <4>1. i < Len(frames) => i + 1 \in DOMAIN frames
        BY <1>a, <3>1 DEF n
      <4> QED BY <1>d, <1>f, <2>4, <3>1, <4>1 DEF Segment, n
    <3>3. low'[frames[i].id] <= low[frames[i].id]
      BY <1>a, <1>e, <3>1
    <3>4. CASE v = frames[i].id => w \notin frames[i].deps
      <4>1. low[frames[i].id] <= index[w]
        BY <1>f, <3>1, <3>2, <3>4 DEF Connected, LowComplete
      <4>2. w \in Ids /\ low'[frames[i].id] \in Nat
        BY <1>a, <1>e, <1>f, <3>1
      <4> QED BY <1>a, <3>1, <3>3, <4>1, <4>2
    <3>5. CASE v = frames[i].id /\ w \in frames[i].deps
      <4>1. w = d /\ i = n
        BY <1>d, <2>4, <3>1, <3>5
      <4> QED BY <1>b, <1>e, <1>f, <3>1, <4>1
    <3> QED BY <3>4, <3>5
  <2> QED BY <2>1, <2>2, <2>3, <2>4, NextConnected
<1>6. Phases'
  BY DEF Phases
<1> QED BY <1>1, <1>2, <1>3, <1>4, <1>5, <1>6

LEMMA VisitTarjan == TarjanInv /\ Visit => TarjanInv'
<1> SUFFICES ASSUME TarjanInv, Visit PROVE TarjanInv'
  OBVIOUS
<1> DEFINE d == Min(Top.deps)
           callers == [frames EXCEPT ![Len(frames)].deps = @ \ {d}]
<1>1. phase = "tarjan" /\ frames # <<>> /\ Top.deps # {} /\ UNCHANGED <<refs, phase, order>>
  BY DEF Visit, kahn
<1>2. d \in Top.deps
  BY <1>1, TopFacts, MinFacts
<1>3. \/ d \in Unvisited /\ Enter(d, callers)
      \/ /\ d \notin Unvisited /\ frames' = callers /\ LowersTo(d)
         /\ UNCHANGED <<counter, index, stack, sccs>>
  BY DEF Visit, LowersTo, OnStack
<1> HIDE DEF d
<1>4. CASE d \in Unvisited /\ Enter(d, callers)
  <2>1. Ticked(callers, d)
    BY <1>1, TickTop DEF TarjanInv
  <2>2. \A i \in DOMAIN frames : To(frames[i].id, d)
    BY <1>1, <1>2, TopReaches
  <2> HIDE DEF callers
  <2> QED BY <1>1, <1>4, <2>1, <2>2, EnterKeeps
<1>5. CASE /\ d \notin Unvisited /\ frames' = callers /\ LowersTo(d)
           /\ UNCHANGED <<counter, index, stack, sccs>>
  <2>1. d \in Visited
    BY <1>1, <1>2, <1>5, TopReaches DEF Unvisited, Visited
  <2> QED BY <1>1, <1>2, <1>5, <2>1, RevisitKeeps
<1> QED BY <1>3, <1>4, <1>5

LEMMA RootTarjan == TarjanInv /\ Root => TarjanInv'
<1> SUFFICES ASSUME TarjanInv, Root PROVE TarjanInv'
  OBVIOUS
<1> DEFINE d == Min(Unvisited)
<1>1. phase = "tarjan" /\ frames = <<>> /\ Unvisited # {} /\ UNCHANGED <<refs, phase, order>> /\ Enter(d, <<>>)
  BY DEF Root, kahn
<1>2. d \in Unvisited
  BY <1>1, MinFacts, IdsAssumption DEF Unvisited
<1>3. Ticked(<<>>, d)
  BY <1>1 DEF Ticked
<1> HIDE DEF d
<1>4. DOMAIN frames = {}
  BY <1>1
<1> QED BY <1>1, <1>2, <1>3, <1>4, EnterKeeps

-----------------------------------------------------------------------------
(* strongconnect returns.                                                   *)

(* The types from that of the top call upward.                              *)
Above == {v \in OnStack : index[v] >= index[Top.id]}

LEMMA LeaveEffect ==
  ASSUME TarjanInv, Leave, NEW n, n = Len(frames)
  PROVE  /\ n \in Nat \ {0} /\ DOMAIN frames = 1..n /\ DOMAIN frames' = 1..(n - 1) /\ Len(frames') = n - 1
         /\ frames' \in Seq([id : Ids, deps : SUBSET Ids])
         /\ \A i \in 1..(n - 1) : /\ frames'[i] = frames[i] /\ frames[i].id \in Ids
                                  /\ index[frames[i].id] < index[Top.id]
         /\ frames[n] = Top /\ Top.id \in Ids /\ Top.id \in OnStack /\ Known(Top.id) \subseteq Visited
         /\ Gray' = Gray \ {Top.id}
         /\ Len(frames) > 1 <=> n - 1 \in DOMAIN frames
         /\ low' \in [Ids -> Nat]
         /\ \A i \in 1..(n - 1) :
              IF i = n - 1 THEN /\ low'[frames[i].id] <= low[frames[i].id]
                                /\ low'[frames[i].id] <= low[Top.id]
                                /\ low'[frames[i].id] \in {low[frames[i].id], low[Top.id]}
                           ELSE low'[frames[i].id] = low[frames[i].id]
<1> DEFINE Frames == [id : Ids, deps : SUBSET Ids]
<1>1. frames \in Seq(Frames) /\ frames # <<>> /\ Top.deps = {} /\ frames' = Front(frames)
  BY DEF Leave, TarjanInv, TypeInv
<1>2. n \in Nat \ {0} /\ DOMAIN frames = 1..n
  BY <1>1
<1>3. /\ DOMAIN frames' = 1..(n - 1) /\ Len(frames') = n - 1 /\ frames' \in Seq(Frames)
      /\ \A i \in 1..(n - 1) : frames'[i] = frames[i]
  <2> HIDE DEF Frames
  <2> QED BY <1>1, <1>2 DEF Front
<1>4. /\ frames[n] = Top /\ Top.id \in Ids /\ Top.id \in OnStack /\ Top.id \in Gray
      /\ \A i \in DOMAIN frames : frames[i].id = Top.id => i = n
  BY <1>1, TopFacts DEF Top
<1>5. Known(Top.id) \subseteq Visited
  BY <1>1, <1>2, <1>4 DEF TarjanInv, Colours
<1>6. \A i \in 1..(n - 1) : /\ i \in DOMAIN frames /\ frames[i].id \in Ids
                            /\ index[frames[i].id] < index[Top.id]
  <2> SUFFICES ASSUME NEW i \in 1..(n - 1)
               PROVE  /\ i \in DOMAIN frames /\ frames[i].id \in Ids
                      /\ index[frames[i].id] < index[Top.id]
    OBVIOUS
  <2>1. i \in DOMAIN frames /\ n \in DOMAIN frames /\ i < n
    BY <1>2
  <2> QED BY <1>4, <2>1, Shape DEF TarjanInv, Numbered
<1>7. Gray' = Gray \ {Top.id}
  <2>1. \A i \in DOMAIN frames : i \in 1..(n - 1) \/ i = n
    BY <1>2
  <2>2. \A i \in 1..(n - 1) : i \in DOMAIN frames /\ i # n
    BY <1>2
  <2>3. ASSUME NEW u \in Gray' PROVE u \in Gray \ {Top.id}
    <3>1. PICK i \in 1..(n - 1) : u = frames'[i].id
      BY <1>3, <2>3 DEF Gray
    <3>2. u = frames[i].id /\ i \in DOMAIN frames /\ i # n
      BY <1>3, <2>2, <3>1
    <3> QED BY <1>4, <3>2 DEF Gray
  <2>4. ASSUME NEW u \in Gray \ {Top.id} PROVE u \in Gray'
    BY <1>3, <1>4, <2>1 DEF Gray
  <2> QED BY <2>3, <2>4
<1>8. Len(frames) > 1 <=> n - 1 \in DOMAIN frames
  BY <1>2
<1>9. low \in [Ids -> Nat]
  BY DEF TarjanInv, TypeInv
<1>10. /\ low' \in [Ids -> Nat]
       /\ \A i \in 1..(n - 1) :
            IF i = n - 1 THEN /\ low'[frames[i].id] <= low[frames[i].id]
                              /\ low'[frames[i].id] <= low[Top.id]
                              /\ low'[frames[i].id] \in {low[frames[i].id], low[Top.id]}
                         ELSE low'[frames[i].id] = low[frames[i].id]
  <2>1. CASE n > 1
    <3> DEFINE p == frames[n - 1].id
               m == Min({low[p], low[Top.id]})
    <3>1. n - 1 \in 1..(n - 1) /\ p \in Ids
      BY <1>2, <1>6, <2>1
    <3>2. low[p] \in Nat /\ low[Top.id] \in Nat
      BY <1>4, <1>9, <3>1
    <3>3. m \in {low[p], low[Top.id]} /\ m <= low[p] /\ m <= low[Top.id]
      BY <3>2, MinOfTwo
    <3>4. low' = [low EXCEPT ![p] = m]
      BY <2>1 DEF Leave, Lower
    <3>5. \A i \in 1..(n - 1) : i # n - 1 => frames[i].id # p
      <4> SUFFICES ASSUME NEW i \in 1..(n - 1), i # n - 1 PROVE frames[i].id # p
        OBVIOUS
      <4>1. i \in DOMAIN frames /\ n - 1 \in DOMAIN frames /\ i < n - 1
        BY <1>2, <3>1
      <4>2. index[frames[i].id] < index[p]
        BY <4>1 DEF TarjanInv, Numbered
      <4>3. index[p] \in Nat
        BY <3>1, Shape DEF TarjanInv
      <4> QED BY <4>2, <4>3
    <3> HIDE DEF m
    <3>6. low' \in [Ids -> Nat] /\ low'[p] = m /\ \A u \in Ids : u # p => low'[u] = low[u]
      <4> HIDE DEF p
      <4> QED BY <1>9, <3>1, <3>2, <3>3, <3>4
    <3> QED BY <1>6, <3>3, <3>5, <3>6
  <2>2. CASE ~ (n > 1)
    <3>1. 1..(n - 1) = {} /\ low' = low
      BY <1>2, <2>2 DEF Leave
    <3> QED BY <1>9, <3>1
  <2> QED BY <2>1, <2>2
<1> QED BY <1>2, <1>3, <1>4, <1>5, <1>6, <1>7, <1>8, <1>10

(* A call that has not found a smaller index than its own has found a       *)
(* component.                                                               *)
LEMMA AboveIsComponent ==
  ASSUME TarjanInv, frames # <<>>, Top.deps = {}, index[Top.id] = low[Top.id]
  PROVE  /\ Above = Reference!Component(Top.id)
         /\ \A v \in Above : Known(v) \subseteq Above \union Popped
<1> DEFINE t == Top.id
           n == Len(frames)
<1>a. /\ OnStack \subseteq Ids /\ Popped \subseteq Ids
      /\ \A u \in Ids : index[u] \in Nat
      /\ \A i \in DOMAIN frames : frames[i].id \in Ids
      /\ n \in Nat /\ DOMAIN frames = 1..n
  BY Shape DEF TarjanInv
<1>b. /\ n \in DOMAIN frames /\ t = frames[n].id /\ t \in Ids /\ t \in OnStack /\ frames[n].deps = {}
      /\ \A i \in DOMAIN frames : index[frames[i].id] <= index[t] /\ To(frames[i].id, t)
      /\ \A i \in DOMAIN frames : frames[i].id = t => i = n
  BY TopFacts DEF Top
<1> HIDE DEF t, n
<1>c. Above = {v \in OnStack : index[v] >= index[t]}
  BY DEF Above, t
<1>1. \A v \in Above : v \in Segment(n)
  BY <1>a, <1>b, <1>c DEF Segment, n
<1>2. ASSUME NEW v \in Above PROVE Known(v) \subseteq Visited
  <2>1. CASE v \in Gray
    <3>1. PICK i \in DOMAIN frames : v = frames[i].id
      BY <2>1 DEF Gray
    <3>2. index[v] = index[t]
      BY <1>a, <1>b, <1>c, <3>1
    <3>3. v = t
      BY <1>b, <1>c, <3>2 DEF TarjanInv, Numbered, Colours
    <3> QED BY <1>b, <3>3 DEF TarjanInv, Colours
  <2>2. CASE v \notin Gray
    BY <1>c, <2>2 DEF TarjanInv, Colours
  <2> QED BY <2>1, <2>2
<1>3. ASSUME NEW v \in Above PROVE Known(v) \subseteq Above \union Popped
  <2> SUFFICES ASSUME NEW w \in Known(v), w \notin Popped PROVE w \in Above
    OBVIOUS
  <2>1. w \in OnStack
    BY <1>2 DEF TarjanInv, Colours
  <2>2. low[t] <= index[w]
    BY <1>1, <1>b, <2>1 DEF TarjanInv, Connected, LowComplete
  <2> QED BY <1>a, <1>b, <1>c, <2>1, <2>2 DEF t
<1>4. \A v \in Popped : Known(v) \subseteq Popped
  <2> SUFFICES ASSUME NEW v \in Popped PROVE Known(v) \subseteq Popped
    OBVIOUS
  <2>1. PICK i \in DOMAIN sccs : v \in sccs[i]
    BY DEF Popped, Range
  <2>2. Known(v) \subseteq UNION {sccs[j] : j \in 1..i}
    BY <2>1 DEF TarjanInv, Found
  <2>3. \A j \in 1..i : j \in DOMAIN sccs
    BY <2>1, Shape DEF TarjanInv
  <2> QED BY <2>2, <2>3 DEF Popped, Range
<1>5. ASSUME NEW v \in Above PROVE v \in Ids /\ To(t, v) /\ To(v, t)
  <2>1. v \in Ids /\ v \in OnStack /\ index[v] >= index[t]
    BY <1>a, <1>c
  <2>2. To(t, v)
    BY <1>b, <2>1 DEF TarjanInv, Connected, GrayReaches
  <2>3. PICK i \in DOMAIN frames : To(v, frames[i].id)
    BY <2>1 DEF TarjanInv, Connected, ReachesGray
  <2>4. To(v, t)
    BY <1>a, <1>b, <2>1, <2>3, ToTransitive
  <2> QED BY <2>1, <2>2, <2>4
<1>6. ASSUME NEW u \in Ids, To(t, u), To(u, t) PROVE u \in Above
  <2>1. t \in Above
    BY <1>a, <1>b, <1>c
  <2>2. u \in Above \union Popped
    <3> DEFINE C == Above \union Popped
    <3>1. C \in SUBSET Ids /\ t \in C
      BY <1>a, <1>c, <2>1
    <3>2. \A v \in C : Known(v) \subseteq C
      BY <1>3, <1>4
    <3> HIDE DEF C
    <3>3. u \in C
      BY <1>6, <3>1, <3>2, StaysInside
    <3> QED BY <3>3 DEF C
  <2>3. u \notin Popped
    <3> SUFFICES ASSUME u \in Popped PROVE FALSE
      OBVIOUS
    <3>1. t \in Popped
      BY <1>4, <1>6, <1>a, StaysInside
    <3> QED BY <1>b, <3>1 DEF TarjanInv, Colours
  <2> QED BY <2>2, <2>3
<1>7. Reference!Component(t) = {u \in Ids : To(t, u) /\ To(u, t)}
  BY <1>b, ComponentFacts
<1>8. Above = Reference!Component(t)
  BY <1>5, <1>6, <1>7
<1> QED BY <1>3, <1>8 DEF t

(* PopComponent takes the types from that of the top call upward.           *)
LEMMA PopEffect ==
  ASSUME TarjanInv, frames # <<>>, PopComponent(Top.id)
  PROVE  /\ sccs' = Append(sccs, Above)
         /\ stack' \in Seq(Ids) /\ OnStack' = OnStack \ Above
         /\ \A i \in DOMAIN stack' : i \in DOMAIN stack /\ stack'[i] = stack[i]
<1> DEFINE t == Top.id
           k == CHOOSE i \in DOMAIN stack : stack[i] = t
           l == Len(stack)
<1>a. /\ l \in Nat /\ DOMAIN stack = 1..l /\ \A i \in DOMAIN stack : stack[i] \in Ids
      /\ \A u \in Ids : index[u] \in Nat
  BY Shape DEF TarjanInv
<1>b. stack \in Seq(Ids) /\ t \in OnStack /\ t \in Ids
  BY TopFacts DEF TarjanInv, TypeInv
<1>c. k \in 1..l /\ stack[k] = t
  BY <1>a, <1>b DEF OnStack, Range
<1>d. sccs' = Append(sccs, Range(SubSeq(stack, k, l))) /\ stack' = SubSeq(stack, 1, k - 1)
  BY DEF PopComponent
<1>e. Above = {v \in OnStack : index[v] >= index[t]}
  BY DEF Above
<1> HIDE DEF k, t, l
<1>1. \A i \in 1..l : index[stack[i]] >= index[t] <=> i >= k
  <2> SUFFICES ASSUME NEW i \in 1..l PROVE index[stack[i]] >= index[t] <=> i >= k
    OBVIOUS
  <2>1. i < k => index[stack[i]] < index[stack[k]]
    BY <1>a, <1>c DEF TarjanInv, Numbered
  <2>2. k < i => index[stack[k]] < index[stack[i]]
    BY <1>a, <1>c DEF TarjanInv, Numbered
  <2>3. index[stack[i]] \in Nat /\ index[stack[k]] \in Nat /\ i \in Nat /\ k \in Nat
    BY <1>a, <1>c
  <2>4. i < k \/ k < i \/ i = k
    BY <2>3
  <2> QED BY <1>c, <2>1, <2>2, <2>3, <2>4
<1>2. Range(SubSeq(stack, k, l)) = Above
  <2> DEFINE s == SubSeq(stack, k, l)
  <2>1. DOMAIN s = 1..(l - k + 1) /\ \A i \in 1..(l - k + 1) : s[i] = stack[k + i - 1]
    BY <1>a, <1>b, <1>c DEF l
  <2> HIDE DEF s
  <2>2. ASSUME NEW u \in Range(s) PROVE u \in Above
    <3>1. PICK i \in 1..(l - k + 1) : u = stack[k + i - 1]
      BY <2>1 DEF Range
    <3>2. k + i - 1 \in 1..l /\ k + i - 1 >= k
      BY <1>a, <1>c
    <3> QED BY <1>1, <1>a, <1>e, <3>1, <3>2 DEF OnStack, Range
  <2>3. ASSUME NEW u \in Above PROVE u \in Range(s)
    <3>1. PICK i \in 1..l : u = stack[i]
      BY <1>a, <1>e DEF OnStack, Range
    <3>2. i >= k
      BY <1>1, <1>e, <3>1
    <3>3. i - k + 1 \in 1..(l - k + 1) /\ k + (i - k + 1) - 1 = i
      BY <1>a, <1>c, <3>2
    <3>4. s[i - k + 1] = u
      BY <2>1, <3>1, <3>3
    <3> QED BY <2>1, <3>3, <3>4 DEF Range
  <2> QED BY <2>2, <2>3 DEF s
<1>3. /\ stack' \in Seq(Ids) /\ DOMAIN stack' = 1..(k - 1)
      /\ \A i \in 1..(k - 1) : stack'[i] = stack[i]
  BY <1>a, <1>b, <1>c, <1>d DEF l
<1>4. \A i \in DOMAIN stack' : i \in DOMAIN stack /\ stack'[i] = stack[i]
  BY <1>3, <1>a, <1>c
<1>5. OnStack' = OnStack \ Above
  <2>1. ASSUME NEW u \in OnStack' PROVE u \in OnStack \ Above
    <3>1. PICK i \in 1..(k - 1) : u = stack[i]
      BY <1>3, <2>1 DEF OnStack, Range
    <3>2. i \in 1..l /\ ~ (i >= k)
      BY <1>a, <1>c
    <3> QED BY <1>1, <1>a, <1>e, <3>1, <3>2 DEF OnStack, Range
  <2>2. ASSUME NEW u \in OnStack \ Above PROVE u \in OnStack'
    <3>1. PICK i \in 1..l : u = stack[i]
      BY <1>a DEF OnStack, Range
    <3>2. ~ (i >= k)
      BY <1>1, <1>e, <2>2, <3>1
    <3>3. i \in 1..(k - 1)
      BY <1>a, <1>c, <3>2
    <3>4. i \in DOMAIN stack' /\ stack'[i] = u
      BY <1>3, <3>1, <3>3
    <3> QED BY <3>4 DEF OnStack, Range
  <2> QED BY <2>1, <2>2
<1> QED BY <1>2, <1>3, <1>4, <1>5, <1>d

(* What leaving does whether or not it pops.                                *)
LEMMA LeaveKeepsNumbers ==
  ASSUME TarjanInv, Leave,
         \A i \in DOMAIN stack' : i \in DOMAIN stack /\ stack'[i] = stack[i]
  PROVE  Numbered' /\ Visited' = Visited
<1> DEFINE n == Len(frames)
<1>0. UNCHANGED <<counter, index>>
  BY DEF Leave
<1>1. /\ DOMAIN frames' = 1..(n - 1)
      /\ \A i \in 1..(n - 1) : frames'[i] = frames[i] /\ i \in DOMAIN frames
  <2>1. /\ n \in Nat \ {0} /\ DOMAIN frames = 1..n /\ DOMAIN frames' = 1..(n - 1)
        /\ \A i \in 1..(n - 1) : frames'[i] = frames[i]
    BY LeaveEffect
  <2> HIDE DEF n
  <2> QED BY <2>1
<1>2. Visited' = Visited
  BY <1>0 DEF Visited
<1> HIDE DEF n
<1> QED BY <1>0, <1>1, <1>2 DEF TarjanInv, Numbered

LEMMA ReturnKeeps ==
  ASSUME TarjanInv, Leave, index[Top.id] # low[Top.id]
  PROVE  TarjanInv'
<1> USE DEF TarjanInv
<1> DEFINE n == Len(frames)
           t == Top.id
<1>a. /\ n \in Nat \ {0} /\ DOMAIN frames = 1..n /\ DOMAIN frames' = 1..(n - 1) /\ Len(frames') = n - 1
      /\ frames' \in Seq([id : Ids, deps : SUBSET Ids])
      /\ \A i \in 1..(n - 1) : /\ frames'[i] = frames[i] /\ frames[i].id \in Ids
                               /\ index[frames[i].id] < index[t]
      /\ frames[n] = Top /\ t \in Ids /\ t \in OnStack /\ Known(t) \subseteq Visited
      /\ Gray' = Gray \ {t} /\ low' \in [Ids -> Nat]
  BY LeaveEffect
<1>b. \A i \in 1..(n - 1) :
        IF i = n - 1 THEN /\ low'[frames[i].id] <= low[frames[i].id] /\ low'[frames[i].id] <= low[t]
                          /\ low'[frames[i].id] \in {low[frames[i].id], low[t]}
                     ELSE low'[frames[i].id] = low[frames[i].id]
  BY LeaveEffect
<1>c. /\ OnStack \subseteq Ids /\ \A u \in Ids : index[u] \in Nat /\ low[u] \in Nat
  BY Shape
<1>d. \A i \in DOMAIN frames : To(frames[i].id, t) /\ index[frames[i].id] <= index[t]
  BY <1>a, TopFacts
<1> HIDE DEF n, t
<1>e. frames[n].id = t /\ n \in DOMAIN frames /\ Len(frames) = n /\ frames[n].deps = {}
  BY <1>a DEF n, t, Leave
<1>f. /\ phase = "tarjan" /\ UNCHANGED <<refs, phase, counter, index, order, stack, sccs>>
      /\ OnStack' = OnStack
  BY DEF Leave, kahn, OnStack
<1>g. Visited' = Visited /\ Numbered'
  BY <1>f, LeaveKeepsNumbers
<1>h. \A i \in 1..(n - 1) : i \in DOMAIN frames
  BY <1>a
<1>1. TypeInv'
  BY <1>a, <1>f DEF TypeInv
<1>2. Found' /\ Popped' = Popped
  BY <1>f, NextFound
<1>3. Colours'
  <2>1. OnStack' \cap Popped' = {} /\ Visited' = OnStack' \union Popped' /\ Gray' \subseteq OnStack'
    BY <1>2, <1>a, <1>f, <1>g DEF Colours
  <2>2. ASSUME NEW i \in DOMAIN frames'
        PROVE  /\ frames'[i].deps \subseteq Known(frames'[i].id)
               /\ Known(frames'[i].id) \ frames'[i].deps \subseteq Visited'
    BY <1>a, <1>g, <1>h DEF Colours
  <2>3. \A u \in Visited' \ Gray' : Known(u) \subseteq Visited'
    BY <1>a, <1>g DEF Colours
  <2> QED BY <1>f, <2>1, <2>2, <2>3 DEF Colours, Known
<1>4. PICK w \in OnStack : index[w] = low[t] /\ To(t, w)
  BY <1>e DEF Connected, LowSound
<1>5. index[w] < index[t] /\ w \in Ids
  <2>1. low[t] <= index[t]
    BY <1>e DEF Connected, LowSound
  <2> QED BY <1>4, <1>a, <1>c, <2>1 DEF t
<1>6. PICK j \in 1..(n - 1) : index[frames[j].id] <= index[w] /\ To(w, frames[j].id)
  <2>1. PICK j \in DOMAIN frames : index[frames[j].id] <= index[w] /\ To(w, frames[j].id)
    BY DEF Connected, ReachesGray
  <2>2. j # n
    BY <1>5, <1>a, <1>c, <1>e, <2>1
  <2>3. j \in 1..(n - 1)
    BY <1>a, <2>2
  <2> QED BY <2>1, <2>3
<1>7. Connected'
  <2>1. ASSUME NEW i \in DOMAIN frames', NEW u \in OnStack', index'[u] >= index'[frames'[i].id]
        PROVE  To(frames'[i].id, u)
    BY <1>a, <1>f, <1>h, <2>1 DEF Connected, GrayReaches
  <2>2. ASSUME NEW u \in OnStack'
        PROVE  \E i \in DOMAIN frames' : index'[frames'[i].id] <= index'[u] /\ To(u, frames'[i].id)
    <3>1. PICK i \in DOMAIN frames : index[frames[i].id] <= index[u] /\ To(u, frames[i].id)
      BY <1>f DEF Connected, ReachesGray
    <3>2. CASE i \in 1..(n - 1)
      BY <1>a, <1>f, <3>1, <3>2
    <3>3. CASE i = n
      <4>1. u \in Ids /\ frames[j].id \in Ids
        BY <1>a, <1>c, <1>f
      <4>2. To(u, frames[j].id)
        BY <1>4, <1>5, <1>6, <1>a, <1>e, <3>1, <3>3, <4>1, ToTransitive
      <4>3. index[frames[j].id] <= index[u]
        <5>1. index[t] <= index[u]
          BY <1>e, <3>1, <3>3
        <5>2. /\ index[t] \in Nat /\ index[u] \in Nat /\ index[w] \in Nat
              /\ index[frames[j].id] \in Nat
          BY <1>5, <1>a, <1>c, <4>1
        <5> QED BY <1>5, <1>6, <5>1, <5>2
      <4> QED BY <1>a, <1>f, <4>2, <4>3
    <3> QED BY <1>a, <3>2, <3>3
  <2>3. ASSUME NEW i \in DOMAIN frames'
        PROVE  /\ low'[frames'[i].id] <= index'[frames'[i].id]
               /\ \E x \in OnStack' : index'[x] = low'[frames'[i].id] /\ To(frames'[i].id, x)
    <3>1. /\ frames'[i].id = frames[i].id /\ frames[i].id \in Ids
          /\ i \in 1..(n - 1) /\ i \in DOMAIN frames
      BY <1>a, <1>h
    <3>2. low[frames[i].id] <= index[frames[i].id]
      BY <3>1 DEF Connected, LowSound
    <3>3. low'[frames[i].id] <= low[frames[i].id]
      BY <1>b, <1>c, <3>1
    <3>4. low'[frames[i].id] <= index[frames[i].id]
      BY <1>a, <1>c, <3>1, <3>2, <3>3, SMTT(30)
    <3>5. CASE low'[frames[i].id] = low[frames[i].id]
      <4>1. PICK x \in OnStack : index[x] = low[frames[i].id] /\ To(frames[i].id, x)
        BY <3>1 DEF Connected, LowSound
      <4> QED BY <1>f, <3>1, <3>4, <3>5, <4>1
    <3>6. CASE low'[frames[i].id] # low[frames[i].id]
      <4>1. low'[frames[i].id] = low[t]
        BY <1>b, <3>1, <3>6
      <4>2. To(frames[i].id, w)
        BY <1>4, <1>5, <1>a, <1>d, <3>1, ToTransitive
      <4> QED BY <1>4, <1>f, <3>1, <3>4, <4>1, <4>2
    <3> QED BY <3>5, <3>6
  <2>4. ASSUME NEW i \in DOMAIN frames', NEW v \in OnStack', NEW x \in Known(v) \cap OnStack',
               index'[v] >= index'[frames'[i].id],
               i < Len(frames') => index'[v] < index'[frames'[i + 1].id],
               v = frames'[i].id => x \notin frames'[i].deps
        PROVE  low'[frames'[i].id] <= index'[x]
    <3>1. /\ frames'[i] = frames[i] /\ frames[i].id \in Ids
          /\ i \in 1..(n - 1) /\ i \in DOMAIN frames /\ i + 1 \in 1..n /\ i + 1 \in DOMAIN frames
          /\ x \in Ids /\ v \in Ids
      BY <1>a, <1>c, <1>f, <1>h, SMTT(30)
    <3>2. CASE v \in Segment(i)
      <4>1. low[frames[i].id] <= index[x]
        BY <1>f, <2>4, <3>1, <3>2 DEF Connected, LowComplete
      <4>2. low'[frames[i].id] <= low[frames[i].id]
        BY <1>b, <1>c, <3>1
      <4> QED BY <1>a, <1>c, <1>f, <3>1, <4>1, <4>2, SMTT(30)
    <3>3. CASE v \notin Segment(i)
      <4>1. index[v] >= index[frames[i + 1].id]
        BY <1>c, <1>f, <2>4, <3>1, <3>3, Shape DEF Segment
      <4>2. i = n - 1
        <5> SUFFICES ASSUME i # n - 1 PROVE FALSE
          OBVIOUS
        <5>1. i < Len(frames') /\ i + 1 \in 1..(n - 1)
          BY <1>a, <3>1, SMTT(30)
        <5>2. index[v] < index[frames[i + 1].id] /\ frames[i + 1].id \in Ids
          BY <1>a, <1>f, <2>4, <5>1
        <5> QED BY <1>c, <3>1, <4>1, <5>2
      <4>3. v \in Segment(n)
        BY <1>a, <1>e, <1>f, <4>1, <4>2 DEF Segment
      <4>4. low[t] <= index[x]
        BY <1>e, <1>f, <4>3 DEF Connected, LowComplete
      <4>5. low'[frames[i].id] <= low[t]
        BY <1>b, <3>1, <4>2
      <4> QED BY <1>a, <1>c, <1>f, <3>1, <4>4, <4>5, SMTT(30)
    <3> QED BY <3>2, <3>3
  <2> QED BY <1>f, <2>1, <2>2, <2>3, <2>4, NextConnected
<1>8. Phases'
  BY <1>f DEF Phases
<1> QED BY <1>1, <1>2, <1>3, <1>7, <1>8, <1>g

LEMMA PopKeeps ==
  ASSUME TarjanInv, Leave, index[Top.id] = low[Top.id]
  PROVE  TarjanInv'
<1> USE DEF TarjanInv
<1> DEFINE n == Len(frames)
           t == Top.id
           m == Len(sccs)
<1>a. /\ n \in Nat \ {0} /\ DOMAIN frames = 1..n /\ DOMAIN frames' = 1..(n - 1) /\ Len(frames') = n - 1
      /\ frames' \in Seq([id : Ids, deps : SUBSET Ids])
      /\ \A i \in 1..(n - 1) : /\ frames'[i] = frames[i] /\ frames[i].id \in Ids
                               /\ index[frames[i].id] < index[t]
      /\ frames[n] = Top /\ t \in Ids /\ t \in OnStack /\ Known(t) \subseteq Visited
      /\ Gray' = Gray \ {t} /\ low' \in [Ids -> Nat]
  BY LeaveEffect
<1>b. \A i \in 1..(n - 1) :
        IF i = n - 1 THEN /\ low'[frames[i].id] <= low[frames[i].id] /\ low'[frames[i].id] <= low[t]
                          /\ low'[frames[i].id] \in {low[frames[i].id], low[t]}
                     ELSE low'[frames[i].id] = low[frames[i].id]
  BY LeaveEffect
<1>c. /\ OnStack \subseteq Ids /\ \A u \in Ids : index[u] \in Nat /\ low[u] \in Nat
      /\ m \in Nat /\ DOMAIN sccs = 1..m /\ \A i \in DOMAIN sccs : sccs[i] \subseteq Ids
  BY Shape
<1>d. index[t] = low[t] /\ Above = {v \in OnStack : index[v] >= index[t]}
  BY DEF Above
<1>e. /\ phase = "tarjan" /\ frames # <<>> /\ Top.deps = {} /\ PopComponent(t)
      /\ UNCHANGED <<refs, phase, counter, index, order>>
  BY DEF Leave, kahn
<1>f. /\ sccs' = Append(sccs, Above)
      /\ stack' \in Seq(Ids) /\ OnStack' = OnStack \ Above
      /\ \A i \in DOMAIN stack' : i \in DOMAIN stack /\ stack'[i] = stack[i]
  BY <1>e, PopEffect
<1>g. Visited' = Visited /\ Numbered'
  BY <1>f, LeaveKeepsNumbers
<1>h. /\ Above = Reference!Component(t)
      /\ \A v \in Above : Known(v) \subseteq Above \union Popped
  BY <1>e, AboveIsComponent
<1>i. \A i \in 1..(n - 1) : i \in DOMAIN frames /\ low'[frames[i].id] = low[frames[i].id]
  <2> SUFFICES ASSUME NEW i \in 1..(n - 1)
               PROVE  i \in DOMAIN frames /\ low'[frames[i].id] = low[frames[i].id]
    OBVIOUS
  <2>1. i \in DOMAIN frames
    BY <1>a
  <2>2. low[frames[i].id] <= index[frames[i].id]
    BY <2>1 DEF Connected, LowSound
  <2>3. /\ index[frames[i].id] \in Nat /\ low[frames[i].id] \in Nat
        /\ index[t] \in Nat /\ low[t] \in Nat
        /\ index[frames[i].id] < index[t]
    BY <1>a, <1>c
  <2> HIDE DEF n, t
  <2> QED BY <1>b, <1>d, <2>1, <2>2, <2>3
<1> HIDE DEF n, t, m
<1>j. \A v \in OnStack' : v \in OnStack /\ v \in Ids /\ index[v] < index[t]
  <2>1. \A v \in OnStack' : v \in OnStack /\ v \in Ids /\ ~ (index[v] >= index[t])
    BY <1>c, <1>d, <1>f
  <2> QED BY <1>a, <1>c, <2>1
<1>k. Above \subseteq Ids /\ t \in Above
  BY <1>a, <1>c, <1>d
<1>l. /\ DOMAIN sccs' = 1..(m + 1) /\ sccs' \in Seq(SUBSET Ids)
      /\ \A i \in 1..m : sccs'[i] = sccs[i]
      /\ sccs'[m + 1] = Above
  <2>1. sccs \in Seq(SUBSET Ids)
    BY DEF TypeInv
  <2> QED BY <1>f, <1>k, <2>1 DEF m
<1>m. Popped' = Popped \union Above
  <2>1. \A u \in Popped' : u \in Popped \union Above
    <3> SUFFICES ASSUME NEW i \in 1..(m + 1), NEW u \in sccs'[i] PROVE u \in Popped \union Above
      BY <1>l DEF Popped, Range
    <3>1. CASE i \in 1..m
      BY <1>c, <1>l, <3>1 DEF Popped, Range
    <3>2. CASE i = m + 1
      BY <1>l, <3>2
    <3> QED BY <1>c, <3>1, <3>2
  <2>2. \A u \in Popped : u \in Popped'
    <3> SUFFICES ASSUME NEW i \in 1..m, NEW u \in sccs[i] PROVE u \in Popped'
      BY <1>c DEF Popped, Range
    <3>1. i \in DOMAIN sccs' /\ u \in sccs'[i]
      BY <1>c, <1>l
    <3> QED BY <3>1 DEF Popped, Range
  <2>3. \A u \in Above : u \in Popped'
    <3>1. m + 1 \in DOMAIN sccs'
      BY <1>c, <1>l
    <3> QED BY <1>l, <3>1 DEF Popped, Range
  <2> QED BY <2>1, <2>2, <2>3
<1>1. TypeInv'
  BY <1>a, <1>e, <1>f, <1>l DEF TypeInv
<1>2. Colours'
  <2>1. OnStack' \cap Popped' = {}
    BY <1>f, <1>m DEF Colours
  <2>2. Visited' = OnStack' \union Popped'
    BY <1>d, <1>f, <1>g, <1>m DEF Colours
  <2>3. Gray' \subseteq OnStack'
    <3> SUFFICES ASSUME NEW u \in Gray' PROVE u \in OnStack'
      OBVIOUS
    <3>1. PICK i \in 1..(n - 1) : u = frames[i].id
      BY <1>a DEF Gray
    <3>2. u \in OnStack /\ u \in Ids /\ index[u] < index[t]
      BY <1>a, <3>1 DEF Colours
    <3> QED BY <1>a, <1>c, <1>d, <1>f, <3>2
  <2>4. ASSUME NEW i \in DOMAIN frames'
        PROVE  /\ frames'[i].deps \subseteq Known(frames'[i].id)
               /\ Known(frames'[i].id) \ frames'[i].deps \subseteq Visited'
    BY <1>a, <1>g, <1>i DEF Colours
  <2>5. \A u \in Visited' \ Gray' : Known(u) \subseteq Visited'
    BY <1>a, <1>g DEF Colours
  <2> QED BY <1>e, <2>1, <2>2, <2>3, <2>4, <2>5 DEF Colours, Known
<1>3. Connected'
  <2>1. ASSUME NEW i \in DOMAIN frames', NEW u \in OnStack', index'[u] >= index'[frames'[i].id]
        PROVE  To(frames'[i].id, u)
    BY <1>a, <1>e, <1>i, <1>j, <2>1 DEF Connected, GrayReaches
  <2>2. ASSUME NEW u \in OnStack'
        PROVE  \E i \in DOMAIN frames' : index'[frames'[i].id] <= index'[u] /\ To(u, frames'[i].id)
    <3>1. PICK i \in DOMAIN frames : index[frames[i].id] <= index[u] /\ To(u, frames[i].id)
      BY <1>j DEF Connected, ReachesGray
    <3>2. i # n
      <4>1. index[u] \in Nat /\ index[t] \in Nat /\ index[u] < index[t]
        BY <1>a, <1>c, <1>j
      <4>2. frames[n].id = t
        BY <1>a DEF t
      <4> QED BY <3>1, <4>1, <4>2
    <3>3. i \in 1..(n - 1)
      BY <1>a, <3>2
    <3> QED BY <1>a, <1>e, <3>1, <3>3
  <2>3. ASSUME NEW i \in DOMAIN frames'
        PROVE  /\ low'[frames'[i].id] <= index'[frames'[i].id]
               /\ \E x \in OnStack' : index'[x] = low'[frames'[i].id] /\ To(frames'[i].id, x)
    <3>1. /\ frames'[i].id = frames[i].id /\ frames[i].id \in Ids
          /\ i \in 1..(n - 1) /\ i \in DOMAIN frames
      BY <1>a, <1>i
    <3>2. low[frames[i].id] <= index[frames[i].id]
      BY <3>1 DEF Connected, LowSound
    <3>3. PICK x \in OnStack : index[x] = low[frames[i].id] /\ To(frames[i].id, x)
      BY <3>1 DEF Connected, LowSound
    <3>4. x \in OnStack'
      <4>1. index[x] < index[t] /\ index[x] \in Nat /\ index[t] \in Nat
        BY <1>a, <1>c, <3>1, <3>2, <3>3, SMTT(30)
      <4> QED BY <1>d, <1>f, <4>1
    <3> QED BY <1>e, <1>i, <3>1, <3>2, <3>3, <3>4
  <2>4. ASSUME NEW i \in DOMAIN frames', NEW v \in OnStack', NEW x \in Known(v) \cap OnStack',
               index'[v] >= index'[frames'[i].id],
               i < Len(frames') => index'[v] < index'[frames'[i + 1].id],
               v = frames'[i].id => x \notin frames'[i].deps
        PROVE  low'[frames'[i].id] <= index'[x]
    <3>1. /\ frames'[i] = frames[i] /\ i \in 1..(n - 1) /\ i \in DOMAIN frames
      BY <1>a, <1>i
    <3>2. v \in Segment(i)
      <4>1. CASE i = n - 1
        <5>1. frames[i + 1].id = t
          BY <1>a, <4>1 DEF t
        <5> QED BY <1>e, <1>j, <2>4, <3>1, <5>1 DEF Segment
      <4>2. CASE i # n - 1
        <5>1. i < Len(frames') /\ frames'[i + 1] = frames[i + 1]
          BY <1>a, <3>1, <4>2
        <5> QED BY <1>e, <1>j, <2>4, <3>1, <5>1 DEF Segment
      <4> QED BY <4>1, <4>2
    <3>3. low[frames[i].id] <= index[x]
      BY <1>j, <2>4, <3>1, <3>2 DEF Connected, LowComplete
    <3> QED BY <1>e, <1>i, <3>1, <3>3
  <2> QED BY <1>e, <2>1, <2>2, <2>3, <2>4, NextConnected
<1>4. Found'
  <2>1. Above \in Reference!Components
    BY <1>a, <1>h, ComponentFacts
  <2>2. \A i \in 1..m : sccs[i] # Above
    <3>1. t \notin Popped
      BY <1>a DEF Colours
    <3>2. \A i \in 1..m : t \notin sccs[i]
      BY <1>c, <3>1 DEF Popped, Range
    <3> QED BY <1>k, <3>2
  <2>3. \A i \in DOMAIN sccs' : i \in 1..m \/ i = m + 1
    BY <1>c, <1>l
  <2>4. \A i \in DOMAIN sccs' : sccs'[i] \in Reference!Components
    BY <1>c, <1>l, <2>1, <2>3 DEF Found
  <2>5. \A i, j \in DOMAIN sccs' : i # j => sccs'[i] # sccs'[j]
    BY <1>c, <1>l, <2>2, <2>3 DEF Found
  <2>6. ASSUME NEW i \in DOMAIN sccs', NEW u \in sccs'[i]
        PROVE  Known(u) \subseteq UNION {sccs'[j] : j \in 1..i}
    <3>1. CASE i \in 1..m
      <4>1. Known(u) \subseteq UNION {sccs[j] : j \in 1..i}
        BY <1>c, <1>l, <3>1 DEF Found
      <4>2. \A j \in 1..i : sccs'[j] = sccs[j]
        BY <1>c, <1>l, <3>1
      <4> QED BY <4>1, <4>2
    <3>2. CASE i = m + 1
      <4>1. Known(u) \subseteq Popped'
        BY <1>h, <1>l, <1>m, <3>2
      <4>2. DOMAIN sccs' = 1..i
        BY <1>l, <3>2
      <4> QED BY <4>1, <4>2 DEF Popped, Range
    <3> QED BY <2>3, <3>1, <3>2
  <2>7. Reference!Components' = Reference!Components
    BY <1>e, SameGraph
  <2> QED BY <1>e, <2>4, <2>5, <2>6, <2>7 DEF Found, Known
<1>5. Phases'
  BY <1>e DEF Phases
<1> QED BY <1>1, <1>2, <1>3, <1>4, <1>5, <1>g

LEMMA LeaveTarjan == TarjanInv /\ Leave => TarjanInv'
BY ReturnKeeps, PopKeeps

-----------------------------------------------------------------------------
(* The other steps leave the search alone.                                  *)

LEMMA SameTarjan ==
  ASSUME TarjanInv, UNCHANGED <<refs, tarjan>>
  PROVE  /\ Numbered' /\ Colours' /\ Connected' /\ Found'
         /\ Visited' = Visited /\ Popped' = Popped /\ OnStack' = OnStack
<1>1. UNCHANGED <<refs, counter, index, low, stack, frames, sccs>>
  BY DEF tarjan
<1>2. Visited' = Visited /\ OnStack' = OnStack /\ Gray' = Gray
  BY <1>1 DEF Visited, OnStack, Gray
<1>3. Found' /\ Popped' = Popped
  BY <1>1, NextFound DEF TarjanInv
<1>4. Numbered'
  BY <1>1, <1>2 DEF TarjanInv, Numbered
<1>5. Colours'
  BY <1>1, <1>2, <1>3 DEF TarjanInv, Colours, Known
<1>6. Connected'
  BY <1>1, <1>2, NextConnected DEF TarjanInv, Connected, GrayReaches, ReachesGray, LowSound, LowComplete, Segment
<1> QED BY <1>2, <1>3, <1>4, <1>5, <1>6

(* When no call is left and every type has been entered, the components     *)
(* are known.                                                               *)
LEMMA AllFound ==
  ASSUME TarjanInv, frames = <<>>, Visited = Ids
  PROVE  /\ Popped = Ids
         /\ {sccs[i] : i \in DOMAIN sccs} = Reference!Components
<1>1. DOMAIN frames = {}
  OBVIOUS
<1>2. OnStack = {}
  BY <1>1 DEF TarjanInv, Connected, ReachesGray
<1>3. Popped = Ids
  BY <1>2 DEF TarjanInv, Colours
<1>4. ASSUME NEW c \in Reference!Components PROVE \E i \in DOMAIN sccs : sccs[i] = c
  <2>1. PICK t \in Ids : c = Reference!Component(t)
    BY DEF Reference!Components
  <2>2. PICK i \in DOMAIN sccs : t \in sccs[i]
    BY <1>3 DEF Popped, Range
  <2>3. t \in c
    BY <2>1 DEF Reference!Component
  <2>4. sccs[i] \in Reference!Components
    BY DEF TarjanInv, Found
  <2> QED BY <2>2, <2>3, <2>4, ComponentsApart
<1>5. \A i \in DOMAIN sccs : sccs[i] \in Reference!Components
  BY DEF TarjanInv, Found
<1> QED BY <1>3, <1>4, <1>5

-----------------------------------------------------------------------------
(* Kahn's algorithm.                                                        *)

EmittedIndices == Range(order)

(* The edges that a component still waits for.                              *)
Waits(s) == [to \in DOMAIN sccs |-> IF to \in EmittedIndices THEN 0 ELSE Edges(s, to)]

(* An in-degree counts the edges into components that are not emitted; what *)
(* is ready is what has none left.                                          *)
KahnInv ==
  phase \in {"kahn", "done"} =>
    /\ EmittedIndices \subseteq DOMAIN sccs
    /\ \A i, j \in DOMAIN order : i # j => order[i] # order[j]
    /\ indeg = [s \in DOMAIN sccs |-> SumFunction(Waits(s))]
    /\ \A s \in EmittedIndices : indeg[s] = 0
    /\ ready = {s \in DOMAIN sccs \ EmittedIndices : indeg[s] = 0}
    /\ phase = "done" => EmittedIndices = DOMAIN sccs

IInv == TarjanInv /\ KahnInv

LEMMA EdgeFacts ==
  ASSUME TarjanInv, NEW s \in DOMAIN sccs, NEW u \in DOMAIN sccs
  PROVE  /\ Edges(s, u) \in Nat
         /\ Edges(s, u) = 0 <=> (s = u \/ \A t \in sccs[s] : refs[t] \cap sccs[u] = {})
<1> DEFINE E == {t \in sccs[s] : refs[t] \cap sccs[u] # {}}
<1>1. E \subseteq Ids
  BY Shape DEF TarjanInv
<1>2. IsFiniteSet(E)
  BY <1>1, IdsAssumption, FS_Subset
<1>3. Cardinality(E) \in Nat /\ (Cardinality(E) = 0 <=> E = {})
  <2> HIDE DEF E
  <2> QED BY <1>2, FS_CardinalityType, FS_EmptySet
<1>4. Edges(s, u) = IF s = u THEN 0 ELSE Cardinality(E)
  BY DEF Edges
<1>5. E = {} <=> \A t \in sccs[s] : refs[t] \cap sccs[u] = {}
  OBVIOUS
<1> HIDE DEF E
<1> QED BY <1>3, <1>4, <1>5

LEMMA SccsFinite ==
  ASSUME TarjanInv
  PROVE  IsFiniteSet(DOMAIN sccs) /\ DOMAIN sccs \subseteq Nat
<1>1. DOMAIN sccs = 1..Len(sccs) /\ Len(sccs) \in Nat
  BY Shape DEF TarjanInv
<1> QED BY <1>1, FS_Interval

LEMMA WaitsFacts ==
  ASSUME TarjanInv, NEW s \in DOMAIN sccs
  PROVE  /\ Waits(s) \in [DOMAIN sccs -> Nat] /\ SumFunction(Waits(s)) \in Nat
         /\ SumFunction(Waits(s)) = 0 <=>
              \A u \in DOMAIN sccs \ EmittedIndices :
                s = u \/ \A t \in sccs[s] : refs[t] \cap sccs[u] = {}
<1>1. Waits(s) \in [DOMAIN sccs -> Nat]
  BY EdgeFacts DEF Waits
<1>2. /\ SumFunction(Waits(s)) \in Nat
      /\ SumFunction(Waits(s)) = 0 <=> \A u \in DOMAIN sccs : Waits(s)[u] = 0
  BY <1>1, SumZero, SccsFinite
<1>3. \A u \in DOMAIN sccs : Waits(s)[u] = IF u \in EmittedIndices THEN 0 ELSE Edges(s, u)
  BY DEF Waits
<1>4. (\A u \in DOMAIN sccs : Waits(s)[u] = 0) <=> \A u \in DOMAIN sccs \ EmittedIndices : Edges(s, u) = 0
  BY <1>3
<1>5. \A u \in DOMAIN sccs : Edges(s, u) = 0 <=> (s = u \/ \A t \in sccs[s] : refs[t] \cap sccs[u] = {})
  BY EdgeFacts
<1> QED BY <1>1, <1>2, <1>4, <1>5

(* A component waits for nothing exactly when the abstract one is ready.    *)
AbstractOrder == [k \in DOMAIN order |-> sccs[order[k]]]

LEMMA EmittedFacts ==
  ASSUME TarjanInv, EmittedIndices \subseteq DOMAIN sccs
  PROVE  /\ Reference!Emitted = {sccs[i] : i \in EmittedIndices}
         /\ \A s \in DOMAIN sccs : sccs[s] \in Reference!Emitted <=> s \in EmittedIndices
<1>1. DOMAIN AbstractOrder = DOMAIN order /\ \A k \in DOMAIN order : AbstractOrder[k] = sccs[order[k]]
  BY DEF AbstractOrder
<1>2. Reference!Emitted = {AbstractOrder[k] : k \in DOMAIN AbstractOrder}
  BY DEF Reference!Emitted, AbstractOrder
<1>3. Reference!Emitted = {sccs[i] : i \in EmittedIndices}
  BY <1>1, <1>2 DEF EmittedIndices, Range
<1>4. \A i, j \in DOMAIN sccs : sccs[i] = sccs[j] => i = j
  BY DEF TarjanInv, Found
<1> QED BY <1>3, <1>4

LEMMA ReadyMeans ==
  ASSUME TarjanInv, Popped = Ids, EmittedIndices \subseteq DOMAIN sccs, NEW s \in DOMAIN sccs
  PROVE  Reference!Ready(sccs[s]) <=> s \notin EmittedIndices /\ SumFunction(Waits(s)) = 0
<1> DEFINE c == sccs[s]
<1>0. c \subseteq Ids /\ \A u \in DOMAIN sccs : sccs[u] \subseteq Ids
  BY Shape DEF TarjanInv
<1>1. Reference!Ready(c) <=> c \notin Reference!Emitted /\ Reference!Needs(c) \subseteq UNION Reference!Emitted
  BY DEF Reference!Ready
<1>2. c \notin Reference!Emitted <=> s \notin EmittedIndices
  BY EmittedFacts
<1>3. UNION Reference!Emitted = UNION {sccs[i] : i \in EmittedIndices}
  BY EmittedFacts
<1>4. \A r : r \in Reference!Needs(c) <=> (\E t \in c : r \in refs[t]) /\ r \in Ids /\ r \notin c
  BY DEF Reference!Needs
<1>5. \A i, j \in DOMAIN sccs : i # j => sccs[i] \cap sccs[j] = {}
  <2>1. \A i, j \in DOMAIN sccs : i # j => sccs[i] # sccs[j]
    BY DEF TarjanInv, Found
  <2>2. \A i \in DOMAIN sccs : sccs[i] \in Reference!Components
    BY DEF TarjanInv, Found
  <2> QED BY <2>1, <2>2, ComponentsApart
<1>6. \A r \in Ids : \E u \in DOMAIN sccs : r \in sccs[u]
  BY DEF Popped, Range
<1>7. ASSUME s \notin EmittedIndices
      PROVE  Reference!Needs(c) \subseteq UNION {sccs[i] : i \in EmittedIndices}
             <=> \A u \in DOMAIN sccs \ EmittedIndices : s = u \/ \A t \in c : refs[t] \cap sccs[u] = {}
  <2>1. ASSUME Reference!Needs(c) \subseteq UNION {sccs[i] : i \in EmittedIndices},
               NEW u \in DOMAIN sccs \ EmittedIndices, s # u, NEW t \in c, NEW r \in refs[t] \cap sccs[u]
        PROVE  FALSE
    <3>1. r \in Ids /\ r \notin c
      BY <1>0, <1>5, <2>1
    <3>2. r \in Reference!Needs(c)
      BY <1>4, <2>1, <3>1
    <3>3. PICK i \in EmittedIndices : r \in sccs[i]
      BY <2>1, <3>2
    <3> QED BY <1>5, <2>1, <3>3
  <2>2. ASSUME \A u \in DOMAIN sccs \ EmittedIndices : s = u \/ \A t \in c : refs[t] \cap sccs[u] = {},
               NEW r \in Reference!Needs(c)
        PROVE  r \in UNION {sccs[i] : i \in EmittedIndices}
    <3>1. PICK t \in c : r \in refs[t] /\ r \in Ids /\ r \notin c
      BY <1>4
    <3>2. PICK u \in DOMAIN sccs : r \in sccs[u]
      BY <1>6, <3>1
    <3>3. u \in EmittedIndices
      BY <2>2, <3>1, <3>2
    <3> QED BY <3>2, <3>3
  <2> QED BY <2>1, <2>2
<1> QED BY <1>1, <1>2, <1>3, <1>7, WaitsFacts

(* ready is what the abstract order may emit next, and a smallest name      *)
(* among it exists.                                                         *)
LEMMA ReadyFacts ==
  ASSUME IInv, phase = "kahn"
  PROVE  /\ Popped = Ids /\ {sccs[i] : i \in DOMAIN sccs} = Reference!Components
         /\ ready \subseteq DOMAIN sccs
         /\ \A s \in DOMAIN sccs : s \in ready <=> Reference!Ready(sccs[s])
         /\ \A s \in DOMAIN sccs : Min(sccs[s]) \in Nat
<1>1. Popped = Ids /\ {sccs[i] : i \in DOMAIN sccs} = Reference!Components
  BY AllFound DEF IInv, TarjanInv, Phases
<1>2. /\ EmittedIndices \subseteq DOMAIN sccs
      /\ indeg = [s \in DOMAIN sccs |-> SumFunction(Waits(s))]
      /\ ready = {s \in DOMAIN sccs \ EmittedIndices : indeg[s] = 0}
  BY DEF IInv, KahnInv
<1>3. \A s \in DOMAIN sccs : s \in ready <=> s \notin EmittedIndices /\ SumFunction(Waits(s)) = 0
  BY <1>2
<1>4. \A s \in DOMAIN sccs : s \in ready <=> Reference!Ready(sccs[s])
  BY <1>1, <1>2, <1>3, ReadyMeans DEF IInv
<1>5. ASSUME NEW s \in DOMAIN sccs PROVE Min(sccs[s]) \in Nat
  <2>1. PICK t \in Ids : sccs[s] = Reference!Component(t)
    BY DEF IInv, TarjanInv, Found, Reference!Components
  <2>2. t \in sccs[s]
    BY <2>1 DEF Reference!Component
  <2>3. sccs[s] \subseteq Nat
    BY Shape, IdsAssumption DEF IInv, TarjanInv
  <2> QED BY <2>2, <2>3, MinFacts
<1> QED BY <1>1, <1>2, <1>4, <1>5

Smallest == CHOOSE s \in ready : \A u \in ready : Min(sccs[s]) <= Min(sccs[u])

LEMMA SmallestReady ==
  ASSUME IInv, phase = "kahn", ready # {}
  PROVE  /\ Smallest \in ready
         /\ \A u \in ready : Min(sccs[Smallest]) <= Min(sccs[u])
<1> DEFINE N == {n \in Nat : \E s \in ready : n = Min(sccs[s])}
<1>1. \A s \in ready : Min(sccs[s]) \in N
  BY ReadyFacts
<1>2. PICK n \in N : \A m \in N : n <= m
  <2>1. N # {} /\ N \subseteq Nat
    BY <1>1
  <2> HIDE DEF N
  <2> QED BY <2>1, LeastNatural
<1>3. \E s \in ready : \A u \in ready : Min(sccs[s]) <= Min(sccs[u])
  BY <1>1, <1>2
<1> QED BY <1>3 DEF Smallest

LEMMA EmitEffect ==
  ASSUME IInv, EmitComponent
  PROVE  /\ phase = "kahn" /\ ready # {} /\ Smallest \in ready /\ order' = Append(order, Smallest)
         /\ indeg' = [s \in DOMAIN sccs |-> indeg[s] - Edges(s, Smallest)]
         /\ ready' = (ready \ {Smallest})
                     \union {s \in DOMAIN sccs : indeg[s] > 0 /\ indeg'[s] = 0}
         /\ UNCHANGED <<refs, phase, tarjan>>
         /\ order \in Seq(Nat) /\ order' \in Seq(Nat)
         /\ DOMAIN order = 1..Len(order) /\ Len(order) \in Nat
         /\ DOMAIN order' = 1..(Len(order) + 1) /\ order'[Len(order) + 1] = Smallest
         /\ \A k \in DOMAIN order : order'[k] = order[k]
         /\ EmittedIndices' = EmittedIndices \union {Smallest}
<1>1. phase = "kahn" /\ ready # {} /\ UNCHANGED <<refs, phase, tarjan>>
  BY DEF EmitComponent
<1>2. Smallest \in ready /\ Smallest \in DOMAIN sccs
  BY <1>1, SmallestReady, ReadyFacts
<1>3. \A s \in DOMAIN sccs : Released(Smallest)[s] = Edges(s, Smallest)
  BY DEF Released
<1>4. /\ order' = Append(order, Smallest)
      /\ indeg' = [s \in DOMAIN sccs |-> indeg[s] - Released(Smallest)[s]]
      /\ ready' = (ready \ {Smallest})
                  \union {s \in DOMAIN sccs : indeg[s] > 0 /\ indeg'[s] = 0}
  BY DEF EmitComponent, Smallest
<1>5. indeg' = [s \in DOMAIN sccs |-> indeg[s] - Edges(s, Smallest)]
  BY <1>3, <1>4
<1>6. order \in Seq(Nat) /\ Smallest \in Nat
  BY <1>2, SccsFinite DEF IInv, TarjanInv, TypeInv
<1>7. /\ order' \in Seq(Nat) /\ DOMAIN order = 1..Len(order) /\ Len(order) \in Nat
      /\ DOMAIN order' = 1..(Len(order) + 1) /\ order'[Len(order) + 1] = Smallest
      /\ \A k \in DOMAIN order : order'[k] = order[k]
  BY <1>4, <1>6
<1>8. EmittedIndices' = EmittedIndices \union {Smallest}
  BY <1>7, SMTT(30) DEF EmittedIndices, Range
<1> QED BY <1>1, <1>2, <1>4, <1>5, <1>6, <1>7, <1>8

LEMMA EmitInductive ==
  ASSUME IInv, EmitComponent
  PROVE  IInv'
<1> DEFINE e == Smallest
           D == DOMAIN sccs
<1>a. /\ phase = "kahn" /\ e \in ready
      /\ indeg' = [s \in D |-> indeg[s] - Edges(s, e)]
      /\ ready' = (ready \ {e}) \union {s \in D : indeg[s] > 0 /\ indeg'[s] = 0}
      /\ EmittedIndices' = EmittedIndices \union {e}
  BY EmitEffect
<1>b. /\ EmittedIndices \subseteq D
      /\ \A i, j \in DOMAIN order : i # j => order[i] # order[j]
      /\ indeg = [s \in D |-> SumFunction(Waits(s))]
      /\ \A s \in EmittedIndices : indeg[s] = 0
      /\ ready = {s \in D \ EmittedIndices : indeg[s] = 0}
  BY <1>a DEF IInv, KahnInv
<1>c. UNCHANGED <<refs, phase, tarjan>> /\ sccs' = sccs /\ refs' = refs /\ phase' = "kahn"
  BY <1>a, EmitEffect DEF tarjan
<1>d. e \in D /\ e \notin EmittedIndices /\ indeg[e] = 0
  BY <1>a, <1>b
<1>e. /\ order' \in Seq(Nat) /\ DOMAIN order = 1..Len(order) /\ Len(order) \in Nat
      /\ DOMAIN order' = 1..(Len(order) + 1) /\ order'[Len(order) + 1] = e
      /\ \A k \in DOMAIN order : order'[k] = order[k]
  BY EmitEffect
<1> HIDE DEF e
<1>1. TarjanInv'
  <2>1. UNCHANGED <<counter, index, low, stack, frames, sccs>>
    BY <1>c DEF tarjan
  <2>2. TypeInv'
    BY <1>c, <1>e, <2>1 DEF IInv, TarjanInv, TypeInv
  <2>3. Numbered' /\ Colours' /\ Connected' /\ Found' /\ Visited' = Visited
    BY <1>c, SameTarjan DEF IInv
  <2>4. Phases'
    BY <1>a, <1>c, <2>1, <2>3 DEF IInv, TarjanInv, Phases
  <2> QED BY <2>2, <2>3, <2>4 DEF TarjanInv
<1>2. ASSUME NEW s \in D
      PROVE  /\ Edges(s, e) \in Nat /\ indeg[s] \in Nat /\ indeg'[s] \in Nat
             /\ indeg'[s] = SumFunction([u \in D |-> IF u \in EmittedIndices' THEN 0 ELSE Edges(s, u)])
             /\ indeg[s] = Edges(s, e) + indeg'[s]
  <2> DEFINE w == [u \in D |-> IF u \in EmittedIndices' THEN 0 ELSE Edges(s, u)]
  <2>1. Waits(s) \in [D -> Nat] /\ indeg[s] \in Nat /\ indeg[s] = SumFunction(Waits(s))
    BY <1>b, WaitsFacts DEF IInv
  <2>2. \A u \in D : Edges(s, u) \in Nat
    BY EdgeFacts DEF IInv
  <2>3. w \in [D -> Nat] /\ w[e] = 0
    BY <1>a, <1>d, <2>2
  <2>4. \A u \in D : u # e => w[u] = Waits(s)[u]
    BY <1>a DEF Waits
  <2>5. Waits(s)[e] = Edges(s, e)
    BY <1>d DEF Waits
  <2>6. IsFiniteSet(D)
    BY SccsFinite DEF IInv
  <2> HIDE DEF w, D
  <2>7. SumFunction(Waits(s)) = Edges(s, e) + SumFunction(w) /\ SumFunction(w) \in Nat
    BY <1>d, <2>1, <2>3, <2>4, <2>5, <2>6, SumWithout, SumZero
  <2>8. indeg'[s] = indeg[s] - Edges(s, e)
    BY <1>a
  <2>9. indeg'[s] = SumFunction(w)
    BY <1>d, <2>1, <2>2, <2>7, <2>8
  <2> QED BY <1>d, <2>1, <2>2, <2>7, <2>9 DEF w
<1>3. KahnInv'
  <2>1. EmittedIndices' \subseteq D
    BY <1>a, <1>b, <1>d
  <2>2. ASSUME NEW i \in DOMAIN order', NEW j \in DOMAIN order', i # j PROVE order'[i] # order'[j]
    <3>1. \A k \in DOMAIN order : order[k] # e
      BY <1>d DEF EmittedIndices, Range
    <3>2. \A k \in DOMAIN order' : k \in DOMAIN order \/ k = Len(order) + 1
      BY <1>e
    <3> QED BY <1>b, <1>e, <2>2, <3>1, <3>2
  <2>3. indeg' = [s \in D |-> SumFunction(Waits(s)')]
    <3>1. \A s \in D : Waits(s)' = [u \in D |-> IF u \in EmittedIndices' THEN 0 ELSE Edges(s, u)]
      BY <1>c DEF Waits, Edges
    <3>2. indeg' = [s \in D |-> indeg'[s]]
      BY <1>a
    <3> HIDE DEF D
    <3> QED BY <1>2, <3>1, <3>2
  <2>4. \A s \in D : indeg[s] = 0 => indeg'[s] = 0
    <3> SUFFICES ASSUME NEW s \in D, indeg[s] = 0 PROVE indeg'[s] = 0
      OBVIOUS
    <3> DEFINE m == Edges(s, e)
               n == indeg'[s]
    <3>1. m \in Nat /\ n \in Nat /\ 0 = m + n
      BY <1>2
    <3> HIDE DEF m, n
    <3>2. n = 0
      BY <3>1
    <3> QED BY <3>2 DEF n
  <2>5. \A s \in EmittedIndices' : indeg'[s] = 0
    BY <1>a, <1>b, <1>d, <2>4
  <2>6. ready' = {s \in D \ EmittedIndices' : indeg'[s] = 0}
    <3>1. ASSUME NEW s \in ready' PROVE s \in D /\ s \notin EmittedIndices' /\ indeg'[s] = 0
      <4>1. CASE s \in ready \ {e}
        BY <1>a, <1>b, <2>4, <4>1
      <4>2. CASE s \in D /\ indeg[s] > 0 /\ indeg'[s] = 0
        <5>1. indeg[s] # 0
          BY <1>2, <4>2
        <5> QED BY <1>a, <1>b, <1>d, <4>2, <5>1
      <4> QED BY <1>a, <4>1, <4>2
    <3>2. ASSUME NEW s \in D, s \notin EmittedIndices', indeg'[s] = 0 PROVE s \in ready'
      <4>1. CASE indeg[s] = 0
        BY <1>a, <1>b, <3>2, <4>1
      <4>2. CASE indeg[s] # 0
        <5> DEFINE n == indeg[s]
        <5>0. n \in Nat /\ n # 0
          BY <1>2, <4>2
        <5> HIDE DEF n
        <5>1. n > 0
          BY <5>0
        <5> QED BY <1>a, <3>2, <5>1 DEF n
      <4> QED BY <4>1, <4>2
    <3> QED BY <3>1, <3>2
  <2> QED BY <1>c, <2>1, <2>2, <2>3, <2>5, <2>6 DEF KahnInv
<1> QED BY <1>1, <1>3 DEF IInv

LEMMA BuildInductive ==
  ASSUME IInv, BuildDag
  PROVE  IInv'
<1>a. /\ phase = "tarjan" /\ frames = <<>> /\ Unvisited = {} /\ phase' = "kahn"
      /\ UNCHANGED <<refs, tarjan, order>>
      /\ indeg' = [s \in DOMAIN sccs |-> SumFunction([to \in DOMAIN sccs |-> Edges(s, to)])]
      /\ ready' = {s \in DOMAIN sccs : indeg'[s] = 0}
  BY DEF BuildDag
<1>b. UNCHANGED <<counter, index, low, stack, frames, sccs>>
  BY <1>a DEF tarjan
<1>c. Numbered' /\ Colours' /\ Connected' /\ Found' /\ Visited' = Visited
  BY <1>a, SameTarjan DEF IInv
<1>d. order = <<>> /\ order' = <<>>
  BY <1>a DEF IInv, TarjanInv, Phases
<1>1. TypeInv'
  BY <1>a, <1>b DEF IInv, TarjanInv, TypeInv
<1>2. Visited = Ids
  BY <1>a DEF Unvisited, Visited
<1>3. Phases'
  BY <1>a, <1>b, <1>c, <1>2 DEF Phases
<1>4. KahnInv'
  <2>1. EmittedIndices' = {} /\ DOMAIN order' = {}
    BY <1>d DEF EmittedIndices, Range
  <2>2. \A s \in DOMAIN sccs : Waits(s)' = [to \in DOMAIN sccs |-> Edges(s, to)]
    BY <1>a, <1>b, <2>1 DEF Waits, Edges
  <2>3. indeg' = [s \in DOMAIN sccs |-> SumFunction(Waits(s)')]
    BY <1>a, <2>2
  <2> QED BY <1>a, <1>b, <2>1, <2>3 DEF KahnInv
<1> QED BY <1>1, <1>3, <1>4, <1>c DEF IInv, TarjanInv

(* The smallest index that is not emitted waits for nothing, so ready runs  *)
(* empty only when everything is emitted.                                   *)
LEMMA ReadyUntilDone ==
  ASSUME IInv, phase = "kahn", ready = {}
  PROVE  EmittedIndices = DOMAIN sccs
<1> DEFINE R == DOMAIN sccs \ EmittedIndices
<1>a. /\ EmittedIndices \subseteq DOMAIN sccs
      /\ indeg = [s \in DOMAIN sccs |-> SumFunction(Waits(s))]
      /\ ready = {s \in DOMAIN sccs \ EmittedIndices : indeg[s] = 0}
  BY DEF IInv, KahnInv
<1>b. DOMAIN sccs = 1..Len(sccs) /\ \A s \in DOMAIN sccs : sccs[s] \subseteq Ids
  BY Shape DEF IInv, TarjanInv
<1> SUFFICES ASSUME R # {} PROVE FALSE
  BY <1>a
<1>1. PICK s \in R : \A u \in R : s <= u
  <2>1. R \subseteq Nat
    BY <1>b
  <2> HIDE DEF R
  <2> QED BY <2>1, LeastNatural
<1>2. \A i, j \in DOMAIN sccs : i # j => sccs[i] \cap sccs[j] = {}
  <2>1. \A i, j \in DOMAIN sccs : i # j => sccs[i] # sccs[j]
    BY DEF IInv, TarjanInv, Found
  <2>2. \A i \in DOMAIN sccs : sccs[i] \in Reference!Components
    BY DEF IInv, TarjanInv, Found
  <2> QED BY <2>1, <2>2, ComponentsApart
<1>3. ASSUME NEW u \in R, s # u, NEW t \in sccs[s], NEW r \in refs[t] \cap sccs[u]
      PROVE  FALSE
  <2>1. r \in Known(t)
    BY <1>b DEF Known
  <2>2. Known(t) \subseteq UNION {sccs[j] : j \in 1..s}
    BY DEF IInv, TarjanInv, Found
  <2>3. PICK j \in 1..s : r \in sccs[j]
    BY <2>1, <2>2
  <2>4. j \in DOMAIN sccs /\ j # u
    BY <1>1, <1>3, <1>b
  <2> QED BY <1>2, <2>3, <2>4
<1>4. SumFunction(Waits(s)) = 0
  BY <1>3, WaitsFacts DEF IInv
<1> QED BY <1>4, <1>a

LEMMA EmitTypesInductive ==
  ASSUME IInv, EmitTypes
  PROVE  IInv'
<1>a. /\ phase = "kahn" /\ ready = {} /\ phase' = "done" /\ UNCHANGED <<refs, tarjan, kahn>>
  BY DEF EmitTypes
<1>b. UNCHANGED <<counter, index, low, stack, frames, sccs, indeg, ready, order>>
  BY <1>a DEF tarjan, kahn
<1>c. Numbered' /\ Colours' /\ Connected' /\ Found' /\ Visited' = Visited
  BY <1>a, SameTarjan DEF IInv
<1>d. EmittedIndices = DOMAIN sccs
  BY <1>a, ReadyUntilDone
<1>1. TypeInv'
  BY <1>a, <1>b DEF IInv, TarjanInv, TypeInv
<1>2. Phases'
  BY <1>a, <1>b, <1>c DEF IInv, TarjanInv, Phases
<1>3. KahnInv'
  <2>1. EmittedIndices' = EmittedIndices
    BY <1>b DEF EmittedIndices
  <2>2. \A s \in DOMAIN sccs : Waits(s)' = Waits(s)
    BY <1>a, <1>b, <2>1 DEF Waits, Edges
  <2>3. /\ EmittedIndices \subseteq DOMAIN sccs
        /\ \A i, j \in DOMAIN order : i # j => order[i] # order[j]
        /\ indeg = [s \in DOMAIN sccs |-> SumFunction(Waits(s))]
        /\ \A s \in EmittedIndices : indeg[s] = 0
        /\ ready = {s \in DOMAIN sccs \ EmittedIndices : indeg[s] = 0}
    BY <1>a DEF IInv, KahnInv
  <2>4. indeg = [s \in DOMAIN sccs |-> SumFunction(Waits(s)')]
    BY <2>2, <2>3
  <2> QED BY <1>b, <1>d, <2>1, <2>3, <2>4 DEF KahnInv
<1> QED BY <1>1, <1>2, <1>3, <1>c DEF IInv, TarjanInv

LEMMA CheckInductive ==
  ASSUME IInv, Check
  PROVE  IInv'
<1>a. /\ phase = "check" /\ phase' = "tarjan" /\ UNCHANGED <<refs, tarjan, kahn>>
  BY DEF Check
<1>b. UNCHANGED <<counter, index, low, stack, frames, sccs, order>>
  BY <1>a DEF tarjan, kahn
<1>c. Numbered' /\ Colours' /\ Connected' /\ Found' /\ Visited' = Visited
  BY <1>a, SameTarjan DEF IInv
<1>1. TypeInv'
  BY <1>a, <1>b DEF IInv, TarjanInv, TypeInv
<1>2. Phases'
  BY <1>a, <1>b, <1>c DEF IInv, TarjanInv, Phases
<1>3. KahnInv'
  BY <1>a DEF KahnInv
<1> QED BY <1>1, <1>2, <1>3, <1>c DEF IInv, TarjanInv

LEMMA StutterInductive ==
  ASSUME IInv, UNCHANGED vars
  PROVE  IInv'
<1>a. UNCHANGED <<refs, phase, tarjan, kahn>>
  BY DEF vars
<1>b. UNCHANGED <<counter, index, low, stack, frames, sccs, indeg, ready, order>>
  BY <1>a DEF tarjan, kahn
<1>c. Numbered' /\ Colours' /\ Connected' /\ Found' /\ Visited' = Visited
  BY <1>a, SameTarjan DEF IInv
<1>1. TypeInv'
  BY <1>a, <1>b DEF IInv, TarjanInv, TypeInv
<1>2. Phases'
  BY <1>a, <1>b, <1>c DEF IInv, TarjanInv, Phases
<1>3. KahnInv'
  <2>1. EmittedIndices' = EmittedIndices
    BY <1>b DEF EmittedIndices
  <2>2. \A s \in DOMAIN sccs : Waits(s)' = Waits(s)
    BY <1>a, <1>b, <2>1 DEF Waits, Edges
  <2>3. phase \in {"kahn", "done"} => [s \in DOMAIN sccs |-> SumFunction(Waits(s)')]
                                      = [s \in DOMAIN sccs |-> SumFunction(Waits(s))]
    BY <2>2
  <2> QED BY <1>a, <1>b, <2>1, <2>3 DEF IInv, KahnInv
<1> QED BY <1>1, <1>2, <1>3, <1>c DEF IInv, TarjanInv

LEMMA SearchInductive ==
  ASSUME IInv, Root \/ Visit \/ Leave
  PROVE  IInv'
<1>1. TarjanInv'
  BY RootTarjan, VisitTarjan, LeaveTarjan DEF IInv
<1>2. KahnInv'
  BY DEF KahnInv, Root, Visit, Leave
<1> QED BY <1>1, <1>2 DEF IInv

LEMMA Inductive == Spec => []IInv
<1>1. Init => IInv
  BY InitTarjan DEF IInv, KahnInv, Init
<1>2. IInv /\ [Next]_vars => IInv'
  BY CheckInductive, SearchInductive, BuildInductive, EmitInductive, EmitTypesInductive,
     StutterInductive DEF Next
<1> QED BY <1>1, <1>2, PTL DEF Spec

-----------------------------------------------------------------------------
(* Tarjan's algorithm finds the strongly connected components of every      *)
(* reference graph, and each of them once: the recursion groups that are    *)
(* reported and kept together are exactly the cycles.                       *)
THEOREM ComponentsFound ==
  Spec => [](phase \in {"kahn", "done"} =>
               /\ {sccs[i] : i \in DOMAIN sccs} = Reference!Components
               /\ \A i, j \in DOMAIN sccs : i # j => sccs[i] \cap sccs[j] = {})
<1>1. ASSUME IInv, phase \in {"kahn", "done"}
      PROVE  /\ {sccs[i] : i \in DOMAIN sccs} = Reference!Components
             /\ \A i, j \in DOMAIN sccs : i # j => sccs[i] \cap sccs[j] = {}
  <2>1. {sccs[i] : i \in DOMAIN sccs} = Reference!Components
    BY <1>1, AllFound DEF IInv, TarjanInv, Phases
  <2>2. \A i, j \in DOMAIN sccs : i # j => sccs[i] # sccs[j]
    BY <1>1 DEF IInv, TarjanInv, Found
  <2> QED BY <2>1, <2>2, ComponentsApart
<1> QED BY <1>1, Inductive, PTL

-----------------------------------------------------------------------------
(* The order in which components are emitted.                               *)

LEMMA StepRefines ==
  ASSUME IInv, EmitComponent
  PROVE  Reference!Next
<1>c0. PICK c : c = sccs[Smallest]
  OBVIOUS
<1>a. /\ phase = "kahn" /\ ready # {} /\ Smallest \in ready
      /\ UNCHANGED <<refs, phase, tarjan>>
      /\ order \in Seq(Nat) /\ order' = Append(order, Smallest)
      /\ DOMAIN order = 1..Len(order) /\ Len(order) \in Nat
      /\ DOMAIN order' = 1..(Len(order) + 1) /\ order'[Len(order) + 1] = Smallest
      /\ \A k \in DOMAIN order : order'[k] = order[k]
  BY EmitEffect
<1>b. /\ {sccs[i] : i \in DOMAIN sccs} = Reference!Components
      /\ ready \subseteq DOMAIN sccs
      /\ \A s \in DOMAIN sccs : s \in ready <=> Reference!Ready(sccs[s])
  BY <1>a, ReadyFacts
<1>c. \A u \in ready : Min(sccs[Smallest]) <= Min(sccs[u])
  BY <1>a, SmallestReady
<1>1. c \in Reference!Components /\ Reference!Ready(c)
  BY <1>a, <1>b, <1>c0
<1>2. ASSUME NEW d \in Reference!Components, Reference!Ready(d)
      PROVE  Reference!Min(c) <= Reference!Min(d)
  <2>1. PICK u \in DOMAIN sccs : d = sccs[u]
    BY <1>b
  <2>2. Min(c) <= Min(d)
    BY <1>2, <1>b, <1>c, <1>c0, <2>1
  <2> QED BY <2>2 DEF Min, Reference!Min
<1>3. [k \in DOMAIN order |-> sccs[order[k]]]' = Append([k \in DOMAIN order |-> sccs[order[k]]], c)
  <2> DEFINE a == [k \in DOMAIN order |-> sccs[order[k]]]
             b == [k \in DOMAIN order' |-> sccs[order'[k]]]
             Groups == {sccs[order[k]] : k \in DOMAIN order} \union {c}
  <2>1. a \in Seq(Groups) /\ Len(a) = Len(order) /\ \A k \in 1..Len(order) : a[k] = sccs[order[k]]
    BY <1>a
  <2>2. DOMAIN b = 1..(Len(order) + 1) /\ b[Len(order) + 1] = c /\ \A k \in 1..Len(order) : b[k] = sccs[order[k]]
    <3>1. DOMAIN b = DOMAIN order' /\ \A k \in DOMAIN order' : b[k] = sccs[order'[k]]
      OBVIOUS
    <3> HIDE DEF b
    <3>2. \A k \in 1..Len(order) : k \in DOMAIN order'
      BY <1>a
    <3>3. Len(order) + 1 \in DOMAIN order'
      BY <1>a
    <3> QED BY <1>a, <1>c0, <3>1, <3>2, <3>3
  <2>3. DOMAIN Append(a, c) = 1..(Len(order) + 1) /\ Append(a, c)[Len(order) + 1] = c
        /\ \A k \in 1..Len(order) : Append(a, c)[k] = sccs[order[k]]
    <3> HIDE DEF a, Groups
    <3>1. c \in Groups
      BY DEF Groups
    <3> QED BY <1>a, <2>1, <3>1
  <2>4. b = Append(a, c)
    <3>1. b = [k \in 1..(Len(order) + 1) |-> b[k]]
      BY <2>2
    <3>2. Append(a, c) = [k \in 1..(Len(order) + 1) |-> Append(a, c)[k]]
      <4> HIDE DEF a, Groups
      <4>1. c \in Groups
        BY DEF Groups
      <4>2. Append(a, c) \in Seq(Groups) /\ Len(Append(a, c)) = Len(order) + 1
        BY <2>1, <4>1
      <4> DEFINE x == Append(a, c)
      <4> HIDE DEF x
      <4>3. x \in Seq(Groups) /\ Len(x) = Len(order) + 1
        BY <4>2 DEF x
      <4>4. x = [k \in 1..(Len(order) + 1) |-> x[k]]
        BY <4>3
      <4> QED BY <4>4 DEF x
    <3>3. \A k \in 1..(Len(order) + 1) : b[k] = Append(a, c)[k]
      <4> HIDE DEF a, b
      <4> QED BY <1>a, <2>2, <2>3
    <3> HIDE DEF a, b
    <3> QED BY <3>1, <3>2, <3>3
  <2>5. [k \in DOMAIN order |-> sccs[order[k]]]' = b
    BY <1>a DEF tarjan
  <2> QED BY <2>4, <2>5
<1>4. refs' = refs
  BY <1>a
<1>5. Reference!Emit(c)
  BY <1>1, <1>2, <1>3, <1>4 DEF Reference!Emit
<1> QED BY <1>1, <1>5 DEF Reference!Next

LEMMA OthersStutter ==
  ASSUME IInv, [Next]_vars, ~ EmitComponent
  PROVE  UNCHANGED Reference!ovars
<1> SUFFICES /\ refs' = refs
             /\ [k \in DOMAIN order |-> sccs[order[k]]]' = [k \in DOMAIN order |-> sccs[order[k]]]
  BY DEF Reference!ovars
<1>1. CASE UNCHANGED <<refs, order, sccs>>
  BY <1>1
<1>2. CASE Root \/ Visit \/ Leave
  <2>1. phase = "tarjan" /\ UNCHANGED <<refs, order>>
    BY <1>2 DEF Root, Visit, Leave, kahn
  <2>2. DOMAIN order = {} /\ DOMAIN order' = {}
    BY <2>1 DEF IInv, TarjanInv, Phases
  <2> QED BY <2>1, <2>2
<1>3. CASE Check \/ BuildDag \/ EmitTypes \/ UNCHANGED vars
  BY <1>1, <1>3 DEF Check, BuildDag, EmitTypes, vars, tarjan, kahn
<1> QED BY <1>2, <1>3 DEF Next

(* Whatever order the search found the components in, they are emitted as   *)
(* the abstract order prescribes: a component after those it refers to, and *)
(* of those that may come next the one with the smallest name.              *)
THEOREM EmitsInReferenceOrder == Spec => Reference!Init /\ [][Reference!Next]_(Reference!ovars)
<1>1. Init => Reference!Init
  <2> SUFFICES ASSUME Init PROVE Reference!Init
    OBVIOUS
  <2>1. DOMAIN order = {}
    BY DEF Init
  <2> QED BY <2>1 DEF Init, Reference!Init, Reference!References
<1>2. IInv /\ [Next]_vars => [Reference!Next]_(Reference!ovars)
  BY StepRefines, OthersStutter
<1> QED BY <1>1, <1>2, Inductive, PTL DEF Spec

(* So a component only refers to itself and to components before it.        *)
THEOREM DependenciesEmittedFirst == Spec => []Reference!DependenciesFirst
<1>1. Abstract!Init /\ [][Abstract!Next]_(Abstract!ovars) => []Abstract!IInv
  BY Abstract!StepsInductive, IdsAssumption
<1>2. Reference!Init => Abstract!Init
  BY DEF Reference!Init, Abstract!Init, Reference!References, Abstract!References
<1>3. [Reference!Next]_(Reference!ovars) => [Abstract!Next]_(Abstract!ovars)
  BY DEF Reference!Next, Abstract!Next, Reference!ovars, Abstract!ovars, Reference!Emit, Abstract!Emit,
         Reference!Ready, Abstract!Ready, Reference!Needs, Abstract!Needs, Reference!Emitted, Abstract!Emitted,
         Reference!Components, Abstract!Components, Reference!Component, Abstract!Component,
         Reference!Reaches, Abstract!Reaches, Reference!Closed, Abstract!Closed, Reference!Min, Abstract!Min
<1>4. Abstract!IInv => Reference!DependenciesFirst
  BY DEF Abstract!IInv, Abstract!DependenciesFirst, Reference!DependenciesFirst, Reference!Needs, Abstract!Needs
<1> QED BY <1>1, <1>2, <1>3, <1>4, EmitsInReferenceOrder, PTL

(* canonicalize loses no type: when it is done every component is emitted,  *)
(* and none twice.                                                          *)
THEOREM EverythingEmitted ==
  Spec => [](phase = "done" =>
               /\ Reference!Emitted = Reference!Components /\ UNION Reference!Emitted = Ids
               /\ \A i, j \in DOMAIN order : i # j => sccs[order[i]] \cap sccs[order[j]] = {})
<1>1. ASSUME IInv, phase = "done"
      PROVE  /\ Reference!Emitted = Reference!Components /\ UNION Reference!Emitted = Ids
             /\ \A i, j \in DOMAIN order : i # j => sccs[order[i]] \cap sccs[order[j]] = {}
  <2>1. EmittedIndices = DOMAIN sccs /\ \A i, j \in DOMAIN order : i # j => order[i] # order[j]
    BY <1>1 DEF IInv, KahnInv
  <2>2. Popped = Ids /\ {sccs[i] : i \in DOMAIN sccs} = Reference!Components
    BY <1>1, AllFound DEF IInv, TarjanInv, Phases
  <2>3. Reference!Emitted = {sccs[i] : i \in DOMAIN sccs}
    BY <1>1, <2>1, EmittedFacts DEF IInv
  <2>4. UNION Reference!Emitted = Ids
    BY <2>2, <2>3 DEF Popped, Range
  <2>5. \A i, j \in DOMAIN sccs : i # j => sccs[i] \cap sccs[j] = {}
    <3>1. \A i, j \in DOMAIN sccs : i # j => sccs[i] # sccs[j]
      BY <1>1 DEF IInv, TarjanInv, Found
    <3>2. \A i \in DOMAIN sccs : sccs[i] \in Reference!Components
      BY <1>1 DEF IInv, TarjanInv, Found
    <3> QED BY <3>1, <3>2, ComponentsApart
  <2>6. \A i \in DOMAIN order : order[i] \in DOMAIN sccs
    BY <2>1 DEF EmittedIndices, Range
  <2> QED BY <2>1, <2>2, <2>3, <2>4, <2>5, <2>6
<1> QED BY <1>1, Inductive, PTL

-----------------------------------------------------------------------------
(* What EmitTypes computes.                                                 *)

Ascending(s) == \A i, j \in DOMAIN s : i < j => s[i] < s[j]

LEMMA CanBeSorted ==
  ASSUME NEW c, IsFiniteSet(c), c \subseteq Nat
  PROVE  \E s \in [1..Cardinality(c) -> c] : Ascending(s)
<1> DEFINE G == {d \in SUBSET c : \E s \in [1..Cardinality(d) -> d] : Ascending(s)}
<1>0. \A d \in SUBSET c : IsFiniteSet(d) /\ Cardinality(d) \in Nat
  BY FS_Subset, FS_CardinalityType
<1>1. ASSUME NEW d \in SUBSET c, \A x \in d : d \ {x} \in G PROVE d \in G
  <2>1. CASE d = {}
    <3>1. Cardinality(d) = 0
      BY <2>1, FS_EmptySet
    <3>2. <<>> \in [1..Cardinality(d) -> d] /\ Ascending(<<>>)
      BY <3>1 DEF Ascending
    <3> QED BY <3>2
  <2>2. CASE d # {}
    <3> DEFINE m == Min(d)
    <3>1. m \in d /\ \A x \in d : m <= x
      BY <2>2, MinFacts
    <3> HIDE DEF m
    <3>2. PICK s \in [1..Cardinality(d \ {m}) -> d \ {m}] : Ascending(s)
      BY <1>1, <3>1
    <3> DEFINE n == Cardinality(d)
    <3>3. n \in Nat /\ Cardinality(d \ {m}) = n - 1 /\ n - 1 \in Nat
      BY <1>0, <3>1, FS_RemoveElement
    <3> HIDE DEF n
    <3> DEFINE q == [i \in 1..n |-> IF i = 1 THEN m ELSE s[i - 1]]
    <3>4. \A i \in 1..n : i # 1 => i - 1 \in 1..(n - 1) /\ s[i - 1] \in d /\ s[i - 1] # m
      <4>1. s \in [1..(n - 1) -> d \ {m}]
        BY <3>2, <3>3
      <4>2. \A i \in 1..n : i # 1 => i - 1 \in 1..(n - 1)
        BY <3>3
      <4> QED BY <4>1, <4>2
    <3>5. q \in [1..n -> d]
      BY <3>1, <3>4
    <3>6. Ascending(q)
      <4> SUFFICES ASSUME NEW i \in 1..n, NEW j \in 1..n, i < j PROVE q[i] < q[j]
        BY DEF Ascending
      <4>1. j # 1 /\ q[j] = s[j - 1]
        BY <3>3
      <4>2. CASE i = 1
        <5>1. m <= s[j - 1] /\ s[j - 1] # m /\ m \in Nat /\ s[j - 1] \in Nat
          BY <3>1, <3>4, <4>1
        <5> QED BY <4>1, <4>2, <5>1
      <4>3. CASE i # 1
        <5>1. i - 1 \in DOMAIN s /\ j - 1 \in DOMAIN s /\ i - 1 < j - 1
          BY <3>2, <3>3, <3>4, <4>1, <4>3
        <5>2. s[i - 1] < s[j - 1]
          BY <3>2, <5>1 DEF Ascending
        <5> QED BY <4>1, <4>3, <5>2
      <4> QED BY <4>2, <4>3
    <3> HIDE DEF q
    <3> QED BY <3>5, <3>6 DEF n
  <2> QED BY <2>1, <2>2
<1>2. SUBSET c \subseteq G
  <2> HIDE DEF G
  <2> QED BY <1>1, SubsetInduct
<1> QED BY <1>2

LEMMA MembersFacts ==
  ASSUME NEW c, IsFiniteSet(c), c \subseteq Nat
  PROVE  /\ Members(c) \in Seq(c) /\ Range(Members(c)) = c /\ IsInjective(Members(c))
<1> DEFINE s == Members(c)
           n == Cardinality(c)
<1>1. s \in [1..n -> c] /\ Ascending(s)
  BY CanBeSorted DEF Members, Ascending
<1> HIDE DEF s
<1>2. n \in Nat
  BY FS_CardinalityType
<1>3. IsInjective(s)
  <2> SUFFICES ASSUME NEW i \in 1..n, NEW j \in 1..n, i # j PROVE s[i] # s[j]
    BY <1>1 DEF IsInjective
  <2>1. i < j \/ j < i
    BY <1>2
  <2>2. s[i] < s[j] \/ s[j] < s[i]
    BY <1>1, <2>1 DEF Ascending
  <2>3. s[i] \in Nat /\ s[j] \in Nat
    BY <1>1
  <2> QED BY <2>2, <2>3
<1>4. s \in Injection(1..n, c)
  BY <1>1, <1>3 DEF Injection, IsInjective
<1>5. IsFiniteSet(1..n) /\ Cardinality(1..n) = n
  <2> HIDE DEF n
  <2> QED BY <1>2, FS_Interval
<1>6. s \in Surjection(1..n, c)
  BY <1>4, <1>5, FS_Injection
<1>7. Range(s) = c
  BY <1>1, <1>6 DEF Surjection, Range
<1>8. s \in Seq(c)
  BY <1>1, <1>2
<1> QED BY <1>3, <1>7, <1>8 DEF s

Holds(s, x) == \E k \in DOMAIN s : s[k] = x

LEMMA AppendHolds ==
  ASSUME NEW X, NEW s \in Seq(X), NEW y \in X
  PROVE  Append(s, y) \in Seq(X) /\ \A x : Holds(Append(s, y), x) <=> Holds(s, x) \/ x = y
<1> DEFINE a == Append(s, y)
           m == Len(s)
<1>1. /\ a \in Seq(X) /\ m \in Nat /\ DOMAIN s = 1..m /\ DOMAIN a = 1..(m + 1)
      /\ a[m + 1] = y /\ \A k \in 1..m : a[k] = s[k]
  OBVIOUS
<1> HIDE DEF a, m
<1>2. \A k \in 1..(m + 1) : k \in 1..m \/ k = m + 1
  BY <1>1
<1>3. m + 1 \in 1..(m + 1) /\ \A k \in 1..m : k \in 1..(m + 1)
  BY <1>1
<1>4. \A x : Holds(a, x) <=> Holds(s, x) \/ x = y
  BY <1>1, <1>2, <1>3 DEF Holds
<1> QED BY <1>1, <1>4 DEF a

LEMMA GroupsFacts ==
  ASSUME NEW X, NEW parts \in Seq(Seq(X))
  PROVE  \A x : Holds(RecursionGroups(parts), x) <=> Holds(parts, x) /\ Recursive(Range(x))
<1> DEFINE N == Len(parts)
           S == Seq(X)
           T == Seq(S)
           Keeps(f) == f = [n \in 0..N |-> IF n = 0 THEN <<>>
                                           ELSE IF Recursive(Range(parts[n])) THEN Append(f[n - 1], parts[n])
                                           ELSE f[n - 1]]
           f == CHOOSE f : Keeps(f)
<1>0. N \in Nat /\ DOMAIN parts = 1..N /\ \A k \in 1..N : parts[k] \in S
  OBVIOUS
<1>1. RecursionGroups(parts) = f[N]
  BY DEF RecursionGroups
<1>2. <<>> \in T
  OBVIOUS
<1>2a. \A n \in 1..N : \A x \in T : Append(x, parts[n]) \in T
  <2> HIDE DEF S, N
  <2> QED BY <1>0
<1> HIDE DEF N, S, T
<1>3. \E g : Keeps(g)
  <2> DEFINE h == [n \in 1..N |-> [x \in T |-> IF Recursive(Range(parts[n])) THEN Append(x, parts[n]) ELSE x]]
  <2>1. IsStep(h, N, T)
    BY <1>2a DEF IsStep
  <2>2. \A n \in 1..N : \A x \in T : h[n][x] = IF Recursive(Range(parts[n])) THEN Append(x, parts[n]) ELSE x
    OBVIOUS
  <2> HIDE DEF h
  <2>3. PICK g : Iterates(g, h, <<>>, N, T)
    BY <1>0, <1>2, <2>1, PrimitiveRecursion
  <2>4. g \in [0..N -> T] /\ g[0] = <<>> /\ \A n \in 1..N : g[n] = h[n][g[n - 1]]
    BY <2>3 DEF Iterates
  <2>5. \A n \in 0..N : n # 0 => n \in 1..N /\ n - 1 \in 0..N
    BY <1>0
  <2>6. \A n \in 0..N : g[n] = IF n = 0 THEN <<>>
                               ELSE IF Recursive(Range(parts[n])) THEN Append(g[n - 1], parts[n])
                               ELSE g[n - 1]
    <3> SUFFICES ASSUME NEW n \in 0..N
                 PROVE  g[n] = IF n = 0 THEN <<>>
                               ELSE IF Recursive(Range(parts[n])) THEN Append(g[n - 1], parts[n])
                               ELSE g[n - 1]
      OBVIOUS
    <3>1. CASE n = 0
      BY <2>4, <3>1
    <3>2. CASE n # 0
      <4>1. n \in 1..N /\ n - 1 \in 0..N
        BY <2>5, <3>2
      <4>2. g[n - 1] \in T /\ g[n] = h[n][g[n - 1]]
        BY <2>4, <4>1
      <4>3. h[n][g[n - 1]] = IF Recursive(Range(parts[n])) THEN Append(g[n - 1], parts[n]) ELSE g[n - 1]
        BY <2>2, <4>1, <4>2
      <4> QED BY <3>2, <4>2, <4>3
    <3> QED BY <3>1, <3>2
  <2>7. g = [n \in 0..N |-> g[n]]
    BY <2>4
  <2>8. Keeps(g)
    BY <2>6, <2>7
  <2> QED BY <2>8
<1>4. Keeps(f)
  BY <1>3
<1> HIDE DEF f
<1>5. \A n \in 0..N : f[n] = IF n = 0 THEN <<>>
                             ELSE IF Recursive(Range(parts[n])) THEN Append(f[n - 1], parts[n])
                             ELSE f[n - 1]
  BY <1>4
<1> HIDE DEF Keeps
<1> DEFINE Right(n) == /\ f[n] \in T
                       /\ \A x : Holds(f[n], x) <=> \E i \in 1..n : parts[i] = x /\ Recursive(Range(x))
           G == {n \in Nat : n <= N => Right(n)}
<1>6. 0 \in G
  <2>1. f[0] = <<>>
    BY <1>0, <1>5
  <2> QED BY <1>2, <2>1 DEF Holds
<1>7. ASSUME NEW n \in Nat, n \in G PROVE n + 1 \in G
  <2> SUFFICES ASSUME n + 1 <= N PROVE Right(n + 1)
    OBVIOUS
  <2>1. Right(n)
    BY <1>7, <1>0
  <2>2. n + 1 \in 0..N /\ n + 1 # 0 /\ (n + 1) - 1 = n /\ n + 1 \in 1..N
    BY <1>0
  <2>3. f[n + 1] = IF Recursive(Range(parts[n + 1])) THEN Append(f[n], parts[n + 1]) ELSE f[n]
    BY <1>5, <2>2
  <2>4. \A i \in 1..(n + 1) : i \in 1..n \/ i = n + 1
    OBVIOUS
  <2>4a. n + 1 \in 1..(n + 1) /\ \A i \in 1..n : i \in 1..(n + 1)
    OBVIOUS
  <2>5. CASE Recursive(Range(parts[n + 1]))
    <3>1. f[n + 1] = Append(f[n], parts[n + 1])
      BY <2>3, <2>5
    <3>2. f[n + 1] \in T /\ \A x : Holds(f[n + 1], x) <=> Holds(f[n], x) \/ x = parts[n + 1]
      BY <1>0, <2>1, <2>2, <3>1, AppendHolds DEF T
    <3>3. ASSUME NEW x
          PROVE  Holds(f[n + 1], x) <=> \E i \in 1..(n + 1) : parts[i] = x /\ Recursive(Range(x))
      BY <2>1, <2>4, <2>4a, <2>5, <3>2
    <3> QED BY <3>2, <3>3
  <2>6. CASE ~ Recursive(Range(parts[n + 1]))
    <3>1. f[n + 1] = f[n]
      BY <2>3, <2>6
    <3>3. ASSUME NEW x
          PROVE  Holds(f[n + 1], x) <=> \E i \in 1..(n + 1) : parts[i] = x /\ Recursive(Range(x))
      BY <2>1, <2>4, <2>4a, <2>6, <3>1
    <3> QED BY <2>1, <3>1, <3>3
  <2> QED BY <2>5, <2>6
<1>8. N \in G
  <2>1. Nat \subseteq G
    <3> HIDE DEF G
    <3> QED BY <1>6, <1>7, NatInduct
  <2> QED BY <1>0, <2>1
<1>9. Right(N)
  BY <1>0, <1>8
<1> QED BY <1>0, <1>1, <1>9 DEF Holds

-----------------------------------------------------------------------------
(* The IR.                                                                  *)

IrInv == phase = "done" => sorted = FlattenSeq(Parts) /\ groups = RecursionGroups(Parts)

LEMMA IrInductive == Spec => []IrInv
<1>1. Init => IrInv
  BY DEF Init, IrInv
<1>2. IrInv /\ [Next]_vars => IrInv'
  <2> SUFFICES ASSUME IrInv, [Next]_vars PROVE IrInv'
    OBVIOUS
  <2>1. CASE EmitTypes
    <3>1. Parts' = Parts /\ UNCHANGED <<refs, order, sccs>>
      BY <2>1 DEF EmitTypes, Parts, kahn, tarjan
    <3>2. RecursionGroups(Parts)' = RecursionGroups(Parts)
      BY <3>1 DEF RecursionGroups, Recursive
    <3> QED BY <2>1, <3>1, <3>2 DEF EmitTypes, IrInv
  <2>2. CASE UNCHANGED vars
    <3>1. Parts' = Parts /\ UNCHANGED <<refs, order, sccs, phase, sorted, groups>>
      BY <2>2 DEF vars, Parts, kahn, tarjan, result
    <3>2. RecursionGroups(Parts)' = RecursionGroups(Parts)
      BY <3>1 DEF RecursionGroups, Recursive
    <3> QED BY <3>1, <3>2 DEF IrInv
  <2>3. CASE Check \/ Root \/ Visit \/ Leave \/ BuildDag \/ EmitComponent
    BY <2>3 DEF Check, Root, Visit, Leave, BuildDag, EmitComponent, IrInv
  <2> QED BY <2>1, <2>2, <2>3 DEF Next
<1> QED BY <1>1, <1>2, PTL DEF Spec

LEMMA ComponentIn ==
  ASSUME NEW c \in Reference!Components, NEW t \in c, NEW r \in c
  PROVE  t \in Ids /\ To(t, r) /\ IsFiniteSet(c) /\ c \subseteq Ids
<1>1. PICK u \in Ids : c = Reference!Component(u)
  BY DEF Reference!Components
<1>2. c = {v \in Ids : To(u, v) /\ To(v, u)}
  BY <1>1, ComponentFacts
<1>3. t \in Ids /\ r \in Ids /\ To(t, u) /\ To(u, r)
  BY <1>2
<1>4. To(t, r)
  BY <1>1, <1>3, ToTransitive
<1>5. IsFiniteSet(c)
  BY <1>2, IdsAssumption, FS_Subset
<1> QED BY <1>2, <1>3, <1>4, <1>5

(* Two types in one component make it a recursion group.                    *)
LEMMA TwoAreRecursive ==
  ASSUME NEW c, IsFiniteSet(c), NEW t \in c, NEW r \in c, r \in refs[t]
  PROVE  Recursive(c)
<1>1. CASE t = r
  BY <1>1 DEF Recursive
<1>2. CASE t # r
  <2>1. IsFiniteSet({t}) /\ Cardinality({t}) = 1
    BY FS_Singleton
  <2>2. IsFiniteSet({t, r}) /\ Cardinality({t, r}) = 2
    <3>1. r \notin {t}
      BY <1>2
    <3>2. {t} \union {r} = {t, r}
      OBVIOUS
    <3>3. PICK S : S = {t}
      OBVIOUS
    <3>4. IsFiniteSet(S) /\ Cardinality(S) = 1 /\ r \notin S
      BY <2>1, <3>1, <3>3
    <3>5. IsFiniteSet(S \union {r}) /\ Cardinality(S \union {r}) = Cardinality(S) + 1
      BY <3>4, FS_AddElement
    <3>6. S \union {r} = {t, r}
      BY <3>2, <3>3
    <3> QED BY <3>4, <3>5, <3>6
  <2>3. Cardinality({t, r}) <= Cardinality(c) /\ Cardinality(c) \in Nat
    BY FS_Subset, FS_CardinalityType
  <2> QED BY <2>2, <2>3 DEF Recursive
<1> QED BY <1>1, <1>2

LEMMA DoneFacts ==
  ASSUME IInv, Reference!DependenciesFirst, phase = "done", NEW n, n = Len(order)
  PROVE  /\ n \in Nat /\ DOMAIN order = 1..n
         /\ \A k \in 1..n : /\ sccs[order[k]] \in Reference!Components
                            /\ sccs[order[k]] \subseteq Ids /\ IsFiniteSet(sccs[order[k]])
         /\ \A k, l \in 1..n : k # l => sccs[order[k]] \cap sccs[order[l]] = {}
         /\ \A c : c \in Reference!Components <=> \E k \in 1..n : c = sccs[order[k]]
         /\ \A t \in Ids : \E k \in 1..n : t \in sccs[order[k]]
         /\ \A k \in 1..n : \A t \in sccs[order[k]] : \A r \in Known(t) : r \notin sccs[order[k]] =>
              \E j \in 1..(k - 1) : r \in sccs[order[j]]
<1>1. n \in Nat /\ DOMAIN order = 1..n
  BY DEF IInv, TarjanInv, TypeInv
<1>2. /\ EmittedIndices = DOMAIN sccs
      /\ \A i, j \in DOMAIN order : i # j => order[i] # order[j]
  BY DEF IInv, KahnInv
<1>3. \A k \in 1..n : order[k] \in DOMAIN sccs
  BY <1>1, <1>2 DEF EmittedIndices, Range
<1>4. \A i \in DOMAIN sccs : \E k \in 1..n : order[k] = i
  BY <1>1, <1>2 DEF EmittedIndices, Range
<1>5. Popped = Ids /\ {sccs[i] : i \in DOMAIN sccs} = Reference!Components
  BY AllFound DEF IInv, TarjanInv, Phases
<1>6. \A i \in DOMAIN sccs : sccs[i] \in Reference!Components /\ sccs[i] \subseteq Ids /\ IsFiniteSet(sccs[i])
  <2>1. \A i \in DOMAIN sccs : sccs[i] \subseteq Ids
    BY Shape DEF IInv, TarjanInv
  <2> QED BY <1>5, <2>1, IdsAssumption, FS_Subset
<1>7. \A i, j \in DOMAIN sccs : i # j => sccs[i] \cap sccs[j] = {}
  <2>1. \A i, j \in DOMAIN sccs : i # j => sccs[i] # sccs[j]
    BY DEF IInv, TarjanInv, Found
  <2> QED BY <1>6, <2>1, ComponentsApart
<1>8. \A t \in Ids : \E k \in 1..n : t \in sccs[order[k]]
  <2>1. \A t \in Ids : \E i \in DOMAIN sccs : t \in sccs[i]
    BY <1>5 DEF Popped, Range
  <2> QED BY <1>4, <2>1
<1>9. \A c : c \in Reference!Components <=> \E k \in 1..n : c = sccs[order[k]]
  <2>1. \A c : c \in Reference!Components <=> \E i \in DOMAIN sccs : c = sccs[i]
    BY <1>5
  <2> QED BY <1>3, <1>4, <2>1
<1>10. ASSUME NEW k \in 1..n, NEW t \in sccs[order[k]], NEW r \in Known(t), r \notin sccs[order[k]]
       PROVE  \E j \in 1..(k - 1) : r \in sccs[order[j]]
  <2> DEFINE a == [m \in DOMAIN order |-> sccs[order[m]]]
  <2>1. \A i \in DOMAIN a : Reference!Needs(a[i]) \subseteq UNION {a[j] : j \in 1..(i - 1)}
    BY DEF Reference!DependenciesFirst
  <2>2. DOMAIN a = 1..n /\ \A m \in 1..n : a[m] = sccs[order[m]]
    BY <1>1
  <2> HIDE DEF a
  <2>3. r \in Reference!Needs(a[k])
    BY <1>10, <2>2 DEF Reference!Needs, Known
  <2>4. PICK j \in 1..(k - 1) : r \in a[j]
    BY <2>1, <2>2, <2>3
  <2>5. j \in 1..n
    BY <1>1
  <2> QED BY <2>2, <2>4, <2>5
<1>11. \A k, l \in 1..n : k # l => sccs[order[k]] \cap sccs[order[l]] = {}
  <2> SUFFICES ASSUME NEW k \in 1..n, NEW l \in 1..n, k # l
               PROVE  sccs[order[k]] \cap sccs[order[l]] = {}
    OBVIOUS
  <2>1. order[k] # order[l]
    BY <1>1, <1>2
  <2> QED BY <1>3, <1>7, <2>1
<1>12. \A k \in 1..n : /\ sccs[order[k]] \in Reference!Components
                       /\ sccs[order[k]] \subseteq Ids /\ IsFiniteSet(sccs[order[k]])
  BY <1>3, <1>6
<1> QED BY <1>1, <1>8, <1>9, <1>10, <1>11, <1>12

LEMMA IrLemma ==
  ASSUME IInv, IrInv, Reference!DependenciesFirst
  PROVE  IrOrdered
<1> SUFFICES ASSUME phase = "done"
             PROVE  /\ Len(sorted) = Count /\ Range(sorted) = Ids
                    /\ \A t \in Ids : \A r \in Known(t) :
                         \/ Position(r) < Position(t)
                         \/ /\ Grouped(t, r)
                            /\ \A k \in Position(t)..Position(r) : Grouped(t, sorted[k])
                    /\ {Range(groups[k]) : k \in DOMAIN groups} = {c \in Reference!Components : Recursive(c)}
  BY DEF IrOrdered
<1> DEFINE n == Len(order)
           C(k) == sccs[order[k]]
<1>1. /\ n \in Nat /\ DOMAIN order = 1..n
      /\ \A k \in 1..n : C(k) \in Reference!Components /\ C(k) \subseteq Ids /\ IsFiniteSet(C(k))
      /\ \A k, l \in 1..n : k # l => C(k) \cap C(l) = {}
      /\ \A c : c \in Reference!Components <=> \E k \in 1..n : c = C(k)
      /\ \A t \in Ids : \E k \in 1..n : t \in C(k)
      /\ \A k \in 1..n : \A t \in C(k) : \A r \in Known(t) : r \notin C(k) =>
           \E j \in 1..(k - 1) : r \in C(j)
  BY DoneFacts
<1> HIDE DEF n
<1>2. /\ Parts \in Seq(Seq(Ids)) /\ DOMAIN Parts = 1..n /\ Len(Parts) = n
      /\ \A k \in 1..n : Parts[k] \in Seq(Ids) /\ Range(Parts[k]) = C(k) /\ IsInjective(Parts[k])
  <2>1. Parts = [k \in 1..n |-> Members(C(k))]
    BY <1>1 DEF Parts
  <2>2. ASSUME NEW k \in 1..n
        PROVE  Members(C(k)) \in Seq(Ids) /\ Range(Members(C(k))) = C(k) /\ IsInjective(Members(C(k)))
    <3>1. IsFiniteSet(C(k)) /\ C(k) \subseteq Nat /\ C(k) \subseteq Ids
      BY <1>1, IdsAssumption
    <3> HIDE DEF C
    <3>2. Members(C(k)) \in Seq(C(k)) /\ Range(Members(C(k))) = C(k) /\ IsInjective(Members(C(k)))
      BY <3>1, MembersFacts
    <3> QED BY <3>1, <3>2
  <2> DEFINE S == Seq(Ids)
  <2>3. Parts \in Seq(S) /\ Len(Parts) = n
    <3>1. \A k \in 1..n : Members(C(k)) \in S
      BY <2>2
    <3> HIDE DEF S, C
    <3> QED BY <1>1, <2>1, <3>1
  <2> HIDE DEF C
  <2> QED BY <2>1, <2>2, <2>3
<1>3. sorted \in Seq(Ids) /\ Blocks(Parts, n, sorted)
  <2>1. sorted = FlattenSeq(Parts)
    BY DEF IrInv
  <2>2. \A k, l \in DOMAIN Parts : k # l => Range(Parts[k]) \cap Range(Parts[l]) = {}
    <3> SUFFICES ASSUME NEW k \in DOMAIN Parts, NEW l \in DOMAIN Parts, k # l
                 PROVE  Range(Parts[k]) \cap Range(Parts[l]) = {}
      OBVIOUS
    <3>1. k \in 1..n /\ l \in 1..n
      BY <1>2
    <3>2. Range(Parts[k]) = C(k) /\ Range(Parts[l]) = C(l)
      BY <1>2, <3>1
    <3>3. C(k) \cap C(l) = {}
      BY <1>1, <3>1
    <3> QED BY <3>2, <3>3
  <2> HIDE DEF C
  <2> QED BY <1>2, <2>1, <2>2, FlattenBlocks
<1>4. \A x : Holds(groups, x) <=> Holds(Parts, x) /\ Recursive(Range(x))
  BY <1>2, GroupsFacts DEF IrInv
<1> DEFINE m == Len(sorted)
<1>5. m \in Nat /\ DOMAIN sorted = 1..m /\ \A i \in 1..m : sorted[i] \in Ids
  BY <1>3
<1>6. IsInjective(sorted) /\ Range(sorted) = Ids
  <2>1. \A x : x \in Range(sorted) <=> \E k \in 1..n : x \in C(k)
    BY <1>2, <1>3, ZenonT(60) DEF Blocks
  <2> QED BY <1>1, <1>3, <2>1 DEF Blocks
<1>7. \A a, b \in 1..m : \A k, l \in 1..n : sorted[a] \in C(k) /\ sorted[b] \in C(l) /\ k < l => a < b
  BY <1>2, <1>3, <1>5 DEF Blocks
<1> HIDE DEF m, C
<1>8. m = Count
  <2>1. sorted \in Injection(1..m, Ids)
    <3>1. sorted \in [1..m -> Ids]
      BY <1>3, <1>5
    <3> QED BY <1>5, <1>6, <3>1 DEF Injection, IsInjective
  <2>2. sorted \in Surjection(1..m, Ids)
    <3>1. sorted \in [1..m -> Ids]
      BY <1>3, <1>5
    <3> QED BY <1>5, <1>6, <3>1 DEF Surjection, Range
  <2>3. Cardinality(1..m) = m
    BY <1>5, FS_Interval
  <2>4. Cardinality(1..m) = Cardinality(Ids)
    BY <2>1, <2>2, FS_Injection, IdsAssumption
  <2> QED BY <2>3, <2>4 DEF Count
<1>9. \A t \in Ids : Position(t) \in 1..m /\ sorted[Position(t)] = t
  <2>1. \A t \in Ids : \E k \in 1..m : sorted[k] = t
    BY <1>5, <1>6 DEF Range
  <2> QED BY <1>5, <2>1 DEF Position
<1>10. ASSUME NEW k \in 1..n, Recursive(C(k)), NEW t \in C(k), NEW r \in C(k)
       PROVE  Grouped(t, r)
  <2>1. Holds(Parts, Parts[k]) /\ Range(Parts[k]) = C(k)
    BY <1>2 DEF Holds
  <2>2. Holds(groups, Parts[k])
    BY <1>4, <1>10, <2>1
  <2> QED BY <2>1, <2>2 DEF Holds, Grouped
<1>11. ASSUME NEW t \in Ids, NEW r \in Known(t)
       PROVE  \/ Position(r) < Position(t)
              \/ /\ Grouped(t, r)
                 /\ \A k \in Position(t)..Position(r) : Grouped(t, sorted[k])
  <2>1. PICK k \in 1..n : t \in C(k)
    BY <1>1
  <2>2. r \in Ids /\ r \in refs[t]
    BY DEF Known
  <2>3. CASE r \notin C(k)
    <3>1. PICK j \in 1..(k - 1) : r \in C(j)
      BY <1>1, <2>1, <2>3
    <3>2. j \in 1..n /\ j < k
      BY <1>1
    <3>3. Position(r) < Position(t)
      BY <1>7, <1>9, <2>1, <2>2, <3>1, <3>2
    <3> QED BY <3>3
  <2>4. CASE r \in C(k)
    <3>1. Recursive(C(k))
      BY <1>1, <2>1, <2>2, <2>4, TwoAreRecursive
    <3>2. Grouped(t, r)
      BY <1>10, <2>1, <2>4, <3>1
    <3>3. ASSUME NEW i \in Position(t)..Position(r) PROVE Grouped(t, sorted[i])
      <4>1. i \in 1..m /\ Position(t) \in 1..m /\ Position(r) \in 1..m
        BY <1>5, <1>9, <2>2
      <4>2. PICK l \in 1..n : sorted[i] \in C(l)
        BY <1>1, <1>5, <4>1
      <4>3. ~ (l < k)
        <5>1. l < k => i < Position(t)
          BY <1>7, <1>9, <2>1, <4>1, <4>2
        <5> QED BY <4>1, <5>1
      <4>4. ~ (k < l)
        <5>1. k < l => Position(r) < i
          BY <1>7, <1>9, <2>2, <2>4, <4>1, <4>2
        <5> QED BY <4>1, <5>1
      <4>5. l = k
        BY <1>1, <4>3, <4>4
      <4> QED BY <1>10, <2>1, <3>1, <4>2, <4>5
    <3> QED BY <3>2, <3>3
  <2> QED BY <2>3, <2>4
<1>12. {Range(groups[k]) : k \in DOMAIN groups} = {c \in Reference!Components : Recursive(c)}
  <2>1. ASSUME NEW k \in DOMAIN groups
        PROVE  Range(groups[k]) \in Reference!Components /\ Recursive(Range(groups[k]))
    <3>1. Holds(groups, groups[k])
      BY DEF Holds
    <3>2. Holds(Parts, groups[k]) /\ Recursive(Range(groups[k]))
      BY <1>4, <3>1
    <3>3. PICK i \in 1..n : Parts[i] = groups[k]
      BY <1>2, <3>2 DEF Holds
    <3> QED BY <1>1, <1>2, <3>2, <3>3
  <2>2. ASSUME NEW c \in Reference!Components, Recursive(c)
        PROVE  \E k \in DOMAIN groups : Range(groups[k]) = c
    <3>1. PICK k \in 1..n : c = C(k)
      BY <1>1
    <3>2. Holds(Parts, Parts[k]) /\ Range(Parts[k]) = c
      BY <1>2, <3>1 DEF Holds
    <3>3. Holds(groups, Parts[k])
      BY <1>4, <2>2, <3>2
    <3> QED BY <3>2, <3>3 DEF Holds
  <2> QED BY <2>1, <2>2
<1> QED BY <1>6, <1>8, <1>11, <1>12 DEF m

(* The IR has every type once; a reference to a later type only occurs      *)
(* inside a recursion group, whose types stand next to each other; and the  *)
(* groups are exactly the cycles: for every finite set of types and every   *)
(* reference graph on it.                                                   *)
THEOREM IrIsOrdered == Spec => []IrOrdered
BY Inductive, IrInductive, DependenciesEmittedFirst, IrLemma, PTL
=============================================================================
