-------------------------- MODULE OperationWalkProofs --------------------------
(***************************************************************************)
(* Proofs about OperationWalk: for every description, whatever refers to   *)
(* whatever, the current document and the references in progress are those *)
(* of the values being read, and no reference is followed inside itself;   *)
(* no two operations have the same id, and what a callback keeps are ids   *)
(* of operations of the IR.                                                *)
(***************************************************************************)
EXTENDS OperationWalk, SequenceLemmas, FiniteSetTheorems, SequenceTheorems, TLAPS

(* A frame remembers a document, and the references it followed, each once. *)
GoodFrame(f) ==
  /\ {"prev", "keys"} \subseteq DOMAIN f
  /\ f.keys \in Seq(Range(f.keys))
  /\ IsFiniteSet(Range(f.keys))
  /\ Cardinality(Range(f.keys)) = Len(f.keys)

(* What a stack of frames s, a current document c and a set w of references *)
(* in progress have to do with each other.                                  *)
WellFormed(s) == s \in Seq(Range(s)) /\ \A i \in DOMAIN s : GoodFrame(s[i])
Documents(s, c) ==
  /\ c = Below(s, 0)
  /\ \A i \in DOMAIN s : s[i].prev = Below(s, i)
Progress(s, w) ==
  /\ w = UNION {Range(f.keys) : f \in Range(s)}
  /\ \A i, j \in DOMAIN s : i # j => Range(s[i].keys) \cap Range(s[j].keys) = {}
Consistent(s, c, w) == WellFormed(s) /\ Documents(s, c) /\ Progress(s, w)

(* The inductive invariant. *)
IInv ==
  /\ Consistent(stack, current, walking)
  /\ pc \in {"begin", "root", "done"} => stack = <<>>
  /\ pc \in {"enter", "parts", "leave"} => stack # <<>>

-----------------------------------------------------------------------------
(* Frames. *)

(* A value that has just been reached has followed nothing. *)
LEMMA NewFrame ==
  ASSUME NEW part
  PROVE  /\ GoodFrame(Frame(part)) /\ Frame(part).prev = current
         /\ Frame(part).keys = <<>> /\ Document(Frame(part)) = current
         /\ Range(Frame(part).keys) = {}
<1> DEFINE f == Frame(part)
<1>1. f.prev = current /\ f.keys = <<>> /\ {"prev", "keys"} \subseteq DOMAIN f
  BY DEF Frame
<1> HIDE DEF f
<1>2. Range(<<>>) = {} /\ <<>> \in Seq({}) /\ Len(<<>>) = 0
  BY DEF Range
<1>3. IsFiniteSet({}) /\ Cardinality({}) = 0
  BY FS_EmptySet
<1> QED BY <1>1, <1>2, <1>3 DEF GoodFrame, Document, f

(* A frame in which only the position and the results change. *)
LEMMA SameKeys ==
  ASSUME NEW f, GoodFrame(f), NEW g, DOMAIN g = DOMAIN f, g.keys = f.keys, g.prev = f.prev
  PROVE  GoodFrame(g) /\ Document(g) = Document(f)
BY DEF GoodFrame, Document

(* A frame follows one more reference. *)
LEMMA OneMoreKey ==
  ASSUME NEW f, GoodFrame(f), NEW key, key \notin Range(f.keys),
         NEW g, DOMAIN g = DOMAIN f, g.keys = Append(f.keys, key)
  PROVE  /\ GoodFrame(g) /\ Document(g) = key[1]
         /\ Range(g.keys) = Range(f.keys) \union {key}
<1> DEFINE k == f.keys
           n == Len(k)
           S == Range(k) \union {key}
<1>1. k \in Seq(Range(k)) /\ IsFiniteSet(Range(k)) /\ Cardinality(Range(k)) = n
  BY DEF GoodFrame
<1>2. n \in Nat /\ DOMAIN k = 1..n /\ k \in Seq(S)
  BY <1>1
<1>3. /\ g.keys \in Seq(S) /\ Len(g.keys) = n + 1 /\ DOMAIN g.keys = 1..(n + 1)
      /\ g.keys[n + 1] = key /\ \A i \in 1..n : g.keys[i] = k[i]
  BY <1>2
<1> HIDE DEF n
<1>4. Range(g.keys) = S
  <2>1. ASSUME NEW i \in 1..(n + 1) PROVE g.keys[i] \in S
    <3>1. CASE i = n + 1
      BY <3>1, <1>3
    <3>2. CASE i # n + 1
      <4>1. i \in 1..n
        BY <2>1, <3>2, <1>2
      <4>2. g.keys[i] = k[i] /\ k[i] \in Range(k)
        BY <4>1, <1>2, <1>3 DEF Range
      <4> QED BY <4>2
    <3> QED BY <3>1, <3>2
  <2>2. n + 1 \in 1..(n + 1) /\ \A i \in 1..n : i \in 1..(n + 1)
    BY <1>2
  <2>3. ASSUME NEW x \in S PROVE \E i \in 1..(n + 1) : g.keys[i] = x
    <3>1. CASE x = key
      BY <3>1, <2>2, <1>3
    <3>2. CASE x \in Range(k)
      <4>1. PICK i \in 1..n : k[i] = x
        BY <3>2, <1>2 DEF Range
      <4> QED BY <4>1, <2>2, <1>3
    <3> QED BY <2>3, <3>1, <3>2
  <2>4. Range(g.keys) = {g.keys[i] : i \in 1..(n + 1)}
    BY <1>3 DEF Range
  <2> HIDE DEF S
  <2> QED BY <2>1, <2>3, <2>4
<1>5. IsFiniteSet(S) /\ Cardinality(S) = n + 1
  BY <1>1, <1>2, FS_AddElement
<1>6. g.keys # <<>> /\ g.keys[Len(g.keys)] = key
  BY <1>2, <1>3, SMTT(30)
<1>7. {"prev", "keys"} \subseteq DOMAIN g
  BY DEF GoodFrame
<1> QED BY <1>3, <1>4, <1>5, <1>6, <1>7 DEF GoodFrame, Document

-----------------------------------------------------------------------------
(* Stacks. *)

(* A value is read whose references nobody else follows. *)
LEMMA PushConsistent ==
  ASSUME NEW s, NEW c, NEW w, Consistent(s, c, w),
         NEW f, GoodFrame(f), f.prev = c, Range(f.keys) \cap w = {}
  PROVE  Consistent(<<f>> \o s, Document(f), w \union Range(f.keys))
<1> DEFINE t == <<f>> \o s
<1>1. s \in Seq(Range(s))
  BY DEF Consistent, WellFormed
<1>2. /\ t \in Seq(Range(t)) /\ Len(s) \in Nat /\ DOMAIN s = 1..Len(s)
      /\ Len(t) = Len(s) + 1 /\ DOMAIN t = 1..(Len(s) + 1)
      /\ t[1] = f /\ Range(t) = {f} \union Range(s)
      /\ \A i \in DOMAIN s : t[i + 1] = s[i]
  BY ONLY <1>1, PushSeq, SMTT(60)
<1>3. \A i \in DOMAIN t : i # 1 => i - 1 \in DOMAIN s /\ t[i] = s[i - 1]
  <2> SUFFICES ASSUME NEW i \in DOMAIN t, i # 1
               PROVE  i - 1 \in DOMAIN s /\ t[i] = s[i - 1]
    OBVIOUS
  <2>1. i - 1 \in DOMAIN s /\ (i - 1) + 1 = i
    BY <1>2
  <2> QED BY <2>1, <1>2
<1> HIDE DEF t
<1>4. WellFormed(t)
  BY <1>2, <1>3 DEF WellFormed, Consistent
<1>5. Documents(t, Document(f))
  <2>1. Document(f) = Below(t, 0)
    BY <1>2 DEF Below
  <2>2. \A i \in 1..(Len(s) + 1) : Below(t, i) = Below(s, i - 1)
    <3> SUFFICES ASSUME NEW i \in 1..(Len(s) + 1) PROVE Below(t, i) = Below(s, i - 1)
      OBVIOUS
    <3>1. CASE i = Len(s) + 1
      <4>1. ~(i < Len(t)) /\ ~(i - 1 < Len(s))
        BY <3>1, <1>2
      <4> QED BY <4>1 DEF Below
    <3>2. CASE i # Len(s) + 1
      <4>1. i \in DOMAIN s /\ i < Len(t) /\ i - 1 < Len(s) /\ (i - 1) + 1 = i
        BY <3>2, <1>2
      <4>2. t[i + 1] = s[i]
        BY <4>1, <1>2
      <4> QED BY <4>1, <4>2 DEF Below
    <3> QED BY <3>1, <3>2
  <2>3. ASSUME NEW i \in DOMAIN t PROVE t[i].prev = Below(t, i)
    <3>1. CASE i = 1
      <4>1. c = Below(s, 0) /\ 1 \in 1..(Len(s) + 1) /\ 1 - 1 = 0
        BY <1>2 DEF Consistent, Documents
      <4>2. Below(t, 1) = Below(s, 0)
        BY <4>1, <2>2
      <4> QED BY <3>1, <4>1, <4>2, <1>2
    <3>2. CASE i # 1
      <4>1. i - 1 \in DOMAIN s /\ t[i] = s[i - 1] /\ i \in 1..(Len(s) + 1)
        BY <3>2, <1>2, <1>3
      <4>2. s[i - 1].prev = Below(s, i - 1)
        BY <4>1 DEF Consistent, Documents
      <4> QED BY <4>1, <4>2, <2>2
    <3> QED BY <3>1, <3>2
  <2> QED BY <2>1, <2>3 DEF Documents
<1>6. Progress(t, w \union Range(f.keys))
  <2>1. w = UNION {Range(g.keys) : g \in Range(s)}
    BY DEF Consistent, Progress
  <2>2. w \union Range(f.keys) = UNION {Range(g.keys) : g \in Range(t)}
    BY <2>1, <1>2
  <2>3. \A i \in DOMAIN s : Range(f.keys) \cap Range(s[i].keys) = {}
    <3> SUFFICES ASSUME NEW i \in DOMAIN s PROVE Range(s[i].keys) \subseteq w
      OBVIOUS
    <3>1. s[i] \in Range(s)
      BY DEF Range
    <3> QED BY <3>1, <2>1
  <2>4. ASSUME NEW i \in DOMAIN t, NEW j \in DOMAIN t, i # j
        PROVE  Range(t[i].keys) \cap Range(t[j].keys) = {}
    <3>1. CASE i = 1
      BY <3>1, <2>3, <2>4, <1>2, <1>3
    <3>2. CASE j = 1
      BY <3>2, <2>3, <2>4, <1>2, <1>3
    <3>3. CASE i # 1 /\ j # 1
      <4>1. /\ i - 1 \in DOMAIN s /\ t[i] = s[i - 1] /\ j - 1 \in DOMAIN s /\ t[j] = s[j - 1]
        BY <3>3, <1>3
      <4>2. i - 1 # j - 1
        BY <2>4, <1>2
      <4> QED BY <4>1, <4>2 DEF Consistent, Progress
    <3> QED BY <3>1, <3>2, <3>3
  <2> QED BY <2>2, <2>4 DEF Progress
<1> QED BY <1>4, <1>5, <1>6 DEF Consistent, t

(* The value is done with. *)
LEMMA PopConsistent ==
  ASSUME NEW s, NEW c, NEW w, Consistent(s, c, w), s # <<>>
  PROVE  /\ Consistent(Tail(s), Head(s).prev, w \ Range(Head(s).keys))
         /\ GoodFrame(Head(s)) /\ c = Document(Head(s))
         /\ Range(Head(s).keys) \subseteq w
<1> DEFINE t == Tail(s)
<1>1. s \in Seq(Range(s))
  BY DEF Consistent, WellFormed
<1>2. /\ t \in Seq(Range(t)) /\ Len(s) \in Nat \ {0} /\ DOMAIN s = 1..Len(s)
      /\ Head(s) = s[1] /\ Len(t) = Len(s) - 1 /\ DOMAIN t = 1..(Len(s) - 1)
      /\ Range(s) = {s[1]} \union Range(t)
      /\ \A i \in DOMAIN t : t[i] = s[i + 1]
  BY <1>1, PopSeq
<1> HIDE DEF t
<1>3. 1 \in DOMAIN s /\ \A i \in DOMAIN t : i + 1 \in DOMAIN s /\ t[i] = s[i + 1]
  <2>1. 1 \in DOMAIN s /\ \A i \in DOMAIN t : i + 1 \in DOMAIN s
    BY <1>2
  <2> QED BY <2>1, <1>2
<1>4. WellFormed(t) /\ GoodFrame(Head(s))
  BY <1>2, <1>3 DEF WellFormed, Consistent
<1>5. Documents(t, Head(s).prev) /\ c = Document(Head(s))
  <2>1. \A i \in 0..(Len(s) - 1) : Below(t, i) = Below(s, i + 1)
    <3> SUFFICES ASSUME NEW i \in 0..(Len(s) - 1) PROVE Below(t, i) = Below(s, i + 1)
      OBVIOUS
    <3>1. CASE i = Len(s) - 1
      <4>1. ~(i < Len(t)) /\ ~(i + 1 < Len(s))
        BY <3>1, <1>2
      <4> QED BY <4>1 DEF Below
    <3>2. CASE i # Len(s) - 1
      <4>1. i + 1 \in DOMAIN t /\ i < Len(t) /\ i + 1 < Len(s)
        <5> DEFINE n == Len(s)
        <5>1. n \in Nat \ {0} /\ Len(t) = n - 1 /\ DOMAIN t = 1..(n - 1)
          BY <1>2
        <5> HIDE DEF n
        <5>2. i \in 0..(n - 1) /\ i # n - 1
          BY <3>2 DEF n
        <5>3. i + 1 \in 1..(n - 1) /\ i < n - 1 /\ i + 1 < n
          BY ONLY <5>1, <5>2
        <5> QED BY <5>1, <5>3 DEF n
      <4>2. t[i + 1] = s[(i + 1) + 1]
        BY <4>1, <1>2
      <4> QED BY <4>1, <4>2 DEF Below
    <3> QED BY <3>1, <3>2
  <2>2. \A i \in DOMAIN s : s[i].prev = Below(s, i)
    BY DEF Consistent, Documents
  <2>3. 0 \in 0..(Len(s) - 1) /\ 0 + 1 = 1 /\ \A i \in DOMAIN t : i \in 0..(Len(s) - 1)
    BY <1>2
  <2>4. Head(s).prev = Below(t, 0)
    BY <2>1, <2>2, <2>3, <1>2, <1>3
  <2>5. ASSUME NEW i \in DOMAIN t PROVE t[i].prev = Below(t, i)
    BY <2>1, <2>2, <2>3, <1>3
  <2>6. c = Document(Head(s))
    <3>1. 0 < Len(s) /\ c = Below(s, 0)
      BY <1>2 DEF Consistent, Documents
    <3> QED BY <3>1, <2>3, <1>2 DEF Below
  <2> QED BY <2>4, <2>5, <2>6 DEF Documents
<1>6. Progress(t, w \ Range(Head(s).keys)) /\ Range(Head(s).keys) \subseteq w
  <2>1. w = UNION {Range(g.keys) : g \in Range(s)}
    BY DEF Consistent, Progress
  <2>2. \A i, j \in DOMAIN s : i # j => Range(s[i].keys) \cap Range(s[j].keys) = {}
    BY DEF Consistent, Progress
  <2>3. \A g \in Range(t) : Range(g.keys) \cap Range(s[1].keys) = {}
    <3> SUFFICES ASSUME NEW i \in DOMAIN t PROVE Range(t[i].keys) \cap Range(s[1].keys) = {}
      BY DEF Range
    <3>1. i + 1 \in DOMAIN s /\ 1 \in DOMAIN s /\ i + 1 # 1
      BY <1>2
    <3> QED BY <3>1, <2>2, <1>3
  <2>4. w \ Range(Head(s).keys) = UNION {Range(g.keys) : g \in Range(t)}
    BY <2>1, <2>3, <1>2
  <2>5. ASSUME NEW i \in DOMAIN t, NEW j \in DOMAIN t, i # j
        PROVE  Range(t[i].keys) \cap Range(t[j].keys) = {}
    <3>1. i + 1 \in DOMAIN s /\ j + 1 \in DOMAIN s /\ i + 1 # j + 1
      BY <2>5, <1>2
    <3> QED BY <3>1, <2>2, <1>3
  <2> QED BY <2>1, <2>4, <2>5, <1>2 DEF Progress
<1> QED BY <1>4, <1>5, <1>6 DEF Consistent, t

(* The innermost frame goes on, or follows what nobody follows.             *)
LEMMA ReplaceConsistent ==
  ASSUME NEW s, NEW c, NEW w, Consistent(s, c, w), s # <<>>,
         NEW f, GoodFrame(f), f.prev = Head(s).prev,
         Range(f.keys) \cap (w \ Range(Head(s).keys)) = {}
  PROVE  /\ Consistent(<<f>> \o Tail(s), Document(f),
                       (w \ Range(Head(s).keys)) \union Range(f.keys))
         /\ <<f>> \o Tail(s) # <<>>
<1>1. Consistent(Tail(s), Head(s).prev, w \ Range(Head(s).keys))
  BY PopConsistent
<1>2. <<f>> \o Tail(s) # <<>>
  BY <1>1, PushSeq DEF Consistent, WellFormed
<1> QED BY <1>1, <1>2, PushConsistent

LEMMA AdvanceConsistent ==
  ASSUME NEW s, NEW c, NEW w, Consistent(s, c, w), s # <<>>,
         NEW f, DOMAIN f = DOMAIN Head(s), f.prev = Head(s).prev, f.keys = Head(s).keys
  PROVE  /\ Consistent(<<f>> \o Tail(s), c, w) /\ <<f>> \o Tail(s) # <<>>
<1>1. GoodFrame(Head(s)) /\ c = Document(Head(s)) /\ Range(Head(s).keys) \subseteq w
  BY PopConsistent
<1>2. GoodFrame(f) /\ Document(f) = c
  BY <1>1, SameKeys
<1>3. (w \ Range(Head(s).keys)) \union Range(f.keys) = w
  BY <1>1
<1>4. Range(f.keys) \cap (w \ Range(Head(s).keys)) = {}
  OBVIOUS
<1>5. /\ Consistent(<<f>> \o Tail(s), Document(f), (w \ Range(Head(s).keys)) \union Range(f.keys))
      /\ <<f>> \o Tail(s) # <<>>
  BY <1>2, <1>4, ReplaceConsistent
<1> QED BY <1>2, <1>3, <1>5

-----------------------------------------------------------------------------
(* The invariant. *)

LEMMA InitIInv == Init => IInv
<1> SUFFICES ASSUME Init PROVE IInv
  OBVIOUS
<1>1. stack = <<>> /\ DOMAIN stack = {} /\ Len(stack) = 0 /\ Range(stack) = {}
  BY DEF Init, Range
<1>2. stack \in Seq(Range(stack))
  BY <1>1
<1> QED BY <1>1, <1>2 DEF Init, IInv, Consistent, WellFormed, Documents, Progress, Below

LEMMA StepIInv == IInv /\ [Next]_vars => IInv'
<1> SUFFICES ASSUME IInv, [Next]_vars PROVE IInv'
  OBVIOUS
<1>0. Consistent(stack, current, walking)
  BY DEF IInv
<1>1. ASSUME stack' = stack, current' = current, walking' = walking,
             \/ pc \in {"begin", "root", "done"} /\ pc' \in {"begin", "root", "done"}
             \/ pc \in {"enter", "parts", "leave"} /\ pc' \in {"enter", "parts", "leave"}
      PROVE  IInv'
  <2>1. Consistent(stack', current', walking')
    BY <1>0, <1>1
  <2> QED BY <1>1, <2>1 DEF IInv
<1>2. CASE Begin \/ NextPhase \/ Scan
  BY <1>1, <1>2 DEF Begin, NextPhase, Scan, where
<1>3. CASE RefDangles \/ Refuse \/ Accept
  BY <1>1, <1>3 DEF RefDangles, Refuse, Accept, Give, where
<1>4. CASE CloseOperation \/ CloseExpression \/ CloseOther
  BY <1>1, <1>4 DEF CloseOperation, CloseExpression, CloseOther, Give, where
<1>5. CASE NextRoot
  <2> DEFINE f == Frame(Head(todo))
  <2>1. stack = <<>> /\ stack' = <<f>> /\ pc' = "enter" /\ UNCHANGED <<current, walking>>
    BY <1>5 DEF NextRoot, where, IInv
  <2>2. GoodFrame(f) /\ f.prev = current /\ Document(f) = current /\ Range(f.keys) = {}
    BY NewFrame
  <2> HIDE DEF f
  <2>3. Consistent(<<f>> \o stack, Document(f), walking \union Range(f.keys))
    BY <1>0, <2>2, PushConsistent
  <2>4. <<f>> \o stack = <<f>> /\ <<f>> # <<>>
    BY <2>1
  <2>5. Consistent(stack', current', walking')
    BY <2>1, <2>2, <2>3, <2>4
  <2> QED BY <2>1, <2>4, <2>5 DEF IInv
<1>6. CASE NextPart
  <2> DEFINE f == Frame(Head(stack).node.parts[Head(stack).next])
  <2>1. stack' = <<f>> \o stack /\ pc' = "enter" /\ UNCHANGED <<current, walking>>
    BY <1>6 DEF NextPart, where
  <2>2. GoodFrame(f) /\ f.prev = current /\ Document(f) = current /\ Range(f.keys) = {}
    BY NewFrame
  <2> HIDE DEF f
  <2>3. Consistent(<<f>> \o stack, Document(f), walking \union Range(f.keys))
    BY <1>0, <2>2, PushConsistent
  <2>4. <<f>> \o stack # <<>>
    BY <1>0, PushSeq DEF Consistent, WellFormed
  <2>5. Consistent(stack', current', walking')
    BY <2>1, <2>2, <2>3
  <2> QED BY <2>1, <2>4, <2>5 DEF IInv
<1>7. CASE SkipPart
  <2> DEFINE h == Head(stack)
             f == [h EXCEPT !.next = @ + 1]
  <2>1. /\ stack # <<>> /\ stack' = <<f>> \o Tail(stack) /\ UNCHANGED <<current, walking>>
        /\ pc' = pc /\ pc = "parts"
    BY <1>7 DEF SkipPart, Replace, where, IInv
  <2>2. GoodFrame(h)
    BY <1>0, <2>1, PopConsistent
  <2>3. DOMAIN f = DOMAIN h /\ f.prev = h.prev /\ f.keys = h.keys
    BY <2>2 DEF GoodFrame
  <2> HIDE DEF f
  <2>4. Consistent(<<f>> \o Tail(stack), current, walking) /\ <<f>> \o Tail(stack) # <<>>
    BY <1>0, <2>1, <2>3, AdvanceConsistent
  <2> QED BY <2>1, <2>4 DEF IInv
<1>8. CASE FollowRef
  <2> DEFINE h == Head(stack)
             key == Target(h)
             f == [h EXCEPT !.node = spec.at[key], !.keys = Append(@, key)]
  <2>1. pc = "enter" /\ stack # <<>>
    BY <1>8 DEF FollowRef, IInv
  <2>2. CASE /\ key \in walking /\ pc' = "leave" /\ UNCHANGED <<current, walking, stack>>
    BY <1>1, <2>1, <2>2
  <2>3. CASE /\ key \notin walking /\ stack' = <<f>> \o Tail(stack) /\ pc' = pc
             /\ walking' = walking \union {key} /\ current' = key[1]
    <3>1. GoodFrame(h) /\ Range(h.keys) \subseteq walking
      BY <1>0, <2>1, PopConsistent
    <3>2. DOMAIN f = DOMAIN h /\ f.prev = h.prev /\ f.keys = Append(h.keys, key)
      BY <3>1 DEF GoodFrame
    <3> HIDE DEF f, key, h
    <3>3. GoodFrame(f) /\ Document(f) = key[1] /\ Range(f.keys) = Range(h.keys) \union {key}
      BY <2>3, <3>1, <3>2, OneMoreKey
    <3>4. /\ Range(f.keys) \cap (walking \ Range(h.keys)) = {}
          /\ (walking \ Range(h.keys)) \union Range(f.keys) = walking \union {key}
      BY <2>3, <3>1, <3>3
    <3>5. /\ Consistent(<<f>> \o Tail(stack), Document(f),
                        (walking \ Range(h.keys)) \union Range(f.keys))
          /\ <<f>> \o Tail(stack) # <<>>
      BY <1>0, <2>1, <3>2, <3>3, <3>4, ReplaceConsistent DEF h
    <3>6. Consistent(stack', current', walking')
      BY <2>3, <3>3, <3>4, <3>5
    <3> QED BY <2>1, <2>3, <3>5, <3>6 DEF IInv
  <2> QED BY <1>8, <2>2, <2>3 DEF FollowRef, Cyclic, Give, Replace
<1>9. CASE Leave
  <2> DEFINE h == Head(stack)
             outer == Tail(stack)
             f == [Head(outer) EXCEPT !.next = @ + 1, !.got = @ \o ret]
  <2>1. /\ stack # <<>> /\ walking' = walking \ Range(h.keys) /\ current' = h.prev
    BY <1>9 DEF Leave, IInv
  <2>2. Consistent(outer, current', walking')
    BY <1>0, <2>1, PopConsistent
  <2>3. CASE outer = <<>> /\ stack' = <<>> /\ pc' = "root"
    <3>1. Consistent(stack', current', walking')
      BY <2>2, <2>3
    <3> QED BY <2>3, <3>1 DEF IInv
  <2>4. CASE outer # <<>> /\ stack' = <<f>> \o Tail(outer) /\ pc' = "parts"
    <3> HIDE DEF outer
    <3>1. GoodFrame(Head(outer))
      BY <2>2, <2>4, PopConsistent
    <3>2. DOMAIN f = DOMAIN Head(outer) /\ f.prev = Head(outer).prev /\ f.keys = Head(outer).keys
      BY <3>1 DEF GoodFrame
    <3> HIDE DEF f
    <3>3. Consistent(<<f>> \o Tail(outer), current', walking') /\ <<f>> \o Tail(outer) # <<>>
      BY <2>2, <2>4, <3>2, AdvanceConsistent
    <3>4. Consistent(stack', current', walking') /\ stack' # <<>>
      BY <2>4, <3>3
    <3> QED BY <2>4, <3>4 DEF IInv
  <2> QED BY <1>9, <2>3, <2>4 DEF Leave
<1>10. CASE UNCHANGED vars
  <2>1. UNCHANGED <<stack, current, walking, pc>>
    BY <1>10 DEF vars, where
  <2>2. Consistent(stack', current', walking')
    BY <1>0, <2>1
  <2> QED BY <2>1, <2>2 DEF IInv
<1>11. CASE Finish
  BY <1>10, <1>11 DEF Finish
<1> QED
  BY <1>2, <1>3, <1>4, <1>5, <1>6, <1>7, <1>8, <1>9, <1>10, <1>11 DEF Next

(* The current document and the references in progress are those of the     *)
(* values being read (with_resolved_object restores both on every way out), *)
(* for every description and any number of documents.                       *)
THEOREM RefContextRestored == Spec => []ContextFollowsRefs
<1>1. IInv => ContextFollowsRefs
  BY DEF IInv, Consistent, Documents, Progress, ContextFollowsRefs
<1> QED BY <1>1, InitIInv, StepIInv, PTL DEF Spec

(* No reference is followed while it is being followed, however chains of   *)
(* references and callbacks lead back: the check of ref_walk.rs catches     *)
(* every re-entry.                                                          *)
THEOREM RefCyclesCaught == Spec => []NoRefReentry
<1>1. IInv => NoRefReentry
  BY DEF IInv, Consistent, WellFormed, GoodFrame, Progress, NoRefReentry
<1> QED BY <1>1, InitIInv, StepIInv, PTL DEF Spec

-----------------------------------------------------------------------------
(* What the walk hands on.                                                  *)

(* The shape of the calls: a value is read below one that has such parts,   *)
(* and what is left came to nothing or to one value of its kind.            *)
FrameFields == {"slot", "key", "node", "prev", "keys", "next", "got"}
Nested(s) == \A i \in DOMAIN s : i + 1 \in DOMAIN s =>
  s[i + 1].slot \in DOMAIN PartsOf /\ s[i].slot \in PartsOf[s[i + 1].slot]
Kind == ReadAs[Phases[phase]]
Rooted(s, kind) == s # <<>> => s[Len(s)].slot = kind
IsSeq(s) == s \in Seq(Range(s))
(* Calls on a stack, the bottom one of a kind.                              *)
Calls(s, kind) ==
  /\ IsSeq(s) /\ Nested(s) /\ Rooted(s, kind)
  /\ \A i \in DOMAIN s : DOMAIN s[i] = FrameFields /\ IsSeq(s[i].got)
  /\ kind = "scheme" => \A i \in DOMAIN s : s[i].slot \in {"scheme", "flow"}

Listed(s, kind) == s \in Seq({e \in Range(s) : e.slot = kind})
Shape ==
  /\ phase \in 0..3 /\ spec \in Specs
  /\ phase = 0 => pc \in {"begin", "done"}
  /\ pc = "begin" => phase = 0
  /\ phase # 0 => Calls(stack, Kind) /\ Listed(todo, Kind)
  /\ pc = "leave" => ret = <<>> \/ \E v : ret = <<v>> /\ v.slot = stack[1].slot /\ IsSeq(v.got)
  /\ DOMAIN ir = DOMAIN EmptyIr /\ IsSeq(ir.operations) /\ IsSeq(ir.webhooks)
  /\ \A k \in DOMAIN ir.webhooks : IsSeq(ir.webhooks[k].operations)

(* Operations among values, and their ids.                                  *)
OpIds(s) == {s[i].has.id : i \in {k \in DOMAIN s : s[k].slot = "op"}}
Apart(s) == \A i, j \in DOMAIN s :
  i # j /\ s[i].slot = "op" /\ s[j].slot = "op" => s[i].has.id # s[j].has.id
AllOps(s) == \A i \in DOMAIN s : s[i].slot = "op"

StackIds(s) == UNION {OpIds(f.got) : f \in Range(s)}
Spread(s) ==
  /\ IsSeq(s)
  /\ \A i \in DOMAIN s : Apart(s[i].got)
  /\ \A i, j \in DOMAIN s : i # j => OpIds(s[i].got) \cap OpIds(s[j].got) = {}
WebhookIds(W) == UNION {OpIds(w.operations) : w \in Range(W)}

Live == IF pc = "leave" THEN Tail(stack) ELSE stack
Returned ==
  IF pc # "leave" \/ ret = <<>> THEN <<>>
  ELSE IF ret[1].slot \in {"path", "webhook"} THEN ret[1].got
  ELSE ret

(* The operations in the IR, in its webhooks, below the calls, and in what  *)
(* is being returned: each of them has an id of its own, that has been seen. *)
Owned(O, W, L, R, S) ==
  /\ AllOps(O) /\ Apart(O) /\ Spread(L) /\ Apart(R)
  /\ \A k \in DOMAIN W : AllOps(W[k].operations) /\ Apart(W[k].operations)
  /\ \A k, l \in DOMAIN W : k # l => OpIds(W[k].operations) \cap OpIds(W[l].operations) = {}
  /\ OpIds(O) \cap WebhookIds(W) = {}
  /\ StackIds(L) \cap (OpIds(O) \union WebhookIds(W)) = {}
  /\ OpIds(R) \cap (OpIds(O) \union WebhookIds(W) \union StackIds(L)) = {}
  /\ OpIds(O) \union WebhookIds(W) \union StackIds(L) \union OpIds(R) \subseteq S

OpsInv ==
  /\ Owned(ir.operations, ir.webhooks, Live, Returned, seen)
  /\ phase < 2 => seen = {}
  /\ phase < 3 => ir.webhooks = <<>>

(* What a value says of callbacks is true of the ids D.                     *)
Sound(v, D) ==
  /\ v.slot = "expr" => v.has.ids \subseteq D
  /\ v.slot = "callback" => \A e \in Range(v.got) : e.has.ids \subseteq D
  /\ v.slot = "op" => CallbackIds(v) \subseteq D
AllSound(s, D) == \A x \in Range(s) : Sound(x, D)

(* Every id that a value below a call keeps is one of D.                    *)
SoundFrame(f, D) ==
  /\ AllSound(f.got, D)
  /\ f.slot = "callback" => \A x \in Range(f.got) : x.slot = "expr"
Resolved(O, W, s, D) ==
  /\ AllSound(O, D)
  /\ \A k \in DOMAIN W : AllSound(W[k].operations, D)
  /\ \A f \in Range(s) : SoundFrame(f, D)
CallbacksInv ==
  LET D == Ids(ir.operations) IN
  /\ Resolved(ir.operations, ir.webhooks, stack, D)
  /\ pc = "leave" => \A v \in Range(ret) :
       Sound(v, D) /\ (v.slot \in {"path", "webhook"} => AllSound(v.got, D))

LEMMA Numbered ==
  ASSUME NEW s, IsSeq(s)
  PROVE  /\ Len(s) \in Nat /\ DOMAIN s = 1..Len(s)
         /\ \A i \in DOMAIN s : s[i] \in Range(s)
BY DEF IsSeq, Range

LEMMA Nothing == /\ IsSeq(<<>>) /\ Range(<<>>) = {} /\ DOMAIN <<>> = {} /\ Apart(<<>>) /\ AllOps(<<>>)
                 /\ OpIds(<<>>) = {} /\ StackIds(<<>>) = {} /\ Spread(<<>>)
<1>1. Range(<<>>) = {} /\ DOMAIN <<>> = {} /\ <<>> \in Seq({})
  BY DEF Range
<1> QED BY <1>1 DEF IsSeq, Apart, AllOps, OpIds, StackIds, Spread

LEMMA One == ASSUME NEW v PROVE  /\ IsSeq(<<v>>) /\ Range(<<v>>) = {v} /\ Apart(<<v>>)
                                 /\ OpIds(<<v>>) = (IF v.slot = "op" THEN {v.has.id} ELSE {})
<1>1. DOMAIN <<v>> = {1} /\ <<v>>[1] = v /\ <<v>> \in Seq({v})
  OBVIOUS
<1>2. Range(<<v>>) = {v}
  BY <1>1 DEF Range
<1>3. CASE v.slot = "op"
  BY <1>1, <1>2, <1>3 DEF IsSeq, Apart, OpIds
<1>4. CASE v.slot # "op"
  BY <1>1, <1>2, <1>4 DEF IsSeq, Apart, OpIds
<1> QED BY <1>3, <1>4

(* The values that were read as one of some slots.                          *)
LEMMA SlotsFacts ==
  ASSUME NEW s, IsSeq(s), NEW S
  PROVE  /\ IsSeq(Slots(s, S))
         /\ \A x : x \in Range(Slots(s, S)) <=> x \in Range(s) /\ x.slot \in S
<1> DEFINE X == Range(s)
           Y == Seq(X)
           p == [i \in DOMAIN s |-> IF s[i].slot \in S THEN <<s[i]>> ELSE <<>>]
           r == FlattenSeq(p)
<1>1. /\ Len(s) \in Nat /\ DOMAIN s = 1..Len(s)
      /\ \A i \in DOMAIN s : s[i] \in X
  BY Numbered
<1>2. \A i \in DOMAIN s : p[i] \in Y
  BY <1>1
<1>3. DOMAIN p = DOMAIN s
  OBVIOUS
<1>4. \A i \in DOMAIN s : Range(p[i]) = IF s[i].slot \in S THEN {s[i]} ELSE {}
  <2> SUFFICES ASSUME NEW i \in DOMAIN s PROVE Range(p[i]) = IF s[i].slot \in S THEN {s[i]} ELSE {}
    OBVIOUS
  <2>1. CASE s[i].slot \in S
    BY <2>1, One
  <2>2. CASE s[i].slot \notin S
    BY <2>2, Nothing
  <2> QED BY <2>1, <2>2
<1>5. p \in Seq(Y)
  <2> HIDE DEF Y
  <2> QED BY <1>1, <1>2
<1> HIDE DEF p
<1>6. r \in Seq(X) /\ \A x : x \in Range(r) <=> \E k \in DOMAIN p : x \in Range(p[k])
  BY <1>5, FlattenRange
<1>7. \A x : x \in Range(r) <=> \E k \in DOMAIN s : s[k].slot \in S /\ x = s[k]
  BY <1>3, <1>4, <1>6
<1>8. \A x : x \in Range(s) <=> \E k \in DOMAIN s : x = s[k]
  BY DEF Range
<1>9. \A x : x \in Range(r) <=> x \in Range(s) /\ x.slot \in S
  BY <1>7, <1>8
<1>10. r \in Seq(Range(r))
  BY <1>6, SeqOfRange
<1> QED BY <1>9, <1>10 DEF IsSeq, p, Slots

LEMMA IdsOfValues ==
  ASSUME NEW s, IsSeq(s)
  PROVE  /\ \A d : d \in OpIds(s) <=> \E x \in Range(s) : x.slot = "op" /\ d = x.has.id
         /\ \A d : d \in Ids(s) <=> \E x \in Range(s) : d = x.has.id
         /\ AllOps(s) <=> \A x \in Range(s) : x.slot = "op"
         /\ AllOps(s) => Ids(s) = OpIds(s)
BY DEF OpIds, Ids, Range, AllOps

(* Operations with ids of their own remain apart when they are picked out.  *)
LEMMA PickedOps ==
  ASSUME NEW s, IsSeq(s), Apart(s)
  PROVE  LET t == Slots(s, {"op"}) IN
         /\ IsSeq(t) /\ AllOps(t) /\ Apart(t) /\ OpIds(t) = OpIds(s) /\ Ids(t) = OpIds(s)
<1> DEFINE t == Slots(s, {"op"})
           X == Range(s)
           Y == Seq(X)
           p == [i \in DOMAIN s |-> IF s[i].slot \in {"op"} THEN <<s[i]>> ELSE <<>>]
<1>1. IsSeq(t) /\ \A x : x \in Range(t) <=> x \in Range(s) /\ x.slot = "op"
  BY SlotsFacts
<1>2. t = FlattenSeq(p)
  BY DEF Slots
<1>3. /\ Len(s) \in Nat /\ DOMAIN s = 1..Len(s)
      /\ \A i \in DOMAIN s : s[i] \in X
  BY Numbered
<1>4. \A i \in DOMAIN s : p[i] \in Y /\ p[i] = IF s[i].slot = "op" THEN <<s[i]>> ELSE <<>>
  BY <1>3
<1>5. DOMAIN p = DOMAIN s
  OBVIOUS
<1>6. p \in Seq(Y)
  <2> HIDE DEF Y
  <2> QED BY <1>3, <1>4
<1> HIDE DEF p, t
<1>7. \A i \in DOMAIN s : /\ Range(p[i]) = IF s[i].slot = "op" THEN {s[i]} ELSE {}
                          /\ IsInjective(p[i])
  <2> SUFFICES ASSUME NEW i \in DOMAIN s
               PROVE  Range(p[i]) = (IF s[i].slot = "op" THEN {s[i]} ELSE {}) /\ IsInjective(p[i])
    OBVIOUS
  <2>1. CASE s[i].slot = "op"
    <3>1. DOMAIN <<s[i]>> = {1}
      OBVIOUS
    <3>2. IsInjective(<<s[i]>>)
      BY <3>1 DEF IsInjective
    <3> QED BY <1>4, <2>1, <3>2, One
  <2>2. CASE s[i].slot # "op"
    <3>1. IsInjective(<<>>)
      BY Nothing DEF IsInjective
    <3> QED BY <1>4, <2>2, <3>1, Nothing
  <2> QED BY <2>1, <2>2
<1>8. \A k, l \in DOMAIN p : k # l => Range(p[k]) \cap Range(p[l]) = {}
  <2> SUFFICES ASSUME NEW k \in DOMAIN s, NEW l \in DOMAIN s, k # l,
                      NEW x, x \in Range(p[k]), x \in Range(p[l])
               PROVE  FALSE
    BY <1>5
  <2>1. x = s[k] /\ x = s[l] /\ s[k].slot = "op" /\ s[l].slot = "op"
    BY <1>7
  <2> QED BY <2>1 DEF Apart
<1>9. Blocks(p, Len(p), t)
  BY <1>2, <1>5, <1>6, <1>7, <1>8, FlattenBlocks
<1>10. IsInjective(t)
  BY <1>9 DEF Blocks
<1>11. AllOps(t)
  BY <1>1, IdsOfValues
<1>12. OpIds(t) = OpIds(s)
  <2>1. \A d : d \in OpIds(t) <=> \E x \in Range(t) : x.slot = "op" /\ d = x.has.id
    BY <1>1, IdsOfValues
  <2>2. \A d : d \in OpIds(s) <=> \E x \in Range(s) : x.slot = "op" /\ d = x.has.id
    BY IdsOfValues
  <2>3. \A d : d \in OpIds(t) <=> d \in OpIds(s)
    BY <1>1, <2>1, <2>2
  <2> QED BY <2>3
<1>13. Apart(t)
  <2> SUFFICES ASSUME NEW i \in DOMAIN t, NEW j \in DOMAIN t, i # j, t[i].has.id = t[j].has.id
               PROVE  FALSE
    BY DEF Apart
  <2>1. t[i] \in Range(t) /\ t[j] \in Range(t)
    BY DEF Range
  <2>2. PICK k \in DOMAIN s : s[k] = t[i] /\ s[k].slot = "op"
    BY <1>1, <2>1 DEF Range
  <2>3. PICK l \in DOMAIN s : s[l] = t[j] /\ s[l].slot = "op"
    BY <1>1, <2>1 DEF Range
  <2>4. k = l
    BY <2>2, <2>3 DEF Apart
  <2> QED BY <1>10, <2>2, <2>3, <2>4 DEF IsInjective
<1> QED BY <1>1, <1>11, <1>12, <1>13, IdsOfValues DEF t

LEMMA JoinOps ==
  ASSUME NEW s, IsSeq(s), Apart(s), NEW t, IsSeq(t), Apart(t), OpIds(s) \cap OpIds(t) = {}
  PROVE  /\ IsSeq(s \o t) /\ Apart(s \o t) /\ OpIds(s \o t) = OpIds(s) \union OpIds(t)
         /\ Range(s \o t) = Range(s) \union Range(t)
         /\ AllOps(s) /\ AllOps(t) => AllOps(s \o t)
<1> DEFINE X == Range(s) \union Range(t)
           c == s \o t
           m == Len(s)
           l == Len(t)
<1>1. s \in Seq(X) /\ t \in Seq(X)
  BY DEF IsSeq
<1>2. c \in Seq(X) /\ Range(c) = X
  BY <1>1, JoinRange
<1>3. IsSeq(c)
  BY <1>2, SeqOfRange DEF IsSeq
<1>4. OpIds(c) = OpIds(s) \union OpIds(t)
  BY <1>2, <1>3, IdsOfValues
<1>5. AllOps(s) /\ AllOps(t) => AllOps(c)
  BY <1>2, <1>3, IdsOfValues
<1>6. m \in Nat /\ DOMAIN s = 1..m /\ l \in Nat /\ DOMAIN t = 1..l /\ DOMAIN c = 1..(m + l)
  BY <1>1
<1>7. \A i \in 1..(m + l) : c[i] = IF i <= m THEN s[i] ELSE t[i - m]
  BY <1>1
<1> HIDE DEF c, m, l
<1>8. Apart(c)
  <2> SUFFICES ASSUME NEW i \in 1..(m + l), NEW j \in 1..(m + l), i # j, c[i].slot = "op", c[j].slot = "op"
               PROVE  c[i].has.id # c[j].has.id
    BY <1>6 DEF Apart
  <2>1. CASE i <= m /\ j <= m
    <3>1. i \in DOMAIN s /\ j \in DOMAIN s /\ c[i] = s[i] /\ c[j] = s[j]
      BY <1>6, <1>7, <2>1
    <3> QED BY <3>1 DEF Apart
  <2>2. CASE ~ (i <= m) /\ ~ (j <= m)
    <3>1. i - m \in DOMAIN t /\ j - m \in DOMAIN t /\ c[i] = t[i - m] /\ c[j] = t[j - m] /\ i - m # j - m
      BY <1>6, <1>7, <2>2
    <3> QED BY <3>1 DEF Apart
  <2>3. CASE i <= m /\ ~ (j <= m)
    <3>1. i \in DOMAIN s /\ j - m \in DOMAIN t /\ c[i] = s[i] /\ c[j] = t[j - m]
      BY <1>6, <1>7, <2>3
    <3>2. c[i].has.id \in OpIds(s) /\ c[j].has.id \in OpIds(t)
      BY <3>1 DEF OpIds
    <3> QED BY <3>2
  <2>4. CASE ~ (i <= m) /\ j <= m
    <3>1. j \in DOMAIN s /\ i - m \in DOMAIN t /\ c[j] = s[j] /\ c[i] = t[i - m]
      BY <1>6, <1>7, <2>4
    <3>2. c[j].has.id \in OpIds(s) /\ c[i].has.id \in OpIds(t)
      BY <3>1 DEF OpIds
    <3> QED BY <3>2
  <2> QED BY <2>1, <2>2, <2>3, <2>4
<1> QED BY <1>2, <1>3, <1>4, <1>5, <1>8 DEF c

(* Values come to a frame on the stack, and leave it.                       *)
LEMMA PushSpread ==
  ASSUME NEW s, Spread(s), NEW f, Apart(f.got), OpIds(f.got) \cap StackIds(s) = {}
  PROVE  Spread(<<f>> \o s) /\ StackIds(<<f>> \o s) = OpIds(f.got) \union StackIds(s)
<1> DEFINE t == <<f>> \o s
<1>1. /\ t \in Seq(Range(t)) /\ Len(s) \in Nat /\ DOMAIN s = 1..Len(s) /\ DOMAIN t = 1..(Len(s) + 1)
      /\ t[1] = f /\ Range(t) = {f} \union Range(s)
      /\ \A i \in DOMAIN s : t[i + 1] = s[i]
  <2>1. s \in Seq(Range(s))
    BY DEF Spread, IsSeq
  <2> QED BY <2>1, PushSeq
<1> HIDE DEF t
<1>2. \A i \in DOMAIN t : i # 1 => i - 1 \in DOMAIN s /\ t[i] = s[i - 1]
  <2> SUFFICES ASSUME NEW i \in DOMAIN t, i # 1 PROVE i - 1 \in DOMAIN s /\ t[i] = s[i - 1]
    OBVIOUS
  <2>1. i - 1 \in DOMAIN s /\ (i - 1) + 1 = i
    BY <1>1
  <2> QED BY <1>1, <2>1
<1>3. StackIds(t) = OpIds(f.got) \union StackIds(s)
  BY <1>1 DEF StackIds
<1>4. \A i \in DOMAIN s : OpIds(s[i].got) \subseteq StackIds(s)
  BY DEF StackIds, Range
<1>5. \A i \in DOMAIN t : Apart(t[i].got)
  BY <1>1, <1>2 DEF Spread
<1>6. ASSUME NEW i \in DOMAIN t, NEW j \in DOMAIN t, i # j
      PROVE  OpIds(t[i].got) \cap OpIds(t[j].got) = {}
  <2>1. CASE i = 1
    <3>1. j - 1 \in DOMAIN s /\ t[j] = s[j - 1]
      BY <1>2, <1>6, <2>1
    <3> QED BY <1>1, <1>4, <2>1, <3>1
  <2>2. CASE j = 1
    <3>1. i - 1 \in DOMAIN s /\ t[i] = s[i - 1]
      BY <1>2, <1>6, <2>2
    <3> QED BY <1>1, <1>4, <2>2, <3>1
  <2>3. CASE i # 1 /\ j # 1
    <3>1. i - 1 \in DOMAIN s /\ t[i] = s[i - 1] /\ j - 1 \in DOMAIN s /\ t[j] = s[j - 1]
      BY <1>2, <2>3
    <3>2. i - 1 # j - 1
      BY <1>1, <1>6
    <3> QED BY <3>1, <3>2 DEF Spread
  <2> QED BY <2>1, <2>2, <2>3
<1> QED BY <1>1, <1>3, <1>5, <1>6 DEF Spread, IsSeq, t

LEMMA PopSpread ==
  ASSUME NEW s, Spread(s), s # <<>>
  PROVE  /\ Spread(Tail(s)) /\ Apart(s[1].got) /\ Head(s) = s[1] /\ 1 \in DOMAIN s
         /\ StackIds(s) = OpIds(s[1].got) \union StackIds(Tail(s))
         /\ OpIds(s[1].got) \cap StackIds(Tail(s)) = {}
<1> DEFINE t == Tail(s)
<1>1. /\ t \in Seq(Range(t)) /\ Len(s) \in Nat \ {0} /\ DOMAIN s = 1..Len(s)
      /\ Head(s) = s[1] /\ DOMAIN t = 1..(Len(s) - 1)
      /\ Range(s) = {s[1]} \union Range(t)
      /\ \A i \in DOMAIN t : t[i] = s[i + 1]
  <2>1. s \in Seq(Range(s))
    BY DEF Spread, IsSeq
  <2> QED BY <2>1, PopSeq
<1> HIDE DEF t
<1>2. 1 \in DOMAIN s /\ \A i \in DOMAIN t : i + 1 \in DOMAIN s /\ t[i] = s[i + 1] /\ i + 1 # 1
  <2>1. 1 \in DOMAIN s /\ \A i \in DOMAIN t : i + 1 \in DOMAIN s /\ i + 1 # 1
    BY <1>1
  <2> QED BY <1>1, <2>1
<1>3. StackIds(s) = OpIds(s[1].got) \union StackIds(t)
  BY <1>1 DEF StackIds
<1>4. \A i \in DOMAIN t : Apart(t[i].got) /\ OpIds(s[1].got) \cap OpIds(t[i].got) = {}
  BY <1>2 DEF Spread
<1>5. OpIds(s[1].got) \cap StackIds(t) = {}
  BY <1>4 DEF StackIds, Range
<1>6. ASSUME NEW i \in DOMAIN t, NEW j \in DOMAIN t, i # j
      PROVE  OpIds(t[i].got) \cap OpIds(t[j].got) = {}
  <2>1. i + 1 \in DOMAIN s /\ t[i] = s[i + 1] /\ j + 1 \in DOMAIN s /\ t[j] = s[j + 1]
    BY <1>2
  <2>2. i + 1 # j + 1
    BY <1>1, <1>6
  <2> QED BY <2>1, <2>2 DEF Spread
<1> QED BY <1>1, <1>2, <1>3, <1>4, <1>5, <1>6 DEF Spread, IsSeq, t

-----------------------------------------------------------------------------
(* The shape of the calls.                                                  *)

LEMMA SpecsShape ==
  ASSUME NEW s \in Specs, NEW n \in 1..3
  PROVE  s.entries[Phases[n]] \in Seq({e \in Range(s.entries[Phases[n]]) : e.slot = ReadAs[Phases[n]]})
<1>1. Phases[n] \in Range(Phases)
  BY DEF Phases, Range
<1> QED BY <1>1, SpecsAssumption

LEMMA FrameShape ==
  ASSUME NEW part
  PROVE  DOMAIN Frame(part) = FrameFields /\ Frame(part).got = <<>> /\ Frame(part).slot = part.slot
BY DEF Frame, FrameFields

LEMMA NoCalls == ASSUME NEW kind PROVE Calls(<<>>, kind)
BY Nothing DEF Calls, Nested, Rooted

LEMMA PushCall ==
  ASSUME NEW kind, NEW s, Calls(s, kind), NEW f, DOMAIN f = FrameFields, IsSeq(f.got),
         IF s = <<>> THEN f.slot = kind ELSE s[1].slot \in DOMAIN PartsOf /\ f.slot \in PartsOf[s[1].slot]
  PROVE  /\ Calls(<<f>> \o s, kind) /\ Head(<<f>> \o s) = f /\ (<<f>> \o s)[1] = f
         /\ <<f>> \o s # <<>> /\ Tail(<<f>> \o s) = s /\ Range(<<f>> \o s) = {f} \union Range(s)
<1> DEFINE t == <<f>> \o s
           n == Len(s)
<1>1. /\ t \in Seq(Range(t)) /\ t # <<>> /\ Head(t) = f /\ n \in Nat /\ DOMAIN s = 1..n
      /\ Len(t) = n + 1 /\ DOMAIN t = 1..(n + 1) /\ t[1] = f /\ Range(t) = {f} \union Range(s)
      /\ \A i \in DOMAIN s : t[i + 1] = s[i]
  <2>1. s \in Seq(Range(s))
    BY DEF Calls, IsSeq
  <2> QED BY <2>1, PushSeq
<1>2. Tail(t) = s
  <2>1. s \in Seq(Range(s) \union {f})
    BY DEF Calls, IsSeq
  <2> QED BY <2>1
<1>3. s = <<>> <=> n = 0
  BY DEF Calls, IsSeq
<1> HIDE DEF t, n
<1>4. \A i \in DOMAIN t : i # 1 => i - 1 \in DOMAIN s /\ t[i] = s[i - 1]
  <2> SUFFICES ASSUME NEW i \in DOMAIN t, i # 1 PROVE i - 1 \in DOMAIN s /\ t[i] = s[i - 1]
    OBVIOUS
  <2>1. i - 1 \in DOMAIN s /\ (i - 1) + 1 = i
    BY <1>1
  <2> QED BY <1>1, <2>1
<1>5. \A i \in DOMAIN t : DOMAIN t[i] = FrameFields /\ IsSeq(t[i].got)
  BY <1>1, <1>4 DEF Calls
<1>9. ASSUME kind = "scheme", NEW i \in DOMAIN t PROVE t[i].slot \in {"scheme", "flow"}
  <2>1. CASE i # 1
    BY <1>4, <1>9, <2>1 DEF Calls
  <2>2. CASE i = 1 /\ s = <<>>
    BY <1>1, <1>9, <2>2
  <2>3. CASE i = 1 /\ s # <<>>
    <3>1. 1 \in DOMAIN s
      BY <1>1, <1>3, <2>3
    <3>2. s[1].slot \in {"scheme", "flow"} /\ s[1].slot \in DOMAIN PartsOf
      BY <1>9, <2>3, <3>1 DEF Calls
    <3>3. PartsOf["scheme"] = {"flow"} /\ "flow" \notin DOMAIN PartsOf
      BY DEF PartsOf
    <3> QED BY <1>1, <2>3, <3>2, <3>3
  <2> QED BY <2>1, <2>2, <2>3
<1>6. Nested(t)
  <2> SUFFICES ASSUME NEW i \in DOMAIN t, i + 1 \in DOMAIN t
               PROVE  t[i + 1].slot \in DOMAIN PartsOf /\ t[i].slot \in PartsOf[t[i + 1].slot]
    BY DEF Nested
  <2>1. i \in DOMAIN s /\ t[i + 1] = s[i]
    <3>1. i \in DOMAIN s
      BY <1>1
    <3> QED BY <1>1, <3>1
  <2>2. CASE i = 1
    <3>1. n # 0
      BY <1>1, <2>1
    <3> QED BY <1>1, <1>3, <2>1, <2>2, <3>1
  <2>3. CASE i # 1
    <3>1. i - 1 \in DOMAIN s /\ t[i] = s[i - 1] /\ (i - 1) + 1 = i
      BY <1>1, <1>4, <2>3
    <3> QED BY <2>1, <3>1 DEF Calls, Nested
  <2> QED BY <2>2, <2>3
<1>7. Rooted(t, kind)
  <2>1. CASE n = 0
    BY <1>1, <1>3, <2>1 DEF Rooted
  <2>2. CASE n # 0
    <3>1. n \in DOMAIN s /\ t[n + 1] = s[n]
      BY <1>1, <2>2
    <3>2. n = Len(s)
      BY DEF n
    <3> QED BY <1>1, <1>3, <2>2, <3>1, <3>2 DEF Calls, Rooted
  <2> QED BY <2>1, <2>2
<1>8. IsSeq(t)
  BY <1>1 DEF IsSeq
<1> QED BY <1>1, <1>2, <1>5, <1>6, <1>7, <1>8, <1>9 DEF Calls, t

LEMMA PopCall ==
  ASSUME NEW kind, NEW s, Calls(s, kind), s # <<>>
  PROVE  /\ Calls(Tail(s), kind) /\ Head(s) = s[1] /\ 1 \in DOMAIN s
         /\ DOMAIN s[1] = FrameFields /\ IsSeq(s[1].got)
         /\ Range(s) = {s[1]} \union Range(Tail(s))
         /\ Tail(s) = <<>> => s[1].slot = kind
         /\ Tail(s) # <<>> => /\ Tail(s)[1].slot \in DOMAIN PartsOf
                              /\ s[1].slot \in PartsOf[Tail(s)[1].slot]
<1> DEFINE t == Tail(s)
           n == Len(s)
<1>1. /\ t \in Seq(Range(t)) /\ n \in Nat \ {0} /\ DOMAIN s = 1..n
      /\ Head(s) = s[1] /\ Len(t) = n - 1 /\ DOMAIN t = 1..(n - 1)
      /\ Range(s) = {s[1]} \union Range(t)
      /\ \A i \in DOMAIN t : t[i] = s[i + 1]
  <2>1. s \in Seq(Range(s))
    BY DEF Calls, IsSeq
  <2> QED BY <2>1, PopSeq
<1>3. n = Len(s)
  OBVIOUS
<1> HIDE DEF t, n
<1>2. t = <<>> <=> n = 1
  <2>1. t = <<>> <=> Len(t) = 0
    BY <1>1
  <2> QED BY <1>1, <2>1
<1>4. 1 \in DOMAIN s /\ \A i \in DOMAIN t : i + 1 \in DOMAIN s /\ t[i] = s[i + 1]
  <2>1. 1 \in DOMAIN s /\ \A i \in DOMAIN t : i + 1 \in DOMAIN s
    BY <1>1
  <2> QED BY <1>1, <2>1
<1>5. Nested(t)
  <2> SUFFICES ASSUME NEW i \in DOMAIN t, i + 1 \in DOMAIN t
               PROVE  t[i + 1].slot \in DOMAIN PartsOf /\ t[i].slot \in PartsOf[t[i + 1].slot]
    BY DEF Nested
  <2>1. t[i] = s[i + 1] /\ t[i + 1] = s[(i + 1) + 1] /\ i + 1 \in DOMAIN s /\ (i + 1) + 1 \in DOMAIN s
    BY <1>4
  <2> QED BY <2>1 DEF Calls, Nested
<1>6. Rooted(t, kind)
  <2> SUFFICES ASSUME t # <<>> PROVE t[n - 1].slot = kind
    BY <1>1 DEF Rooted
  <2>1. n - 1 \in DOMAIN t /\ (n - 1) + 1 = n
    BY <1>1, <1>2
  <2>2. t[n - 1] = s[n]
    BY <1>1, <2>1
  <2> QED BY <1>3, <2>2 DEF Calls, Rooted
<1>7. t = <<>> => s[1].slot = kind
  BY <1>2, <1>3 DEF Calls, Rooted
<1>8. t # <<>> => t[1].slot \in DOMAIN PartsOf /\ s[1].slot \in PartsOf[t[1].slot]
  <2> SUFFICES ASSUME t # <<>> PROVE t[1].slot \in DOMAIN PartsOf /\ s[1].slot \in PartsOf[t[1].slot]
    OBVIOUS
  <2>1. 1 \in DOMAIN t /\ 1 + 1 \in DOMAIN s
    BY <1>1, <1>2
  <2>2. t[1] = s[1 + 1]
    BY <1>1, <2>1
  <2> QED BY <1>4, <2>1, <2>2 DEF Calls, Nested
<1>9. \A i \in DOMAIN t : DOMAIN t[i] = FrameFields /\ IsSeq(t[i].got)
  BY <1>4 DEF Calls
<1>10. kind = "scheme" => \A i \in DOMAIN t : t[i].slot \in {"scheme", "flow"}
  BY <1>4 DEF Calls
<1> QED BY <1>1, <1>4, <1>5, <1>6, <1>7, <1>8, <1>9, <1>10 DEF Calls, IsSeq, t

(* A value that is left comes to nothing, or to one of its own kind.        *)
LEMMA ValueFacts ==
  ASSUME NEW f, NEW has, NEW got
  PROVE  /\ Value(f, has, got).slot = f.slot /\ Value(f, has, got).got = got
         /\ Value(f, has, got).has = has
BY DEF Value

LEMMA GivenShape ==
  ASSUME Shape, pc \in {"enter", "parts"}, stack # <<>>,
         UNCHANGED <<phase, spec, todo, stack>>, pc' = "leave",
         ret' = <<>> \/ \E v : ret' = <<v>> /\ v.slot = stack[1].slot /\ IsSeq(v.got),
         DOMAIN ir' = DOMAIN ir, IsSeq(ir'.operations), ir'.webhooks = ir.webhooks
  PROVE  Shape'
<1>1. phase # 0 /\ Kind' = Kind
  BY DEF Shape, Kind
<1>2. stack' = stack /\ todo' = todo
  OBVIOUS
<1>3. Calls(stack, Kind)' /\ Listed(todo, Kind)'
  <2>1. Calls(stack', Kind') /\ Listed(todo', Kind')
    BY <1>1, <1>2 DEF Shape
  <2> QED BY <2>1
<1>4. DOMAIN EmptyIr' = DOMAIN EmptyIr
  BY DEF EmptyIr
<1> QED BY <1>1, <1>2, <1>3, <1>4 DEF Shape

LEMMA InnerShape ==
  ASSUME Shape, phase # 0, pc' \in {"enter", "parts", "root", "done"}, UNCHANGED <<phase, spec>>,
         Calls(stack', Kind), Listed(todo', Kind),
         DOMAIN ir' = DOMAIN ir, IsSeq(ir'.operations), IsSeq(ir'.webhooks),
         \A k \in DOMAIN ir'.webhooks : IsSeq(ir'.webhooks[k].operations)
  PROVE  Shape'
<1>1. Kind' = Kind
  BY DEF Kind
<1>2. Calls(stack, Kind)' /\ Listed(todo, Kind)'
  <2>1. Calls(stack', Kind') /\ Listed(todo', Kind')
    BY <1>1
  <2> QED BY <2>1
<1>3. DOMAIN EmptyIr' = DOMAIN EmptyIr
  BY DEF EmptyIr
<1> QED BY <1>2, <1>3 DEF Shape

(* The root of the walk hands over what it came to.                         *)
LEMMA DeliveredFacts ==
  ASSUME Shape, pc = "leave", stack # <<>>, Tail(stack) = <<>>,
         NEW ops, ops = IF ret = <<>> THEN <<>> ELSE Slots(ret[1].got, {"op"})
  PROVE  /\ phase \in 1..3 /\ stack[1].slot = Kind /\ DOMAIN Delivered = DOMAIN ir
         /\ IsSeq(ops)
         /\ phase = 1 => Kind = "scheme" /\ Delivered.operations = ir.operations /\ Delivered.webhooks = ir.webhooks
         /\ phase = 2 => /\ Kind = "path" /\ Delivered.operations = ir.operations \o ops
                         /\ Delivered.webhooks = ir.webhooks
         /\ phase = 3 => Kind = "webhook" /\ Delivered.operations = ir.operations
         /\ phase = 3 => \E w : w.operations = ops /\ Delivered.webhooks = Append(ir.webhooks, w)
<1>1. phase \in 1..3 /\ stack[1].slot = Kind /\ Head(stack) = stack[1]
  <2>1. phase # 0 /\ phase \in 0..3
    BY DEF Shape
  <2>2. Calls(stack, Kind)
    BY <2>1 DEF Shape
  <2>3. stack[1].slot = Kind /\ Head(stack) = stack[1]
    BY <2>2, PopCall
  <2>4. phase \in 1..3
    BY <2>1
  <2> QED BY <2>3, <2>4
<1>2. Kind = IF phase = 1 THEN "scheme" ELSE IF phase = 2 THEN "path" ELSE "webhook"
  BY <1>1 DEF Kind, Phases, ReadAs
<1>3. {"operations", "webhooks", "schemes"} \subseteq DOMAIN ir
  BY DEF Shape, EmptyIr
<1>4. IsSeq(ops)
  <2>1. CASE ret = <<>>
    BY <2>1, Nothing
  <2>2. CASE ret # <<>>
    <3>1. PICK v : ret = <<v>> /\ IsSeq(v.got)
      BY <2>2 DEF Shape
    <3>2. ret[1] = v
      BY <3>1
    <3> QED BY <2>2, <3>1, <3>2, SlotsFacts
  <2> QED BY <2>1, <2>2
<1>5. CASE phase = 1
  <2>1. Delivered = [ir EXCEPT !.schemes = @ \o ret]
    BY <1>1, <1>2, <1>5 DEF Delivered
  <2> QED BY <1>1, <1>2, <1>3, <1>4, <1>5, <2>1
<1>6. CASE phase = 2
  <2>1. Delivered = [ir EXCEPT !.operations = @ \o ops]
    BY <1>1, <1>2, <1>6 DEF Delivered
  <2> QED BY <1>1, <1>2, <1>3, <1>4, <1>6, <2>1
<1>7. CASE phase = 3
  <2> DEFINE w == [name |-> Head(stack).key, operations |-> ops]
  <2>1. Delivered = [ir EXCEPT !.webhooks = Append(@, w)]
    BY <1>1, <1>2, <1>7 DEF Delivered
  <2>2. w.operations = ops
    OBVIOUS
  <2> HIDE DEF w
  <2>3. DOMAIN Delivered = DOMAIN ir /\ Delivered.operations = ir.operations /\ Delivered.webhooks = Append(ir.webhooks, w)
    BY <1>3, <2>1
  <2>4. \E x : x.operations = ops /\ Delivered.webhooks = Append(ir.webhooks, x)
    BY <2>2, <2>3
  <2>5. Kind = "webhook"
    BY <1>2, <1>7
  <2> QED BY <1>1, <1>4, <1>7, <2>3, <2>4, <2>5
<1>8. phase = 3 => Kind = "webhook" /\ Delivered.operations = ir.operations
  BY <1>7
<1>9. phase = 3 => \E w : w.operations = ops /\ Delivered.webhooks = Append(ir.webhooks, w)
  BY <1>7, Zenon
<1>10. phase = 1 \/ phase = 2 \/ phase = 3
  BY <1>1
<1>11. DOMAIN Delivered = DOMAIN ir
  BY <1>10, <1>5, <1>6, <1>7, Zenon
<1>12. phase = 1 => Kind = "scheme" /\ Delivered.operations = ir.operations /\ Delivered.webhooks = ir.webhooks
  BY <1>5, Zenon
<1>13. phase = 2 => /\ Kind = "path" /\ Delivered.operations = ir.operations \o ops
                    /\ Delivered.webhooks = ir.webhooks
  BY <1>6, Zenon
<1> QED BY <1>1, <1>4, <1>8, <1>9, <1>11, <1>12, <1>13, Zenon

LEMMA AppendSeq ==
  ASSUME NEW s, IsSeq(s), NEW x
  PROVE  /\ IsSeq(Append(s, x)) /\ Len(s) \in Nat /\ DOMAIN s = 1..Len(s)
         /\ DOMAIN Append(s, x) = 1..(Len(s) + 1) /\ Append(s, x)[Len(s) + 1] = x
         /\ \A i \in 1..Len(s) : Append(s, x)[i] = s[i]
         /\ Range(Append(s, x)) = Range(s) \union {x}
<1> DEFINE X == Range(s) \union {x}
           t == Append(s, x)
           n == Len(s)
<1>1. s \in Seq(X) /\ x \in X
  BY DEF IsSeq
<1>2. t \in Seq(X) /\ n \in Nat /\ DOMAIN s = 1..n /\ DOMAIN t = 1..(n + 1) /\ t[n + 1] = x
      /\ \A i \in 1..n : t[i] = s[i]
  BY <1>1
<1> HIDE DEF t, n
<1>3. \A i : i \in 1..(n + 1) <=> i \in 1..n \/ i = n + 1
  BY <1>2
<1>4. \A y : y \in Range(t) <=> y \in Range(s) \/ y = x
  BY <1>2, <1>3 DEF Range
<1>5. Range(t) = X
  BY <1>4
<1>6. IsSeq(t)
  BY <1>2, SeqOfRange DEF IsSeq
<1> QED BY <1>2, <1>5, <1>6 DEF t, n

LEMMA JoinSeq ==
  ASSUME NEW s, IsSeq(s), NEW t, IsSeq(t)
  PROVE  IsSeq(s \o t) /\ Range(s \o t) = Range(s) \union Range(t)
<1> DEFINE X == Range(s) \union Range(t)
<1>1. s \in Seq(X) /\ t \in Seq(X)
  BY DEF IsSeq
<1>2. (s \o t) \in Seq(X) /\ Range(s \o t) = X
  BY <1>1, JoinRange
<1> QED BY <1>2, SeqOfRange DEF IsSeq

LEMMA ReplaceCall ==
  ASSUME NEW kind, NEW s, Calls(s, kind), s # <<>>, NEW g, DOMAIN g = FrameFields, IsSeq(g.got), g.slot = s[1].slot
  PROVE  LET t == <<g>> \o Tail(s) IN
         Calls(t, kind) /\ Head(t) = g /\ t[1] = g /\ t # <<>> /\ Tail(t) = Tail(s) /\ Range(t) = {g} \union Range(Tail(s))
<1> DEFINE r == Tail(s)
<1>1. Calls(r, kind)
  BY PopCall
<1>2. r = <<>> => s[1].slot = kind
  BY PopCall
<1>3. r # <<>> => r[1].slot \in DOMAIN PartsOf /\ s[1].slot \in PartsOf[r[1].slot]
  BY PopCall
<1> HIDE DEF r
<1>4. IF r = <<>> THEN g.slot = kind ELSE r[1].slot \in DOMAIN PartsOf /\ g.slot \in PartsOf[r[1].slot]
  BY <1>2, <1>3
<1>5. /\ Calls(<<g>> \o r, kind) /\ Head(<<g>> \o r) = g /\ (<<g>> \o r)[1] = g
      /\ <<g>> \o r # <<>> /\ Tail(<<g>> \o r) = r /\ Range(<<g>> \o r) = {g} \union Range(r)
  BY <1>1, <1>4, PushCall
<1> QED BY <1>5 DEF r

(* The calls, and what the one that has been returned from came to.         *)
LEMMA TopCall ==
  ASSUME Shape, phase # 0, stack # <<>>
  PROVE  /\ Calls(stack, Kind) /\ Head(stack) = stack[1] /\ 1 \in DOMAIN stack
         /\ DOMAIN stack[1] = FrameFields /\ IsSeq(stack[1].got) /\ stack[1] \in Range(stack)
<1>1. Calls(stack, Kind)
  BY DEF Shape
<1> QED BY <1>1, PopCall DEF Range

LEMMA ReturnedValue ==
  ASSUME Shape, pc = "leave", ret # <<>>
  PROVE  ret = <<ret[1]>> /\ ret[1].slot = stack[1].slot /\ IsSeq(ret[1].got) /\ IsSeq(ret) /\ Range(ret) = {ret[1]}
<1>1. PICK v : ret = <<v>> /\ v.slot = stack[1].slot /\ IsSeq(v.got)
  BY DEF Shape
<1>2. ret[1] = v
  BY <1>1
<1> QED BY <1>1, <1>2, One

(* Every action keeps the shape of the calls.                               *)
LEMMA InitShape == Init => Shape
BY NoCalls, Nothing DEF Init, Shape, EmptyIr

LEMMA EntriesListed ==
  ASSUME spec \in Specs, NEW n \in 1..3
  PROVE  Listed(spec.entries[Phases[n]], ReadAs[Phases[n]])
BY SpecsShape DEF Listed

LEMMA ListedFacts ==
  ASSUME NEW s, NEW kind, Listed(s, kind), s # <<>>
  PROVE  Head(s).slot = kind /\ Listed(Tail(s), kind)
<1> DEFINE E == {e \in Range(s) : e.slot = kind}
           t == Tail(s)
<1>1. s \in Seq(E)
  BY DEF Listed
<1>2. Head(s) \in E /\ t \in Seq(E)
  <2> HIDE DEF E
  <2> QED BY <1>1
<1>3. t \in Seq(Range(t))
  BY <1>2, SeqOfRange
<1>4. \A e \in Range(t) : e.slot = kind
  <2> SUFFICES ASSUME NEW i \in DOMAIN t PROVE t[i].slot = kind
    BY DEF Range
  <2>1. t[i] \in E
    <3> HIDE DEF E, t
    <3> QED BY <1>2
  <2> QED BY <2>1
<1>5. {e \in Range(t) : e.slot = kind} = Range(t)
  BY <1>4
<1> QED BY <1>2, <1>3, <1>5 DEF Listed

LEMMA StartShape ==
  ASSUME Shape, stack = <<>>, UNCHANGED <<stack, spec>>, phase' \in 1..3, pc' = "root",
         todo' = spec.entries[Phases[phase']],
         DOMAIN ir' = DOMAIN ir, ir'.operations = ir.operations, ir'.webhooks = ir.webhooks
  PROVE  Shape'
<1>1. Calls(stack', Kind')
  BY NoCalls
<1>2. spec \in Specs /\ spec' = spec
  BY DEF Shape
<1>3. Listed(todo', Kind')
  BY <1>2, EntriesListed DEF Kind
<1>4. Calls(stack, Kind)' /\ Listed(todo, Kind)'
  BY <1>1, <1>3
<1>5. DOMAIN EmptyIr' = DOMAIN EmptyIr
  BY DEF EmptyIr
<1> QED BY <1>2, <1>4, <1>5 DEF Shape

LEMMA StepShape ==
  ASSUME IInv, Shape, Next
  PROVE  Shape'
<1>0. (pc \in {"enter", "parts", "leave"} => stack # <<>> /\ phase # 0) /\ (pc \in {"begin", "root", "done"} => stack = <<>>)
  BY DEF IInv, Shape
<1>1. CASE Begin
  <2>1. stack = <<>> /\ UNCHANGED <<stack, spec>> /\ phase = 0 /\ pc = "begin"
    BY <1>0, <1>1 DEF Begin, Shape
  <2>2. CASE pc' = "done" /\ UNCHANGED <<ir, phase, todo>>
    <3>1. DOMAIN EmptyIr' = DOMAIN EmptyIr
      BY DEF EmptyIr
    <3> QED BY <2>1, <2>2, <3>1 DEF Shape
  <2>3. CASE /\ ir' = [ir EXCEPT !.servers = Servers(spec.root), !.tags = Tags(spec.tags)]
             /\ phase' = 1 /\ todo' = spec.entries.schemes /\ pc' = "root"
    <3>1. DOMAIN ir' = DOMAIN ir /\ ir'.operations = ir.operations /\ ir'.webhooks = ir.webhooks
      BY <2>3 DEF Shape, EmptyIr
    <3>2. Phases[1] = "schemes"
      BY DEF Phases
    <3>3. phase' \in 1..3 /\ todo' = spec.entries[Phases[phase']]
      BY <2>3, <3>2
    <3> QED BY <2>1, <2>3, <3>1, <3>3, StartShape
  <2> QED BY <1>1, <2>2, <2>3 DEF Begin
<1>2. CASE NextPhase
  <2>1. /\ stack = <<>> /\ UNCHANGED <<stack, spec, pc>> /\ pc = "root" /\ phase < Len(Phases) /\ phase' = phase + 1
        /\ todo' = spec.entries[Phases[phase + 1]]
        /\ ir' = [ir EXCEPT !.security = DefaultSecurity(Phases[phase + 1])]
    BY <1>0, <1>2 DEF NextPhase
  <2>2. phase \in 0..3 /\ Len(Phases) = 3
    BY DEF Shape, Phases
  <2>3. phase' \in 1..3
    BY <2>1, <2>2
  <2>4. DOMAIN ir' = DOMAIN ir /\ ir'.operations = ir.operations /\ ir'.webhooks = ir.webhooks
    BY <2>1 DEF Shape, EmptyIr
  <2> QED BY <2>1, <2>3, <2>4, StartShape
<1>3. CASE Scan
  <2>1. phase # 0 /\ pc' = "done" /\ UNCHANGED <<phase, spec, stack, todo, ir>>
    BY <1>3 DEF Scan, Shape
  <2> QED BY <2>1, InnerShape DEF Shape
<1>4. CASE NextRoot
  <2> DEFINE f == Frame(Head(todo))
  <2>1. /\ phase # 0 /\ stack = <<>> /\ todo # <<>> /\ stack' = <<f>> /\ pc' = "enter" /\ todo' = Tail(todo)
        /\ UNCHANGED <<phase, spec, ir>>
    BY <1>0, <1>4 DEF NextRoot, Shape
  <2>2. Head(todo).slot = Kind /\ Listed(Tail(todo), Kind)
    BY <2>1, ListedFacts DEF Shape
  <2>3. DOMAIN f = FrameFields /\ IsSeq(f.got) /\ f.slot = Kind
    BY <2>2, FrameShape, Nothing
  <2> HIDE DEF f
  <2>4. Calls(<<f>> \o <<>>, Kind)
    BY <2>3, NoCalls, PushCall
  <2>5. <<f>> \o <<>> = <<f>>
    OBVIOUS
  <2>6. Calls(stack', Kind) /\ Listed(todo', Kind)
    BY <2>1, <2>2, <2>4, <2>5
  <2> QED BY <2>1, <2>6, InnerShape DEF Shape
<1>5. CASE RefDangles
  <2>1. /\ stack # <<>> /\ pc = "enter" /\ pc' = "leave" /\ ret' = <<>>
        /\ UNCHANGED <<phase, spec, todo, stack, ir>>
    BY <1>0, <1>5 DEF RefDangles, Give
  <2> QED BY <2>1, GivenShape DEF Shape
<1>6. CASE FollowRef
  <2> DEFINE h == Head(stack)
             key == Target(h)
             f == [h EXCEPT !.node = spec.at[key], !.keys = Append(@, key)]
  <2>1. stack # <<>> /\ phase # 0 /\ pc = "enter" /\ UNCHANGED <<phase, spec, todo, ir>>
    BY <1>0, <1>6 DEF FollowRef
  <2>2. CASE pc' = "leave" /\ ret' = <<>> /\ UNCHANGED stack
    BY <2>1, <2>2, GivenShape DEF Shape
  <2>3. CASE stack' = <<f>> \o Tail(stack) /\ UNCHANGED pc
    <3>1. DOMAIN h = FrameFields /\ IsSeq(h.got) /\ h = stack[1] /\ Calls(stack, Kind)
      BY <2>1, TopCall
    <3>2. DOMAIN f = FrameFields /\ f.got = h.got /\ f.slot = h.slot
      BY <3>1 DEF FrameFields
    <3> HIDE DEF f, h
    <3>3. Calls(<<f>> \o Tail(stack), Kind)
      BY <2>1, <3>1, <3>2, ReplaceCall
    <3> QED BY <2>1, <2>3, <3>3, InnerShape DEF Shape
  <2> QED BY <1>6, <2>2, <2>3 DEF FollowRef, Give, Replace
<1>7. CASE Refuse
  <2>1. /\ stack # <<>> /\ phase # 0 /\ pc = "enter" /\ pc' = "leave" /\ ret' = Refused(Head(stack))
        /\ UNCHANGED <<phase, spec, todo, stack, ir>>
    BY <1>0, <1>7 DEF Refuse, Give
  <2>2. Head(stack) = stack[1]
    BY <2>1, TopCall
  <2>3. ret' = <<>> \/ \E v : ret' = <<v>> /\ v.slot = stack[1].slot /\ IsSeq(v.got)
    BY <2>1, <2>2, ValueFacts, Nothing DEF Refused
  <2> QED BY <2>1, <2>3, GivenShape DEF Shape
<1>8. CASE Accept
  <2>1. phase # 0 /\ pc' = "parts" /\ UNCHANGED <<phase, spec, todo, stack, ir>>
    BY <1>0, <1>8 DEF Accept
  <2> QED BY <2>1, InnerShape DEF Shape
<1>9. CASE NextPart
  <2> DEFINE h == Head(stack)
             part == h.node.parts[h.next]
             f == Frame(part)
  <2>1. /\ stack # <<>> /\ phase # 0 /\ pc' = "enter" /\ stack' = <<f>> \o stack /\ UNCHANGED <<phase, spec, todo, ir>>
        /\ Known(h, part)
    BY <1>0, <1>9 DEF NextPart, Skipped
  <2>2. h = stack[1] /\ Calls(stack, Kind)
    BY <2>1, TopCall
  <2>3. DOMAIN f = FrameFields /\ IsSeq(f.got) /\ f.slot = part.slot
    BY FrameShape, Nothing
  <2>4. h.slot \in DOMAIN PartsOf /\ part.slot \in PartsOf[h.slot]
    BY <2>1 DEF Known
  <2> HIDE DEF f, part, h
  <2>5. IF stack = <<>> THEN f.slot = Kind ELSE stack[1].slot \in DOMAIN PartsOf /\ f.slot \in PartsOf[stack[1].slot]
    BY <2>1, <2>2, <2>3, <2>4
  <2>6. Calls(<<f>> \o stack, Kind)
    BY <2>2, <2>3, <2>5, PushCall
  <2> QED BY <2>1, <2>6, InnerShape DEF Shape
<1>10. CASE SkipPart
  <2> DEFINE h == Head(stack)
             f == [h EXCEPT !.next = @ + 1]
  <2>1. /\ stack # <<>> /\ phase # 0 /\ pc = "parts" /\ stack' = <<f>> \o Tail(stack)
        /\ UNCHANGED <<phase, spec, todo, ir, pc>>
    BY <1>0, <1>10 DEF SkipPart, Replace
  <2>2. DOMAIN h = FrameFields /\ IsSeq(h.got) /\ h = stack[1] /\ Calls(stack, Kind)
    BY <2>1, TopCall
  <2>3. DOMAIN f = FrameFields /\ f.got = h.got /\ f.slot = h.slot
    BY <2>2 DEF FrameFields
  <2> HIDE DEF f, h
  <2>4. Calls(<<f>> \o Tail(stack), Kind)
    BY <2>1, <2>2, <2>3, ReplaceCall
  <2> QED BY <2>1, <2>4, InnerShape DEF Shape
<1>11. CASE CloseOperation
  <2> DEFINE h == Head(stack)
             op == Operation(stack[2], h)
  <2>1. /\ stack # <<>> /\ phase # 0 /\ pc = "parts" /\ pc' = "leave" /\ UNCHANGED <<phase, spec, todo, stack, ir>>
        /\ ret' = <<>> \/ ret' = <<op>>
    BY <1>0, <1>11 DEF CloseOperation, Give
  <2>2. h = stack[1] /\ IsSeq(h.got)
    BY <2>1, TopCall
  <2>3. op.slot = h.slot /\ IsSeq(op.got)
    BY <2>2, ValueFacts, SlotsFacts DEF Operation
  <2> HIDE DEF op, h
  <2>4. ret' = <<>> \/ \E v : ret' = <<v>> /\ v.slot = stack[1].slot /\ IsSeq(v.got)
    BY <2>1, <2>2, <2>3
  <2> QED BY <2>1, <2>4, GivenShape DEF Shape
<1>12. CASE CloseExpression
  <2> DEFINE h == Head(stack)
             ops == Slots(h.got, {"op"})
             v == Value(h, [ids |-> Ids(ops)], <<>>)
  <2>1. /\ stack # <<>> /\ phase # 0 /\ pc = "parts" /\ pc' = "leave" /\ UNCHANGED <<phase, spec, todo, stack>>
        /\ ir' = [ir EXCEPT !.operations = @ \o ops] /\ ret' = <<v>>
    BY <1>0, <1>12 DEF CloseExpression, Give
  <2>2. h = stack[1] /\ IsSeq(h.got)
    BY <2>1, TopCall
  <2>3. v.slot = h.slot /\ IsSeq(v.got) /\ IsSeq(ops)
    BY <2>2, ValueFacts, SlotsFacts, Nothing
  <2> HIDE DEF v, ops, h
  <2>4. DOMAIN ir' = DOMAIN ir /\ ir'.operations = ir.operations \o ops /\ ir'.webhooks = ir.webhooks
    BY <2>1 DEF Shape, EmptyIr
  <2>5. IsSeq(ir'.operations)
    BY <2>3, <2>4, JoinSeq DEF Shape
  <2>6. ret' = <<>> \/ \E x : ret' = <<x>> /\ x.slot = stack[1].slot /\ IsSeq(x.got)
    BY <2>1, <2>2, <2>3
  <2> QED BY <2>1, <2>4, <2>5, <2>6, GivenShape
<1>13. CASE CloseOther
  <2> DEFINE h == Head(stack)
             v == Value(h, Kept(h.node), h.got)
  <2>1. /\ stack # <<>> /\ phase # 0 /\ pc = "parts" /\ pc' = "leave" /\ UNCHANGED <<phase, spec, todo, stack, ir>>
        /\ ret' = <<>> \/ ret' = <<v>>
    BY <1>0, <1>13 DEF CloseOther, Give
  <2>2. h = stack[1] /\ IsSeq(h.got)
    BY <2>1, TopCall
  <2>3. v.slot = h.slot /\ v.got = h.got
    BY ValueFacts
  <2> HIDE DEF v, h
  <2>4. ret' = <<>> \/ \E x : ret' = <<x>> /\ x.slot = stack[1].slot /\ IsSeq(x.got)
    BY <2>1, <2>2, <2>3
  <2> QED BY <2>1, <2>4, GivenShape DEF Shape
<1>14. CASE Leave
  <2> DEFINE outer == Tail(stack)
             g == Head(outer)
             f == [g EXCEPT !.next = @ + 1, !.got = @ \o ret]
  <2>1. stack # <<>> /\ phase # 0 /\ pc = "leave" /\ UNCHANGED <<phase, spec, todo>>
    BY <1>0, <1>14 DEF Leave
  <2>2. CASE outer = <<>> /\ ir' = Delivered /\ stack' = <<>> /\ pc' = "root"
    <3> DEFINE ops == IF ret = <<>> THEN <<>> ELSE Slots(ret[1].got, {"op"})
    <3>1. /\ phase \in 1..3 /\ DOMAIN Delivered = DOMAIN ir /\ IsSeq(ops)
          /\ phase = 1 => Delivered.operations = ir.operations /\ Delivered.webhooks = ir.webhooks
          /\ phase = 2 => Delivered.operations = ir.operations \o ops /\ Delivered.webhooks = ir.webhooks
          /\ phase = 3 => Delivered.operations = ir.operations
          /\ phase = 3 => \E w : w.operations = ops /\ Delivered.webhooks = Append(ir.webhooks, w)
      BY <2>1, <2>2, DeliveredFacts, ZenonT(60)
    <3> HIDE DEF ops
    <3>2. IsSeq(ir.operations) /\ IsSeq(ir.webhooks) /\ \A k \in DOMAIN ir.webhooks : IsSeq(ir.webhooks[k].operations)
      BY DEF Shape
    <3>3. IsSeq(ir'.operations)
      <4>1. IsSeq(ir.operations \o ops)
        BY <3>1, <3>2, JoinSeq
      <4>2. ir'.operations = ir.operations \/ ir'.operations = ir.operations \o ops
        BY <2>2, <3>1
      <4> QED BY <3>2, <4>1, <4>2
    <3>4. IsSeq(ir'.webhooks) /\ \A k \in DOMAIN ir'.webhooks : IsSeq(ir'.webhooks[k].operations)
      <4>1. CASE phase # 3
        BY <2>2, <3>1, <3>2, <4>1
      <4>2. CASE phase = 3
        <5> DEFINE W == ir.webhooks
                   n == Len(W)
        <5>1. PICK w : w.operations = ops /\ Delivered.webhooks = Append(W, w)
          BY <3>1, <4>2
        <5>2. ir'.webhooks = Append(W, w)
          BY <2>2, <5>1
        <5>3. /\ IsSeq(Append(W, w)) /\ n \in Nat /\ DOMAIN W = 1..n
              /\ DOMAIN Append(W, w) = 1..(n + 1) /\ Append(W, w)[n + 1] = w
              /\ \A i \in 1..n : Append(W, w)[i] = W[i]
          BY <3>2, AppendSeq
        <5> HIDE DEF n
        <5>4. \A i : i \in 1..(n + 1) <=> i \in 1..n \/ i = n + 1
          BY <5>3
        <5> QED BY <3>1, <3>2, <5>1, <5>2, <5>3, <5>4
      <4> QED BY <4>1, <4>2
    <3>5. Calls(stack', Kind) /\ Listed(todo', Kind)
      BY <2>1, <2>2, NoCalls DEF Shape
    <3>6. DOMAIN ir' = DOMAIN ir
      BY <2>2, <3>1
    <3> QED BY <2>1, <2>2, <3>3, <3>4, <3>5, <3>6, InnerShape
  <2>3. CASE outer # <<>> /\ stack' = <<f>> \o Tail(outer) /\ pc' = "parts" /\ UNCHANGED ir
    <3>1. Calls(outer, Kind)
      BY <2>1, PopCall DEF Shape
    <3> HIDE DEF outer
    <3>2. DOMAIN g = FrameFields /\ IsSeq(g.got) /\ g = outer[1]
      BY <2>3, <3>1, PopCall
    <3>3. DOMAIN f = FrameFields /\ f.got = g.got \o ret /\ f.slot = g.slot
      BY <3>2 DEF FrameFields
    <3>4. IsSeq(ret)
      BY <2>1, ReturnedValue, Nothing
    <3> HIDE DEF f, g
    <3>5. IsSeq(f.got)
      BY <3>2, <3>3, <3>4, JoinSeq
    <3>6. Calls(<<f>> \o Tail(outer), Kind)
      BY <2>3, <3>1, <3>2, <3>3, <3>5, ReplaceCall
    <3> QED BY <2>1, <2>3, <3>6, InnerShape DEF Shape
  <2> QED BY <1>14, <2>2, <2>3 DEF Leave
<1>15. CASE Finish
  BY <1>15 DEF Finish, vars, where, Shape, Kind, Calls, Nested, Rooted, Listed
<1> QED BY <1>1, <1>2, <1>3, <1>4, <1>5, <1>6, <1>7, <1>8, <1>9, <1>10, <1>11, <1>12, <1>13, <1>14, <1>15 DEF Next

-----------------------------------------------------------------------------
(* Operation ids.                                                           *)

(* What is being returned may be given up.                                  *)
LEMMA Less ==
  ASSUME NEW O, NEW W, NEW L, NEW P, NEW S, Owned(O, W, L, P, S), NEW R, Apart(R), OpIds(R) \subseteq OpIds(P)
  PROVE  Owned(O, W, L, R, S)
BY DEF Owned

(* A call returns what it has read, or a new operation.                     *)
LEMMA GiveOwned ==
  ASSUME NEW O, NEW W, NEW L, NEW Q, NEW S, Owned(O, W, L, Q, S), L # <<>>,
         NEW R, Apart(R), NEW T, OpIds(R) \subseteq OpIds(L[1].got) \union (T \ S)
  PROVE  Owned(O, W, Tail(L), R, S \union T)
<1>1. /\ Spread(Tail(L)) /\ StackIds(L) = OpIds(L[1].got) \union StackIds(Tail(L))
      /\ OpIds(L[1].got) \cap StackIds(Tail(L)) = {}
  BY PopSpread DEF Owned
<1> QED BY <1>1 DEF Owned

(* What is in nobody's hands can be taken.                                  *)
LEMMA JoinOwned ==
  ASSUME NEW O, NEW W, NEW L, NEW S, NEW P, Owned(O, W, L, P, S), IsSeq(O),
         NEW R, IsSeq(R), AllOps(R), Apart(R), OpIds(R) \subseteq OpIds(P)
  PROVE  Owned(O \o R, W, L, <<>>, S)
<1> DEFINE J == O \o R
<1>1. OpIds(O) \cap OpIds(R) = {} /\ Apart(O) /\ AllOps(O)
  BY DEF Owned
<1>2. Apart(J) /\ OpIds(J) = OpIds(O) \union OpIds(R) /\ AllOps(J)
  BY <1>1, JoinOps
<1> HIDE DEF J
<1>3. Owned(J, W, L, <<>>, S)
  BY <1>2, Nothing DEF Owned
<1> QED BY <1>3 DEF J

LEMMA WebhookOwned ==
  ASSUME NEW O, NEW W, NEW L, NEW S, NEW P, Owned(O, W, L, P, S), IsSeq(W),
         NEW w, AllOps(w.operations), Apart(w.operations), OpIds(w.operations) \subseteq OpIds(P)
  PROVE  Owned(O, Append(W, w), L, <<>>, S)
<1> DEFINE V == Append(W, w)
           n == Len(W)
<1>1. /\ n \in Nat /\ DOMAIN W = 1..n /\ DOMAIN V = 1..(n + 1) /\ V[n + 1] = w
      /\ \A i \in 1..n : V[i] = W[i]
      /\ Range(V) = Range(W) \union {w}
  BY AppendSeq
<1> HIDE DEF V, n
<1>2. \A i : i \in 1..(n + 1) <=> i \in 1..n \/ i = n + 1
  BY <1>1
<1>3. WebhookIds(V) = WebhookIds(W) \union OpIds(w.operations)
  BY <1>1 DEF WebhookIds
<1>4. \A k \in DOMAIN V : AllOps(V[k].operations) /\ Apart(V[k].operations)
  BY <1>1, <1>2 DEF Owned
<1>5. \A k \in 1..n : OpIds(W[k].operations) \cap OpIds(w.operations) = {}
  <2>1. \A k \in 1..n : OpIds(W[k].operations) \subseteq WebhookIds(W)
    BY <1>1 DEF WebhookIds, Range
  <2> QED BY <2>1 DEF Owned
<1>6. ASSUME NEW k \in DOMAIN V, NEW l \in DOMAIN V, k # l
      PROVE  OpIds(V[k].operations) \cap OpIds(V[l].operations) = {}
  <2>1. CASE k \in 1..n /\ l \in 1..n
    BY <1>1, <1>6, <2>1 DEF Owned
  <2>2. CASE k \in 1..n /\ l = n + 1
    BY <1>1, <1>5, <2>2
  <2>3. CASE k = n + 1 /\ l \in 1..n
    BY <1>1, <1>5, <2>3
  <2> QED BY <1>1, <1>2, <1>6, <2>1, <2>2, <2>3
<1>7. Owned(O, V, L, <<>>, S)
  BY <1>3, <1>4, <1>6, Nothing DEF Owned
<1> QED BY <1>7 DEF V

(* A call is made, and a call takes what another returned.                  *)
LEMMA PushOwned ==
  ASSUME NEW O, NEW W, NEW L, NEW S, NEW P, Owned(O, W, L, P, S),
         NEW f, Apart(f.got), OpIds(f.got) \subseteq OpIds(P)
  PROVE  Owned(O, W, <<f>> \o L, <<>>, S)
<1> DEFINE M == <<f>> \o L
<1>1. OpIds(f.got) \cap StackIds(L) = {} /\ Spread(L)
  BY DEF Owned
<1>2. Spread(M) /\ StackIds(M) = OpIds(f.got) \union StackIds(L)
  BY <1>1, PushSpread
<1> HIDE DEF M
<1>3. Owned(O, W, M, <<>>, S)
  BY <1>2, Nothing DEF Owned
<1> QED BY <1>3 DEF M

LEMMA TakeOwned ==
  ASSUME NEW O, NEW W, NEW L, NEW S, NEW P, Owned(O, W, L, P, S), L # <<>>, IsSeq(L[1].got), IsSeq(P),
         NEW f, f.got = L[1].got \o P
  PROVE  Owned(O, W, <<f>> \o Tail(L), <<>>, S)
<1> DEFINE M == <<f>> \o Tail(L)
           r == Tail(L)
           g == L[1].got
<1>1. Spread(r) /\ Apart(g) /\ StackIds(L) = OpIds(g) \union StackIds(r) /\ OpIds(g) \cap StackIds(r) = {}
  BY PopSpread DEF Owned
<1>a. IsSeq(g) /\ f.got = g \o P /\ M = <<f>> \o r
  OBVIOUS
<1> HIDE DEF r, g, M
<1>2. OpIds(g) \cap OpIds(P) = {} /\ Apart(P) /\ OpIds(P) \cap StackIds(r) = {}
  BY <1>1 DEF Owned
<1>3. Apart(f.got) /\ OpIds(f.got) = OpIds(g) \union OpIds(P)
  BY <1>1, <1>2, <1>a, JoinOps
<1>4. OpIds(f.got) \cap StackIds(r) = {}
  BY <1>1, <1>2, <1>3
<1>5. Spread(M) /\ StackIds(M) = OpIds(f.got) \union StackIds(r)
  BY <1>1, <1>3, <1>4, <1>a, PushSpread
<1>6. Owned(O, W, M, <<>>, S)
  BY <1>1, <1>3, <1>5, Nothing DEF Owned
<1> QED BY <1>6 DEF M

LEMMA ReplaceOwned ==
  ASSUME NEW O, NEW W, NEW L, NEW S, NEW P, Owned(O, W, L, P, S), L # <<>>, NEW f, f.got = L[1].got
  PROVE  Owned(O, W, <<f>> \o Tail(L), <<>>, S)
<1> DEFINE r == Tail(L)
           g == L[1].got
<1>1. Spread(r) /\ Apart(g) /\ StackIds(L) = OpIds(g) \union StackIds(r) /\ OpIds(g) \cap StackIds(r) = {}
  BY PopSpread DEF Owned
<1>2. f.got = g
  OBVIOUS
<1> HIDE DEF r, g
<1>3. Owned(O, W, r, g, S)
  BY <1>1 DEF Owned
<1>4. Owned(O, W, <<f>> \o r, <<>>, S)
  BY <1>1, <1>2, <1>3, PushOwned
<1> QED BY <1>4 DEF r

LEMMA NotLeaving ==
  /\ pc # "leave" => Live = stack /\ Returned = <<>>
  /\ pc' # "leave" => Live' = stack' /\ Returned' = <<>>
  /\ pc = "leave" => Live = Tail(stack)
  /\ pc' = "leave" => Live' = Tail(stack')
BY DEF Live, Returned

LEMMA QuietOps ==
  ASSUME OpsInv, pc' # "leave", UNCHANGED <<phase, seen>>,
         Owned(ir'.operations, ir'.webhooks, stack', <<>>, seen), phase < 3 => ir'.webhooks = <<>>
  PROVE  OpsInv'
<1>1. Owned(ir'.operations, ir'.webhooks, Live', Returned', seen')
  BY NotLeaving
<1> QED BY <1>1 DEF OpsInv

LEMMA GiveOps ==
  ASSUME OpsInv, pc # "leave", pc' = "leave", stack # <<>>, UNCHANGED <<stack, ir, phase>>,
         Apart(Returned'), NEW T, OpIds(Returned') \subseteq OpIds(stack[1].got) \union (T \ seen),
         seen' = seen \union T, phase < 2 => T = {}
  PROVE  OpsInv'
<1>1. Owned(ir.operations, ir.webhooks, stack, <<>>, seen)
  BY NotLeaving DEF OpsInv
<1> DEFINE R == Returned'
<1>2. Apart(R) /\ OpIds(R) \subseteq OpIds(stack[1].got) \union (T \ seen)
  OBVIOUS
<1>a. R = Returned'
  OBVIOUS
<1> HIDE DEF R
<1>3. Owned(ir.operations, ir.webhooks, Tail(stack), R, seen \union T)
  BY <1>1, <1>2, GiveOwned
<1>4. Owned(ir'.operations, ir'.webhooks, Live', Returned', seen')
  BY <1>3, <1>a, NotLeaving
<1> QED BY <1>4 DEF OpsInv

(* Returning nothing, or a value that is no operation and holds none.       *)
LEMMA GiveNone ==
  ASSUME OpsInv, pc # "leave", pc' = "leave", stack # <<>>, UNCHANGED <<stack, ir, phase, seen>>,
         ret' = <<>> \/ \E v : ret' = <<v>> /\ v.slot \notin {"op", "path", "webhook"}
  PROVE  OpsInv'
<1>1. Apart(Returned') /\ OpIds(Returned') = {}
  <2>1. CASE ret' = <<>>
    BY <2>1, Nothing DEF Returned
  <2>2. CASE ret' # <<>>
    <3>1. PICK v : ret' = <<v>> /\ v.slot \notin {"op", "path", "webhook"}
      BY <2>2
    <3>2. ret'[1] = v /\ ret' # <<>>
      BY <3>1
    <3>3. Returned' = <<v>>
      BY <3>1, <3>2 DEF Returned
    <3> QED BY <3>1, <3>3, One
  <2> QED BY <2>1, <2>2
<1>2. seen' = seen \union {}
  OBVIOUS
<1> QED BY <1>1, <1>2, GiveOps

(* Before the paths there are but schemes and their flows.                  *)
LEMMA LaterPhase ==
  ASSUME Shape, phase # 0, stack # <<>>, stack[1].slot \notin {"scheme", "flow"}
  PROVE  phase \in 2..3 /\ ~ (phase < 2)
<1>1. CASE phase = 1
  <2>1. Kind = "scheme"
    BY <1>1 DEF Kind, Phases, ReadAs
  <2>2. Calls(stack, Kind) /\ 1 \in DOMAIN stack
    BY TopCall
  <2> QED BY <2>1, <2>2 DEF Calls
<1>2. CASE phase # 1
  BY <1>2 DEF Shape
<1> QED BY <1>1, <1>2

LEMMA NoItemsBelow == \A slot \in DOMAIN PartsOf : "path" \notin PartsOf[slot] /\ "webhook" \notin PartsOf[slot]
BY DEF PartsOf, ItemParts

LEMMA InitOps == Init => OpsInv
<1> SUFFICES ASSUME Init PROVE OpsInv
  OBVIOUS
<1>1. ir.operations = <<>> /\ ir.webhooks = <<>> /\ stack = <<>> /\ pc # "leave" /\ seen = {}
  BY DEF Init, EmptyIr
<1>2. Live = <<>> /\ Returned = <<>>
  BY <1>1, NotLeaving
<1>3. WebhookIds(<<>>) = {}
  BY Nothing DEF WebhookIds
<1>4. Owned(<<>>, <<>>, <<>>, <<>>, {})
  BY <1>3, Nothing DEF Owned
<1> QED BY <1>1, <1>2, <1>4 DEF OpsInv

(* Every action keeps the operations apart.                                 *)
LEMMA NextPhaseOps ==
  ASSUME IInv, Shape, OpsInv, NextPhase
  PROVE  OpsInv'
<1> DEFINE p == Phases[phase + 1]
           O == ir.operations
<1>1. /\ pc = "root" /\ pc' = "root" /\ stack = <<>> /\ stack' = <<>> /\ phase' = phase + 1 /\ phase < 3
      /\ ir' = [ir EXCEPT !.security = DefaultSecurity(p)] /\ seen' = SeenBefore(p)
  BY DEF NextPhase, IInv, Phases
<1>2. phase \in 1..2
  BY <1>1 DEF Shape
<1>3. ir'.operations = O /\ ir'.webhooks = <<>> /\ ir.webhooks = <<>>
  BY <1>1 DEF Shape, EmptyIr, OpsInv
<1>4. Owned(O, <<>>, <<>>, <<>>, seen)
  BY <1>1, <1>3, NotLeaving DEF OpsInv
<1>5. OpIds(O) \subseteq seen'
  <2>1. CASE phase = 1
    BY <1>4, <2>1 DEF OpsInv, Owned
  <2>2. CASE phase = 2
    <3>1. p = "webhooks"
      BY <2>2 DEF Phases
    <3>2. seen' = Ids(O)
      BY <1>1, <3>1 DEF SeenBefore
    <3> QED BY <1>4, <3>2, IdsOfValues DEF Owned, Shape
  <2> QED BY <1>2, <2>1, <2>2
<1>6. Owned(O, <<>>, <<>>, <<>>, seen')
  <2>1. WebhookIds(<<>>) = {}
    BY Nothing DEF WebhookIds
  <2> QED BY <1>4, <1>5, <2>1, Nothing DEF Owned
<1>7. Owned(ir'.operations, ir'.webhooks, Live', Returned', seen')
  BY <1>1, <1>3, <1>6, NotLeaving
<1>8. phase' < 2 => seen' = {}
  BY <1>1, <1>2
<1> QED BY <1>3, <1>7, <1>8 DEF OpsInv

LEMMA CloseOps ==
  ASSUME IInv, Shape, OpsInv, CloseOperation \/ CloseExpression \/ CloseOther
  PROVE  OpsInv'
<1> DEFINE h == Head(stack)
<1>1. /\ stack # <<>> /\ phase # 0 /\ pc = "parts" /\ pc' = "leave" /\ stack' = stack /\ UNCHANGED phase
  BY DEF CloseOperation, CloseExpression, CloseOther, Give, IInv, Shape
<1>2. h = stack[1] /\ IsSeq(h.got)
  BY <1>1, TopCall
<1>3. Owned(ir.operations, ir.webhooks, stack, <<>>, seen)
  BY <1>1, NotLeaving DEF OpsInv
<1>4. Apart(h.got)
  BY <1>1, <1>2, <1>3, PopSpread DEF Owned
<1>5. CASE CloseOperation
  <2> DEFINE op == Operation(stack[2], h)
             d == op.has.id
  <2>1. /\ h.slot = "op" /\ UNCHANGED ir
        /\ \/ d \in seen /\ ret' = <<>> /\ UNCHANGED seen
           \/ d \notin seen /\ seen' = seen \union {d} /\ ret' = <<op>>
    BY <1>5 DEF CloseOperation, Give
  <2>2. op.slot = "op"
    BY <2>1 DEF Operation, Value
  <2>3. phase \in 2..3 /\ ~ (phase < 2)
    BY <1>1, <1>2, <2>1, LaterPhase
  <2>a. d = op.has.id
    OBVIOUS
  <2> HIDE DEF op, d, h
  <2>4. CASE ret' = <<>> /\ UNCHANGED seen
    BY <1>1, <2>1, <2>4, GiveNone
  <2>5. CASE d \notin seen /\ seen' = seen \union {d} /\ ret' = <<op>>
    <3>1. ret'[1] = op /\ ret' # <<>>
      BY <2>5
    <3>2. Returned' = <<op>>
      BY <1>1, <2>2, <2>5, <3>1 DEF Returned
    <3>3. Apart(Returned') /\ OpIds(Returned') = {d}
      BY <2>2, <2>a, <3>2, One
    <3>4. OpIds(Returned') \subseteq OpIds(stack[1].got) \union ({d} \ seen)
      BY <2>5, <3>3
    <3> QED BY <1>1, <2>1, <2>3, <2>5, <3>3, <3>4, GiveOps
  <2> QED BY <2>1, <2>4, <2>5
<1>6. CASE CloseExpression
  <2> DEFINE ops == Slots(h.got, {"op"})
             v == Value(h, [ids |-> Ids(ops)], <<>>)
             O == ir.operations
             W == ir.webhooks
             L == Tail(stack)
  <2>1. /\ h.slot = "expr" /\ UNCHANGED seen
        /\ ir' = [ir EXCEPT !.operations = @ \o ops] /\ ret' = <<v>>
    BY <1>6 DEF CloseExpression, Give
  <2>2. IsSeq(ops) /\ AllOps(ops) /\ Apart(ops) /\ OpIds(ops) = OpIds(h.got)
    BY <1>2, <1>4, PickedOps
  <2>3. v.slot = "expr"
    BY <2>1, ValueFacts
  <2>4. phase \in 2..3 /\ ~ (phase < 2)
    BY <1>1, <1>2, <2>1, LaterPhase
  <2> HIDE DEF ops, v, h
  <2>5. ir'.operations = O \o ops /\ ir'.webhooks = W
    BY <2>1 DEF Shape, EmptyIr
  <2>6. Owned(O, W, L, ops, seen)
    <3>1. OpIds(ops) \subseteq OpIds(stack[1].got) \union ({} \ seen)
      BY <1>2, <2>2
    <3>2. Owned(O, W, L, ops, seen \union {})
      BY <1>1, <1>3, <2>2, <3>1, GiveOwned
    <3>3. seen \union {} = seen
      OBVIOUS
    <3> QED BY <3>2, <3>3
  <2>7. IsSeq(O)
    BY DEF Shape
  <2>8. Owned(O \o ops, W, L, <<>>, seen)
    BY <2>2, <2>6, <2>7, JoinOwned
  <2>9. Owned(O \o ops, W, L, <<v>>, seen)
    BY <2>3, <2>8, One, Less
  <2>10. Returned' = <<v>> /\ Live' = L
    <3>1. ret' # <<>> /\ ret'[1] = v
      BY <2>1
    <3>2. Returned' = <<v>>
      BY <1>1, <2>1, <2>3, <3>1 DEF Returned
    <3> QED BY <1>1, <3>2, NotLeaving
  <2>11. Owned(ir'.operations, ir'.webhooks, Live', Returned', seen')
    BY <2>1, <2>5, <2>9, <2>10
  <2> QED BY <1>1, <2>1, <2>4, <2>5, <2>11 DEF OpsInv
<1>7. CASE CloseOther
  <2> DEFINE v == Value(h, Kept(h.node), h.got)
  <2>1. h.slot # "op" /\ UNCHANGED <<ir, seen>> /\ (ret' = <<>> \/ ret' = <<v>>)
    BY <1>7 DEF CloseOther, Give
  <2>2. v.slot = h.slot /\ v.got = h.got
    BY ValueFacts
  <2> HIDE DEF v, h
  <2>3. CASE ret' = <<>> \/ v.slot \notin {"path", "webhook"}
    <3>1. ret' = <<>> \/ \E x : ret' = <<x>> /\ x.slot \notin {"op", "path", "webhook"}
      BY <2>1, <2>2, <2>3
    <3> QED BY <1>1, <2>1, <3>1, GiveNone
  <2>4. CASE ret' = <<v>> /\ v.slot \in {"path", "webhook"}
    <3>1. ret' # <<>> /\ ret'[1] = v
      BY <2>4
    <3>2. Returned' = h.got
      BY <1>1, <2>2, <2>4, <3>1 DEF Returned
    <3>3. OpIds(Returned') \subseteq OpIds(stack[1].got) \union ({} \ seen) /\ Apart(Returned') /\ seen' = seen \union {}
      BY <1>2, <1>4, <2>1, <3>2
    <3> QED BY <1>1, <2>1, <3>3, GiveOps
  <2> QED BY <2>1, <2>3, <2>4
<1> QED BY <1>5, <1>6, <1>7

LEMMA LeaveOps ==
  ASSUME IInv, Shape, OpsInv, Leave
  PROVE  OpsInv'
<1> DEFINE outer == Tail(stack)
           O == ir.operations
           W == ir.webhooks
<1>1. /\ stack # <<>> /\ phase # 0 /\ pc = "leave" /\ UNCHANGED <<phase, seen>>
  BY DEF Leave, IInv, Shape
<1>2. Owned(O, W, outer, Returned, seen)
  BY <1>1, NotLeaving DEF OpsInv
<1>3. CASE outer = <<>> /\ ir' = Delivered /\ stack' = <<>> /\ pc' = "root"
  <2> DEFINE ops == IF ret = <<>> THEN <<>> ELSE Slots(ret[1].got, {"op"})
  <2>1. /\ phase \in 1..3 /\ stack[1].slot = Kind
        /\ phase = 1 => Delivered.operations = O /\ Delivered.webhooks = W
        /\ phase = 2 => Kind = "path" /\ Delivered.operations = O \o ops /\ Delivered.webhooks = W
        /\ phase = 3 => Kind = "webhook" /\ Delivered.operations = O
    BY <1>1, <1>3, DeliveredFacts
  <2>2. phase = 3 => \E w : w.operations = ops /\ Delivered.webhooks = Append(W, w)
    BY <1>1, <1>3, DeliveredFacts
  <2>3. phase # 1 => IsSeq(ops) /\ AllOps(ops) /\ Apart(ops) /\ OpIds(ops) \subseteq OpIds(Returned)
    <3>1. CASE ret = <<>>
      BY <3>1, Nothing
    <3>2. CASE ret # <<>> /\ phase # 1
      <4> DEFINE g == ret[1].got
      <4>1. ret[1].slot = stack[1].slot /\ IsSeq(g)
        BY <1>1, <3>2, ReturnedValue
      <4>a. phase = 2 \/ phase = 3
        BY <2>1, <3>2
      <4>2. ret[1].slot \in {"path", "webhook"}
        BY <2>1, <4>1, <4>a
      <4>3. Returned = g
        BY <1>1, <3>2, <4>2 DEF Returned
      <4>4. ops = Slots(g, {"op"})
        BY <3>2
      <4>5. Apart(g)
        BY <1>2, <4>3 DEF Owned
      <4> HIDE DEF ops, g
      <4> QED BY <4>1, <4>3, <4>4, <4>5, PickedOps
    <3> QED BY <3>1, <3>2
  <2> HIDE DEF ops, outer
  <2>4. IsSeq(O) /\ IsSeq(W)
    BY DEF Shape
  <2>5. CASE phase = 1
    <3>1. Owned(O, W, <<>>, <<>>, seen)
      BY <1>2, <1>3, Less, Nothing
    <3>2. Owned(ir'.operations, ir'.webhooks, stack', <<>>, seen)
      BY <1>3, <2>1, <2>5, <3>1
    <3> QED BY <1>1, <1>3, <2>1, <2>5, <3>2, QuietOps DEF OpsInv
  <2>6. CASE phase = 2
    <3>1. Owned(O \o ops, W, <<>>, <<>>, seen)
      <4>1. Owned(O, W, <<>>, Returned, seen)
        BY <1>2, <1>3
      <4> QED BY <2>3, <2>4, <2>6, <4>1, JoinOwned
    <3>2. Owned(ir'.operations, ir'.webhooks, stack', <<>>, seen)
      BY <1>3, <2>1, <2>6, <3>1
    <3> QED BY <1>1, <1>3, <2>1, <2>6, <3>2, QuietOps DEF OpsInv
  <2>7. CASE phase = 3
    <3>0. PICK w : w.operations = ops /\ Delivered.webhooks = Append(W, w)
      BY <2>2, <2>7
    <3>1. Owned(O, Append(W, w), <<>>, <<>>, seen)
      <4>1. Owned(O, W, <<>>, Returned, seen)
        BY <1>2, <1>3
      <4>2. AllOps(w.operations) /\ Apart(w.operations) /\ OpIds(w.operations) \subseteq OpIds(Returned)
        BY <2>3, <2>7, <3>0
      <4> QED BY <2>4, <4>1, <4>2, WebhookOwned
    <3>2. Owned(ir'.operations, ir'.webhooks, stack', <<>>, seen)
      BY <1>3, <2>1, <2>7, <3>0, <3>1
    <3>3. ~ (phase < 3)
      BY <2>7
    <3> QED BY <1>1, <1>3, <3>2, <3>3, QuietOps
  <2>8. phase = 1 \/ phase = 2 \/ phase = 3
    BY <2>1
  <2> QED BY <2>5, <2>6, <2>7, <2>8
<1>4. CASE outer # <<>> /\ pc' = "parts" /\ UNCHANGED ir
           /\ stack' = <<[Head(outer) EXCEPT !.next = @ + 1, !.got = @ \o ret]>> \o Tail(outer)
  <2> DEFINE g == Head(outer)
             f == [g EXCEPT !.next = @ + 1, !.got = @ \o ret]
  <2>1. /\ Calls(outer, Kind) /\ outer[1].slot \in DOMAIN PartsOf
        /\ stack[1].slot \in PartsOf[outer[1].slot]
    BY <1>1, <1>4, PopCall DEF Shape
  <2>2. IsSeq(ret) /\ Returned = ret
    <3>1. CASE ret = <<>>
      BY <3>1, Nothing DEF Returned
    <3>2. CASE ret # <<>>
      <4>1. ret[1].slot = stack[1].slot /\ IsSeq(ret)
        BY <1>1, <3>2, ReturnedValue
      <4>2. ret[1].slot \notin {"path", "webhook"}
        BY <2>1, <4>1, NoItemsBelow
      <4> QED BY <1>1, <3>2, <4>1, <4>2 DEF Returned
    <3> QED BY <3>1, <3>2
  <2> HIDE DEF outer
  <2>3. DOMAIN g = FrameFields /\ IsSeq(g.got) /\ g = outer[1]
    BY <1>4, <2>1, PopCall
  <2>4. f.got = g.got \o ret
    BY <2>3 DEF FrameFields
  <2>5. stack' = <<f>> \o Tail(outer)
    BY <1>4
  <2> HIDE DEF f, g
  <2>6. Owned(O, W, <<f>> \o Tail(outer), <<>>, seen)
    <3>1. f.got = outer[1].got \o ret /\ IsSeq(outer[1].got) /\ Owned(O, W, outer, ret, seen)
      BY <1>2, <2>2, <2>3, <2>4
    <3> QED BY <1>4, <2>2, <3>1, TakeOwned
  <2>7. Owned(ir'.operations, ir'.webhooks, stack', <<>>, seen)
    BY <1>4, <2>5, <2>6
  <2> QED BY <1>1, <1>4, <2>7, QuietOps DEF OpsInv
<1> QED BY <1>3, <1>4 DEF Leave

LEMMA StepOps ==
  ASSUME IInv, Shape, OpsInv, Next
  PROVE  OpsInv'
<1> DEFINE O == ir.operations
           W == ir.webhooks
<1>0. /\ pc \in {"enter", "parts", "leave"} => stack # <<>> /\ phase # 0
      /\ pc \in {"begin", "root", "done"} => stack = <<>>
      /\ pc # "leave" => Owned(O, W, stack, <<>>, seen)
      /\ phase < 3 => W = <<>>
  BY NotLeaving DEF IInv, Shape, OpsInv
<1>1. CASE Begin
  <2>1. /\ pc = "begin" /\ pc' \in {"root", "done"} /\ UNCHANGED <<stack, seen>> /\ phase = 0 /\ phase' \in 0..1
        /\ ir'.operations = O /\ ir'.webhooks = W
    <3>1. pc = "begin" /\ UNCHANGED <<stack, seen>> /\ phase = 0 /\ DOMAIN ir = DOMAIN EmptyIr
      BY <1>1 DEF Begin, Shape
    <3>2. CASE pc' = "done" /\ UNCHANGED <<ir, phase>>
      BY <3>1, <3>2
    <3>3. CASE /\ ir' = [ir EXCEPT !.servers = Servers(spec.root), !.tags = Tags(spec.tags)]
               /\ phase' = 1 /\ pc' = "root"
      BY <3>1, <3>3 DEF EmptyIr
    <3> QED BY <1>1, <3>2, <3>3 DEF Begin
  <2>2. Owned(O, W, stack, <<>>, seen) /\ seen = {} /\ W = <<>>
    BY <1>0, <2>1 DEF OpsInv
  <2>3. Owned(ir'.operations, ir'.webhooks, Live', Returned', seen')
    BY <2>1, <2>2, NotLeaving
  <2> QED BY <2>1, <2>2, <2>3 DEF OpsInv
<1>2. CASE NextPhase
  BY <1>2, NextPhaseOps
<1>3. CASE Scan \/ Accept
  <2>1. pc # "leave" /\ pc' # "leave" /\ UNCHANGED <<phase, seen, stack, ir>>
    BY <1>3 DEF Scan, Accept
  <2>2. Owned(ir'.operations, ir'.webhooks, stack', <<>>, seen)
    BY <1>0, <2>1
  <2> QED BY <1>0, <2>1, <2>2, QuietOps
<1>4. CASE NextRoot \/ NextPart
  <2> DEFINE part == IF pc = "root" THEN Head(todo) ELSE Head(stack).node.parts[Head(stack).next]
             f == Frame(part)
  <2>1. pc # "leave" /\ pc' # "leave" /\ UNCHANGED <<phase, seen, ir>> /\ stack' = <<f>> \o stack
    <3>1. CASE NextRoot
      <4>1. stack = <<>> /\ stack' = <<f>>
        BY <1>0, <3>1 DEF NextRoot
      <4>2. <<f>> \o <<>> = <<f>>
        OBVIOUS
      <4> QED BY <3>1, <4>1, <4>2 DEF NextRoot
    <3>2. CASE NextPart
      BY <3>2 DEF NextPart
    <3> QED BY <1>4, <3>1, <3>2
  <2>2. f.got = <<>>
    BY FrameShape
  <2> HIDE DEF f
  <2>3. Owned(O, W, <<f>> \o stack, <<>>, seen)
    <3>1. Apart(f.got) /\ OpIds(f.got) \subseteq OpIds(<<>>)
      BY <2>2, Nothing
    <3> QED BY <1>0, <2>1, <3>1, PushOwned
  <2>4. Owned(ir'.operations, ir'.webhooks, stack', <<>>, seen)
    BY <2>1, <2>3
  <2> QED BY <1>0, <2>1, <2>4, QuietOps
<1>5. CASE RefDangles
  <2>1. pc = "enter" /\ pc' = "leave" /\ ret' = <<>> /\ UNCHANGED <<phase, seen, stack, ir>>
    BY <1>5 DEF RefDangles, Give
  <2> QED BY <1>0, <2>1, GiveNone
<1>6. CASE FollowRef \/ SkipPart
  <2> DEFINE h == Head(stack)
             f1 == [h EXCEPT !.node = spec.at[Target(h)], !.keys = Append(@, Target(h))]
             f2 == [h EXCEPT !.next = @ + 1]
  <2>1. stack # <<>> /\ phase # 0 /\ pc \in {"enter", "parts"} /\ UNCHANGED <<phase, seen, ir>>
    BY <1>0, <1>6 DEF FollowRef, SkipPart
  <2>2. DOMAIN h = FrameFields /\ h = stack[1]
    BY <2>1, TopCall
  <2>3. f1.got = h.got /\ f2.got = h.got
    BY <2>2 DEF FrameFields
  <2>4. \/ stack' = <<f1>> \o Tail(stack) /\ pc' = pc
        \/ stack' = <<f2>> \o Tail(stack) /\ pc' = pc
        \/ pc' = "leave" /\ ret' = <<>> /\ UNCHANGED stack
    BY <1>6 DEF FollowRef, SkipPart, Replace, Give
  <2> HIDE DEF f1, f2, h
  <2>5. CASE pc' = "leave" /\ ret' = <<>> /\ UNCHANGED stack
    BY <2>1, <2>5, GiveNone
  <2>6. ASSUME NEW f, f.got = h.got, stack' = <<f>> \o Tail(stack), pc' = pc
        PROVE  OpsInv'
    <3>1. Owned(O, W, <<f>> \o Tail(stack), <<>>, seen)
      BY <1>0, <2>1, <2>2, <2>6, ReplaceOwned
    <3>2. Owned(ir'.operations, ir'.webhooks, stack', <<>>, seen)
      BY <2>1, <2>6, <3>1
    <3> QED BY <1>0, <2>1, <2>6, <3>2, QuietOps
  <2> QED BY <2>3, <2>4, <2>5, <2>6
<1>7. CASE Refuse
  <2>1. /\ pc = "enter" /\ pc' = "leave" /\ ret' = Refused(Head(stack)) /\ UNCHANGED <<phase, seen, stack, ir>>
    BY <1>7 DEF Refuse, Give
  <2>2. ret' = <<>> \/ \E v : ret' = <<v>> /\ v.slot \notin {"op", "path", "webhook"}
    BY <2>1, ValueFacts DEF Refused
  <2> QED BY <1>0, <2>1, <2>2, GiveNone
<1>8. CASE CloseOperation \/ CloseExpression \/ CloseOther
  BY <1>8, CloseOps
<1>9. CASE Leave
  BY <1>9, LeaveOps
<1>10. CASE Finish
  BY <1>10 DEF Finish, vars, where, OpsInv, Live, Returned
<1> QED BY <1>1, <1>2, <1>3, <1>4, <1>5, <1>6, <1>7, <1>8, <1>9, <1>10 DEF Next

(* Operations with ids of their own remain apart when they are put together. *)
LEMMA FlatOps ==
  ASSUME NEW X, NEW p \in Seq(Seq(X)),
         \A k \in DOMAIN p : AllOps(p[k]) /\ Apart(p[k]),
         \A k, l \in DOMAIN p : k # l => OpIds(p[k]) \cap OpIds(p[l]) = {}
  PROVE  LET t == FlattenSeq(p) IN
         /\ IsSeq(t) /\ AllOps(t) /\ Apart(t)
         /\ \A d : d \in OpIds(t) <=> \E k \in DOMAIN p : d \in OpIds(p[k])
<1> DEFINE t == FlattenSeq(p)
<1>1. \A k \in DOMAIN p : p[k] \in Seq(X)
  OBVIOUS
<1>2. \A k \in DOMAIN p : IsSeq(p[k])
  BY <1>1, SeqOfRange DEF IsSeq
<1>3. t \in Seq(X) /\ \A x : x \in Range(t) <=> \E k \in DOMAIN p : x \in Range(p[k])
  BY FlattenRange
<1>4. IsSeq(t)
  BY <1>3, SeqOfRange DEF IsSeq
<1>5. \A k \in DOMAIN p : IsInjective(p[k])
  BY DEF IsInjective, AllOps, Apart
<1>6. \A k \in DOMAIN p : \A x \in Range(p[k]) : x.slot = "op" /\ x.has.id \in OpIds(p[k])
  <2> SUFFICES ASSUME NEW k \in DOMAIN p, NEW i \in DOMAIN p[k]
               PROVE  p[k][i].slot = "op" /\ p[k][i].has.id \in OpIds(p[k])
    BY DEF Range
  <2> QED BY DEF AllOps, OpIds
<1>7. \A k, l \in DOMAIN p : k # l => Range(p[k]) \cap Range(p[l]) = {}
  BY <1>6
<1>8. Blocks(p, Len(p), t)
  BY <1>5, <1>7, FlattenBlocks
<1> HIDE DEF t
<1>9. IsInjective(t)
  BY <1>8 DEF Blocks
<1>10. AllOps(t)
  <2>1. \A x \in Range(t) : x.slot = "op"
    BY <1>3, <1>6
  <2> QED BY <1>4, <2>1, IdsOfValues
<1>11. \A d : d \in OpIds(t) <=> \E k \in DOMAIN p : d \in OpIds(p[k])
  <2>1. \A d : d \in OpIds(t) <=> \E x \in Range(t) : x.slot = "op" /\ d = x.has.id
    BY <1>4, IdsOfValues
  <2>2. \A k \in DOMAIN p : \A d : d \in OpIds(p[k]) <=> \E x \in Range(p[k]) : x.slot = "op" /\ d = x.has.id
    BY <1>2, IdsOfValues
  <2>3. ASSUME NEW d \in OpIds(t) PROVE \E k \in DOMAIN p : d \in OpIds(p[k])
    BY <1>3, <1>6, <2>1, SMTT(30)
  <2>4. ASSUME NEW k \in DOMAIN p, NEW d \in OpIds(p[k]) PROVE d \in OpIds(t)
    BY <1>3, <2>1, <2>2
  <2> QED BY <2>3, <2>4
<1>12. Apart(t)
  <2> SUFFICES ASSUME NEW i \in DOMAIN t, NEW j \in DOMAIN t, i # j, t[i].has.id = t[j].has.id
               PROVE  FALSE
    BY DEF Apart
  <2>1. t[i] \in Range(t) /\ t[j] \in Range(t)
    BY DEF Range
  <2>2. PICK k \in DOMAIN p : t[i] \in Range(p[k])
    BY <1>3, <2>1
  <2>3. PICK l \in DOMAIN p : t[j] \in Range(p[l])
    BY <1>3, <2>1
  <2>4. k = l
    BY <1>6, <2>2, <2>3
  <2>5. PICK a \in DOMAIN p[k] : t[i] = p[k][a]
    BY <2>2 DEF Range
  <2>6. PICK b \in DOMAIN p[k] : t[j] = p[k][b]
    BY <2>3, <2>4 DEF Range
  <2>7. a = b
    BY <2>5, <2>6 DEF AllOps, Apart
  <2> QED BY <1>9, <2>5, <2>6, <2>7 DEF IsInjective
<1> QED BY <1>4, <1>10, <1>11, <1>12 DEF t

(* Apart, they have as many ids as there are operations.                    *)
LEMMA CountIds ==
  ASSUME NEW s, IsSeq(s), AllOps(s), Apart(s)
  PROVE  Cardinality(Ids(s)) = Len(s)
<1> DEFINE n == Len(s)
           b == [i \in 1..n |-> s[i].has.id]
           D == Ids(s)
<1>1. n \in Nat /\ DOMAIN s = 1..n
  BY Numbered
<1>2. D = {s[i].has.id : i \in 1..n}
  BY <1>1 DEF Ids
<1>3. \A i, j \in 1..n : i # j => s[i].has.id # s[j].has.id
  BY <1>1 DEF AllOps, Apart
<1> HIDE DEF n, D
<1>4. b \in [1..n -> D] /\ DOMAIN b = 1..n /\ \A i \in 1..n : b[i] = s[i].has.id
  BY <1>2
<1> HIDE DEF b
<1>5. b \in Bijection(1..n, D)
  BY <1>2, <1>3, <1>4 DEF Bijection, Injection, Surjection, IsInjective
<1>6. ExistsBijection(1..n, D)
  BY <1>5 DEF ExistsBijection
<1>7. Cardinality(D) = n
  BY <1>1, <1>6, FS_CountingElements
<1> QED BY <1>7 DEF D, n

(* All operations of the IR, its webhooks and the calls.                    *)
LEMMA WebhookedFacts ==
  ASSUME Shape
  PROVE  /\ IsSeq(Webhooked)
         /\ \A x : x \in Range(Webhooked) <=> \E k \in DOMAIN ir.webhooks : x \in Range(ir.webhooks[k].operations)
         /\ OpsInv => /\ AllOps(Webhooked) /\ Apart(Webhooked)
                      /\ OpIds(Webhooked) = WebhookIds(ir.webhooks)
<1> DEFINE W == ir.webhooks
           p == [k \in DOMAIN W |-> W[k].operations]
           X == UNION {Range(W[k].operations) : k \in DOMAIN W}
           Y == Seq(X)
<1>1. Len(W) \in Nat /\ DOMAIN W = 1..Len(W)
  BY Numbered DEF Shape
<1>2. \A k \in DOMAIN W : p[k] \in Y /\ p[k] = W[k].operations
  <2> SUFFICES ASSUME NEW k \in DOMAIN W PROVE W[k].operations \in Y
    OBVIOUS
  <2>1. W[k].operations \in Seq(Range(W[k].operations)) /\ Range(W[k].operations) \subseteq X
    BY DEF Shape, IsSeq
  <2> HIDE DEF X
  <2> QED BY <2>1
<1>3. p \in Seq(Y) /\ DOMAIN p = DOMAIN W
  <2>1. DOMAIN p = DOMAIN W
    OBVIOUS
  <2>2. \A k \in 1..Len(W) : W[k].operations \in Y
    BY <1>1, <1>2
  <2>3. p = [k \in 1..Len(W) |-> W[k].operations]
    BY <1>1
  <2> HIDE DEF Y, p, W
  <2>4. p \in Seq(Y)
    BY <1>1, <2>2, <2>3
  <2> QED BY <2>1, <2>4
<1>4. Webhooked = FlattenSeq(p)
  BY DEF Webhooked
<1>a. W = ir.webhooks
  OBVIOUS
<1> HIDE DEF p, X, W
<1>5. FlattenSeq(p) \in Seq(X) /\ \A x : x \in Range(Webhooked) <=> \E k \in DOMAIN W : x \in Range(W[k].operations)
  BY <1>2, <1>3, <1>4, FlattenRange
<1>6. IsSeq(Webhooked)
  BY <1>4, <1>5, SeqOfRange DEF IsSeq
<1>7. ASSUME OpsInv
      PROVE  AllOps(Webhooked) /\ Apart(Webhooked) /\ OpIds(Webhooked) = WebhookIds(W)
  <2>1. /\ \A k \in DOMAIN W : AllOps(W[k].operations) /\ Apart(W[k].operations)
        /\ \A k, l \in DOMAIN W : k # l => OpIds(W[k].operations) \cap OpIds(W[l].operations) = {}
    BY <1>7, <1>a DEF OpsInv, Owned
  <2>2. /\ \A k \in DOMAIN p : AllOps(p[k]) /\ Apart(p[k])
        /\ \A k, l \in DOMAIN p : k # l => OpIds(p[k]) \cap OpIds(p[l]) = {}
    BY <1>2, <1>3, <2>1
  <2>3. /\ AllOps(Webhooked) /\ Apart(Webhooked)
        /\ \A d : d \in OpIds(Webhooked) <=> \E k \in DOMAIN p : d \in OpIds(p[k])
    BY <1>3, <1>4, <2>2, FlatOps
  <2>4. \A d : d \in WebhookIds(W) <=> \E k \in DOMAIN W : d \in OpIds(W[k].operations)
    BY DEF WebhookIds, Range
  <2>5. \A d : d \in OpIds(Webhooked) <=> d \in WebhookIds(W)
    BY <1>2, <1>3, <2>3, <2>4
  <2> QED BY <2>3, <2>5
<1> QED BY <1>5, <1>6, <1>7, <1>a

LEMMA PendingFacts ==
  ASSUME IInv, Shape
  PROVE  /\ IsSeq(Pending)
         /\ \A x : x \in Range(Pending) <=> \E f \in Range(stack) : x \in Range(f.got) /\ x.slot = "op"
         /\ Spread(stack) => AllOps(Pending) /\ Apart(Pending) /\ OpIds(Pending) = StackIds(stack)
<1> DEFINE part(i) == Slots(stack[i].got, {"op"})
           p == [i \in DOMAIN stack |-> part(i)]
           X == UNION {Range(part(i)) : i \in DOMAIN stack}
           Y == Seq(X)
<1>0. /\ stack \in Seq(Range(stack))
      /\ \A i \in DOMAIN stack : IsSeq(stack[i].got)
  <2>1. stack \in Seq(Range(stack))
    BY DEF IInv, Consistent, WellFormed
  <2>2. CASE stack = <<>>
    BY <2>1, <2>2
  <2>3. CASE stack # <<>>
    BY <2>1, <2>3 DEF IInv, Shape, Calls
  <2> QED BY <2>1, <2>2, <2>3
<1>1. Len(stack) \in Nat /\ DOMAIN stack = 1..Len(stack)
  BY <1>0
<1>2. \A i \in DOMAIN stack : /\ IsSeq(part(i))
                              /\ \A x : x \in Range(part(i)) <=> x \in Range(stack[i].got) /\ x.slot = "op"
  <2> SUFFICES ASSUME NEW i \in DOMAIN stack
               PROVE  /\ IsSeq(part(i))
                      /\ \A x : x \in Range(part(i)) <=> x \in Range(stack[i].got) /\ x.slot = "op"
    OBVIOUS
  <2>1. IsSeq(stack[i].got)
    BY <1>0
  <2>2. \A x : x \in Range(part(i)) <=> x \in Range(stack[i].got) /\ x.slot \in {"op"}
    BY <2>1, SlotsFacts
  <2> QED BY <2>1, <2>2, SlotsFacts
<1>3. Pending = FlattenSeq(p)
  BY DEF Pending
<1>4. DOMAIN p = DOMAIN stack /\ \A i \in DOMAIN stack : p[i] = part(i)
  OBVIOUS
<1>5. \A i \in DOMAIN stack : p[i] \in Y
  <2> SUFFICES ASSUME NEW i \in DOMAIN stack PROVE part(i) \in Y
    BY <1>4
  <2>1. part(i) \in Seq(Range(part(i))) /\ Range(part(i)) \subseteq X
    BY <1>2 DEF IsSeq
  <2> HIDE DEF X, part
  <2> QED BY <2>1
<1>6. p \in Seq(Y)
  <2> HIDE DEF Y, part
  <2> QED BY <1>1, <1>5
<1>a. \A i \in DOMAIN stack : part(i) = Slots(stack[i].got, {"op"})
  OBVIOUS
<1> HIDE DEF p, X, part
<1>7. /\ FlattenSeq(p) \in Seq(X)
      /\ \A x : x \in Range(Pending) <=> \E i \in DOMAIN stack : x \in Range(part(i))
  BY <1>3, <1>4, <1>6, FlattenRange
<1>8. IsSeq(Pending)
  BY <1>3, <1>7, SeqOfRange DEF IsSeq
<1>9. \A x : x \in Range(Pending) <=> \E f \in Range(stack) : x \in Range(f.got) /\ x.slot = "op"
  <2>1. \A x : x \in Range(Pending) <=> \E i \in DOMAIN stack : x \in Range(stack[i].got) /\ x.slot = "op"
    BY <1>2, <1>7
  <2> QED BY <2>1 DEF Range
<1>10. ASSUME Spread(stack)
       PROVE  AllOps(Pending) /\ Apart(Pending) /\ OpIds(Pending) = StackIds(stack)
  <2>1. \A i \in DOMAIN stack : AllOps(part(i)) /\ Apart(part(i)) /\ OpIds(part(i)) = OpIds(stack[i].got)
    <3> SUFFICES ASSUME NEW i \in DOMAIN stack
                 PROVE  AllOps(part(i)) /\ Apart(part(i)) /\ OpIds(part(i)) = OpIds(stack[i].got)
      OBVIOUS
    <3>1. IsSeq(stack[i].got) /\ Apart(stack[i].got)
      BY <1>0, <1>10 DEF Spread
    <3> QED BY <1>a, <3>1, PickedOps
  <2>2. /\ \A k \in DOMAIN p : AllOps(p[k]) /\ Apart(p[k])
        /\ \A k, l \in DOMAIN p : k # l => OpIds(p[k]) \cap OpIds(p[l]) = {}
    BY <1>4, <1>10, <2>1 DEF Spread
  <2>3. /\ AllOps(Pending) /\ Apart(Pending)
        /\ \A d : d \in OpIds(Pending) <=> \E k \in DOMAIN p : d \in OpIds(p[k])
    BY <1>3, <1>6, <2>2, FlatOps
  <2>4. \A d : d \in StackIds(stack) <=> \E k \in DOMAIN stack : d \in OpIds(stack[k].got)
    BY DEF StackIds, Range
  <2>5. \A d : d \in OpIds(Pending) <=> d \in StackIds(stack)
    BY <1>4, <2>1, <2>3, <2>4
  <2> QED BY <2>3, <2>5
<1> QED BY <1>8, <1>9, <1>10

LEMMA OpsUnique ==
  ASSUME IInv, Shape, OpsInv
  PROVE  OperationIdsUnique
<1> SUFFICES ASSUME pc # "leave" PROVE Cardinality(Ids(AllOperations)) = Len(AllOperations)
  BY DEF OperationIdsUnique
<1> DEFINE O == ir.operations
           W == Webhooked
           P == Pending
<1>1. Owned(O, ir.webhooks, stack, <<>>, seen)
  BY NotLeaving DEF OpsInv
<1>2. IsSeq(O) /\ AllOps(O) /\ Apart(O)
  BY <1>1 DEF Owned, Shape
<1>3. IsSeq(W) /\ AllOps(W) /\ Apart(W) /\ OpIds(W) = WebhookIds(ir.webhooks)
  BY WebhookedFacts
<1>4. IsSeq(P) /\ AllOps(P) /\ Apart(P) /\ OpIds(P) = StackIds(stack)
  BY <1>1, PendingFacts DEF Owned
<1>5. OpIds(O) \cap OpIds(W) = {} /\ OpIds(P) \cap (OpIds(O) \union OpIds(W)) = {}
  BY <1>1, <1>3, <1>4 DEF Owned
<1>6. AllOperations = O \o W \o P
  BY DEF AllOperations
<1> HIDE DEF O, W, P
<1> DEFINE J == O \o W
<1>7. IsSeq(J) /\ AllOps(J) /\ Apart(J) /\ OpIds(J) = OpIds(O) \union OpIds(W)
  BY <1>2, <1>3, <1>5, JoinOps
<1>8. AllOperations = J \o P
  BY <1>6
<1> HIDE DEF J
<1>9. OpIds(J) \cap OpIds(P) = {}
  BY <1>5, <1>7
<1>10. IsSeq(J \o P) /\ AllOps(J \o P) /\ Apart(J \o P)
  BY <1>4, <1>7, <1>9, JoinOps
<1> QED BY <1>8, <1>10, CountIds

-----------------------------------------------------------------------------
(* Callbacks.                                                               *)

(* What holds of some ids holds of more.                                    *)
LEMMA SoundGrows ==
  ASSUME NEW D, NEW E, D \subseteq E
  PROVE  /\ \A v : Sound(v, D) => Sound(v, E)
         /\ \A s : AllSound(s, D) => AllSound(s, E)
         /\ \A O, W, s : Resolved(O, W, s, D) => Resolved(O, W, s, E)
<1>1. \A v : Sound(v, D) => Sound(v, E)
  BY DEF Sound
<1>2. \A s : AllSound(s, D) => AllSound(s, E)
  BY <1>1 DEF AllSound
<1> QED BY <1>1, <1>2 DEF Resolved, SoundFrame

LEMMA NothingSound == ASSUME NEW D PROVE AllSound(<<>>, D)
BY Nothing DEF AllSound

LEMMA MoreIds ==
  ASSUME NEW O, IsSeq(O), NEW R, IsSeq(R)
  PROVE  Ids(O \o R) = Ids(O) \union Ids(R) /\ IsSeq(O \o R)
<1> DEFINE J == O \o R
<1>1. IsSeq(J) /\ Range(J) = Range(O) \union Range(R)
  BY JoinSeq
<1> HIDE DEF J
<1>2. \A d : d \in Ids(J) <=> \E x \in Range(J) : d = x.has.id
  BY <1>1, IdsOfValues
<1>3. \A d : d \in Ids(O) <=> \E x \in Range(O) : d = x.has.id
  BY IdsOfValues
<1>4. \A d : d \in Ids(R) <=> \E x \in Range(R) : d = x.has.id
  BY IdsOfValues
<1>5. \A d : d \in Ids(J) <=> d \in Ids(O) \/ d \in Ids(R)
  BY <1>1, <1>2, <1>3, <1>4
<1> QED BY <1>1, <1>5 DEF J

(* More operations, of which each keeps the ids of operations.              *)
LEMMA JoinResolved ==
  ASSUME NEW O, IsSeq(O), NEW W, NEW s, Resolved(O, W, s, Ids(O)), NEW R, IsSeq(R), AllSound(R, Ids(O))
  PROVE  Resolved(O \o R, W, s, Ids(O \o R)) /\ Ids(O) \subseteq Ids(O \o R) /\ Ids(R) \subseteq Ids(O \o R)
<1> DEFINE J == O \o R
<1>1. Range(J) = Range(O) \union Range(R) /\ Ids(J) = Ids(O) \union Ids(R)
  BY JoinSeq, MoreIds
<1> HIDE DEF J
<1>2. Resolved(O, W, s, Ids(J)) /\ AllSound(R, Ids(J))
  BY <1>1, SoundGrows
<1>3. AllSound(J, Ids(J))
  BY <1>1, <1>2 DEF Resolved, AllSound
<1>4. Resolved(J, W, s, Ids(J))
  BY <1>2, <1>3 DEF Resolved
<1> QED BY <1>1, <1>4 DEF J

LEMMA QuietCalls ==
  ASSUME CallbacksInv, pc' # "leave", UNCHANGED ir,
         \A f \in Range(stack') : f \in Range(stack) \/ SoundFrame(f, Ids(ir.operations))
  PROVE  CallbacksInv'
<1> DEFINE D == Ids(ir.operations)
<1>1. Ids(ir'.operations) = D /\ ir' = ir
  OBVIOUS
<1>2. Resolved(ir.operations, ir.webhooks, stack, D)
  BY DEF CallbacksInv
<1> HIDE DEF D
<1>3. \A f \in Range(stack') : SoundFrame(f, D)
  BY <1>2 DEF Resolved, D
<1>4. Resolved(ir'.operations, ir'.webhooks, stack', D)
  BY <1>1, <1>2, <1>3 DEF Resolved
<1>5. Resolved(ir'.operations, ir'.webhooks, stack', Ids(ir'.operations))
  BY <1>1, <1>4
<1> QED BY <1>5 DEF CallbacksInv

LEMMA GiveCalls ==
  ASSUME CallbacksInv, UNCHANGED <<ir, stack>>,
         \A v \in Range(ret') : /\ Sound(v, Ids(ir.operations))
                                /\ v.slot \in {"path", "webhook"} => AllSound(v.got, Ids(ir.operations))
  PROVE  CallbacksInv'
BY DEF CallbacksInv

(* What a value comes to.                                                   *)
LEMMA OperationSound ==
  ASSUME NEW v, IsSeq(v.got), v.slot = "op", NEW D, AllSound(v.got, D)
  PROVE  Sound(v, D)
<1>1. \A c : c \in Range(Slots(v.got, {"callback"})) <=> c \in Range(v.got) /\ c.slot \in {"callback"}
  BY SlotsFacts
<1>2. ASSUME NEW c \in Range(Slots(v.got, {"callback"})), NEW e \in Range(c.got)
      PROVE  e.has.ids \subseteq D
  BY <1>1, <1>2 DEF AllSound, Sound
<1>3. CallbackIds(v) \subseteq D
  BY <1>2 DEF CallbackIds
<1> QED BY <1>3 DEF Sound

LEMMA CloseCalls ==
  ASSUME IInv, Shape, CallbacksInv, CloseOperation \/ CloseExpression \/ CloseOther
  PROVE  CallbacksInv'
<1> DEFINE h == Head(stack)
           D == Ids(ir.operations)
<1>1. /\ stack # <<>> /\ phase # 0 /\ pc = "parts" /\ pc' = "leave" /\ stack' = stack
  BY DEF CloseOperation, CloseExpression, CloseOther, Give, IInv, Shape
<1>2. h = stack[1] /\ IsSeq(h.got) /\ h \in Range(stack)
  BY <1>1, TopCall
<1>3. SoundFrame(h, D)
  BY <1>2 DEF CallbacksInv, Resolved
<1>4. AllSound(h.got, D)
  BY <1>3 DEF SoundFrame
<1>5. CASE CloseOperation
  <2> DEFINE op == Operation(stack[2], h)
             g == Slots(h.got, {"body", "response", "callback"})
  <2>1. h.slot = "op" /\ UNCHANGED ir /\ (ret' = <<>> \/ ret' = <<op>>)
    BY <1>5 DEF CloseOperation, Give
  <2>2. op.slot = "op" /\ op.got = g
    BY <2>1, ValueFacts DEF Operation
  <2>3. IsSeq(g) /\ \A x : x \in Range(g) <=> x \in Range(h.got) /\ x.slot \in {"body", "response", "callback"}
    BY <1>2, SlotsFacts
  <2> HIDE DEF op, g, h, D
  <2>4. AllSound(g, D)
    BY <1>4, <2>3 DEF AllSound
  <2>5. Sound(op, D)
    BY <2>2, <2>3, <2>4, OperationSound
  <2>6. \A v \in Range(ret') : Sound(v, D) /\ v.slot = "op"
    BY <2>1, <2>2, <2>5, Nothing, One
  <2> QED BY <1>1, <2>1, <2>6, GiveCalls DEF D
<1>6. CASE CloseExpression
  <2> DEFINE ops == Slots(h.got, {"op"})
             v == Value(h, [ids |-> Ids(ops)], <<>>)
             O == ir.operations
             W == ir.webhooks
  <2>1. h.slot = "expr" /\ ir' = [ir EXCEPT !.operations = @ \o ops] /\ ret' = <<v>>
    BY <1>6 DEF CloseExpression, Give
  <2>2. IsSeq(ops) /\ \A x : x \in Range(ops) <=> x \in Range(h.got) /\ x.slot \in {"op"}
    BY <1>2, SlotsFacts
  <2>3. v.slot = "expr" /\ v.has = [ids |-> Ids(ops)]
    BY <2>1, ValueFacts
  <2>4. v.has.ids = Ids(ops)
    BY <2>3
  <2>a. IsSeq(O) /\ Resolved(O, W, stack, Ids(O)) /\ D = Ids(O)
    BY DEF Shape, CallbacksInv
  <2> HIDE DEF ops, v, h, D
  <2>5. ir'.operations = O \o ops /\ ir'.webhooks = W
    BY <2>1 DEF Shape, EmptyIr
  <2>6. AllSound(ops, Ids(O))
    BY <1>4, <2>2, <2>a DEF AllSound
  <2>7. Resolved(O \o ops, W, stack, Ids(O \o ops)) /\ Ids(ops) \subseteq Ids(O \o ops)
    BY <2>2, <2>6, <2>a, JoinResolved
  <2>8. Sound(v, Ids(O \o ops))
    BY <2>3, <2>4, <2>7 DEF Sound
  <2>9. Resolved(ir'.operations, ir'.webhooks, stack', Ids(ir'.operations)) /\ Sound(v, Ids(ir'.operations))
    BY <1>1, <2>5, <2>7, <2>8
  <2>10. \A x \in Range(ret') : x = v
    BY <2>1, One
  <2> QED BY <2>3, <2>9, <2>10 DEF CallbacksInv
<1>7. CASE CloseOther
  <2> DEFINE v == Value(h, Kept(h.node), h.got)
  <2>1. h.slot \notin {"op", "expr"} /\ UNCHANGED ir /\ (ret' = <<>> \/ ret' = <<v>>)
    BY <1>7 DEF CloseOther, Give
  <2>2. v.slot = h.slot /\ v.got = h.got
    BY ValueFacts
  <2> HIDE DEF v, h, D
  <2>3. Sound(v, D)
    <3>1. ASSUME h.slot = "callback", NEW e \in Range(h.got) PROVE e.has.ids \subseteq D
      BY <1>3, <1>4, <3>1 DEF SoundFrame, AllSound, Sound
    <3> QED BY <2>1, <2>2, <3>1 DEF Sound
  <2>4. \A x \in Range(ret') : Sound(x, D) /\ AllSound(x.got, D)
    <3>1. Range(ret') = {} \/ Range(ret') = {v}
      BY <2>1, Nothing, One
    <3> QED BY <1>4, <2>2, <2>3, <3>1
  <2> QED BY <1>1, <2>1, <2>4, GiveCalls DEF D
<1> QED BY <1>5, <1>6, <1>7

LEMMA LeaveCalls ==
  ASSUME IInv, Shape, CallbacksInv, Leave
  PROVE  CallbacksInv'
<1> DEFINE outer == Tail(stack)
           O == ir.operations
           W == ir.webhooks
           D == Ids(O)
<1>1. stack # <<>> /\ phase # 0 /\ pc = "leave"
  BY DEF Leave, IInv, Shape
<1>2. Resolved(O, W, stack, D)
  BY DEF CallbacksInv
<1>3. \A v \in Range(ret) : Sound(v, D) /\ (v.slot \in {"path", "webhook"} => AllSound(v.got, D))
  BY <1>1 DEF CallbacksInv
<1>4. CASE outer = <<>> /\ ir' = Delivered /\ stack' = <<>> /\ pc' = "root"
  <2> DEFINE ops == IF ret = <<>> THEN <<>> ELSE Slots(ret[1].got, {"op"})
  <2>1. /\ phase \in 1..3 /\ stack[1].slot = Kind /\ IsSeq(ops)
        /\ phase = 1 => Delivered.operations = O /\ Delivered.webhooks = W
        /\ phase = 2 => Kind = "path" /\ Delivered.operations = O \o ops /\ Delivered.webhooks = W
        /\ phase = 3 => Kind = "webhook" /\ Delivered.operations = O
    BY <1>1, <1>4, DeliveredFacts
  <2>2. phase = 3 => \E w : w.operations = ops /\ Delivered.webhooks = Append(W, w)
    BY <1>1, <1>4, DeliveredFacts
  <2>3. phase # 1 => AllSound(ops, D)
    <3>1. CASE ret = <<>>
      BY <3>1, NothingSound
    <3>2. CASE ret # <<>> /\ phase # 1
      <4> DEFINE g == ret[1].got
      <4>1. ret[1].slot = stack[1].slot /\ IsSeq(g) /\ Range(ret) = {ret[1]}
        BY <1>1, <3>2, ReturnedValue
      <4>2. phase = 2 \/ phase = 3
        BY <2>1, <3>2
      <4>3. ret[1].slot \in {"path", "webhook"}
        BY <2>1, <4>1, <4>2
      <4>4. AllSound(g, D)
        BY <1>3, <4>1, <4>3
      <4>5. ops = Slots(g, {"op"})
        BY <3>2
      <4> HIDE DEF ops, g, D
      <4>6. \A x : x \in Range(ops) <=> x \in Range(g) /\ x.slot \in {"op"}
        BY <4>1, <4>5, SlotsFacts
      <4> QED BY <4>4, <4>6 DEF AllSound
    <3> QED BY <3>1, <3>2
  <2> HIDE DEF ops, outer
  <2>4. IsSeq(O) /\ IsSeq(W) /\ D = Ids(O)
    BY DEF Shape
  <2>5. Resolved(O, W, <<>>, D)
    BY <1>2, Nothing DEF Resolved
  <2> HIDE DEF D
  <2>6. CASE phase = 1
    <3>1. Resolved(ir'.operations, ir'.webhooks, stack', Ids(ir'.operations))
      BY <1>4, <2>1, <2>4, <2>5, <2>6
    <3> QED BY <1>4, <3>1 DEF CallbacksInv
  <2>7. CASE phase = 2
    <3>1. Resolved(O \o ops, W, <<>>, Ids(O \o ops))
      BY <2>1, <2>3, <2>4, <2>5, <2>7, JoinResolved
    <3>2. Resolved(ir'.operations, ir'.webhooks, stack', Ids(ir'.operations))
      BY <1>4, <2>1, <2>7, <3>1
    <3> QED BY <1>4, <3>2 DEF CallbacksInv
  <2>8. CASE phase = 3
    <3>0. PICK w : w.operations = ops /\ Delivered.webhooks = Append(W, w)
      BY <2>2, <2>8
    <3> DEFINE V == Append(W, w)
               n == Len(W)
    <3>1. /\ n \in Nat /\ DOMAIN W = 1..n /\ DOMAIN V = 1..(n + 1) /\ V[n + 1] = w
          /\ \A i \in 1..n : V[i] = W[i]
      BY <2>4, AppendSeq
    <3>a. ir'.webhooks = V /\ ir'.operations = O
      BY <1>4, <2>1, <2>8, <3>0
    <3> HIDE DEF V, n
    <3>2. \A i : i \in 1..(n + 1) <=> i \in 1..n \/ i = n + 1
      BY <3>1
    <3>3. \A k \in DOMAIN V : AllSound(V[k].operations, D)
      BY <2>3, <2>5, <2>8, <3>0, <3>1, <3>2 DEF Resolved
    <3>4. Resolved(O, V, <<>>, D)
      BY <2>5, <3>3 DEF Resolved
    <3>5. Resolved(ir'.operations, ir'.webhooks, stack', Ids(ir'.operations))
      BY <1>4, <2>4, <3>4, <3>a
    <3> QED BY <1>4, <3>5 DEF CallbacksInv
  <2>9. phase = 1 \/ phase = 2 \/ phase = 3
    BY <2>1
  <2> QED BY <2>6, <2>7, <2>8, <2>9
<1>5. CASE outer # <<>> /\ pc' = "parts" /\ UNCHANGED ir
           /\ stack' = <<[Head(outer) EXCEPT !.next = @ + 1, !.got = @ \o ret]>> \o Tail(outer)
  <2> DEFINE g == Head(outer)
             f == [g EXCEPT !.next = @ + 1, !.got = @ \o ret]
  <2>1. /\ Calls(outer, Kind) /\ outer[1].slot \in DOMAIN PartsOf
        /\ stack[1].slot \in PartsOf[outer[1].slot]
        /\ Range(stack) = {stack[1]} \union Range(outer)
    BY <1>1, <1>5, PopCall DEF Shape
  <2>2. IsSeq(ret) /\ \A v \in Range(ret) : v.slot = stack[1].slot
    <3>1. CASE ret = <<>>
      BY <3>1, Nothing
    <3>2. CASE ret # <<>>
      BY <1>1, <3>2, ReturnedValue
    <3> QED BY <3>1, <3>2
  <2> HIDE DEF outer, D
  <2>3. DOMAIN g = FrameFields /\ IsSeq(g.got) /\ g = outer[1] /\ Range(outer) = {g} \union Range(Tail(outer))
    BY <1>5, <2>1, PopCall
  <2>4. f.got = g.got \o ret /\ f.slot = g.slot /\ DOMAIN f = FrameFields
    BY <2>3 DEF FrameFields
  <2>5. stack' = <<f>> \o Tail(outer)
    BY <1>5
  <2> HIDE DEF f, g
  <2>6. Range(f.got) = Range(g.got) \union Range(ret) /\ IsSeq(f.got)
    BY <2>2, <2>3, <2>4, JoinSeq
  <2>7. SoundFrame(g, D)
    BY <1>2, <2>1, <2>3 DEF Resolved
  <2>8. SoundFrame(f, D)
    <3>1. AllSound(f.got, D)
      BY <1>3, <2>6, <2>7 DEF SoundFrame, AllSound
    <3>2. PartsOf["callback"] = {"expr"}
      BY DEF PartsOf
    <3>3. f.slot = "callback" => \A x \in Range(f.got) : x.slot = "expr"
      BY <2>1, <2>2, <2>3, <2>4, <2>6, <2>7, <3>2 DEF SoundFrame
    <3> QED BY <3>1, <3>3 DEF SoundFrame
  <2>9. Range(stack') = {f} \union Range(Tail(outer))
    <3>1. f.slot = outer[1].slot
      BY <2>3, <2>4
    <3>2. Range(<<f>> \o Tail(outer)) = {f} \union Range(Tail(outer))
      BY <1>5, <2>1, <2>4, <2>6, <3>1, ReplaceCall
    <3> QED BY <2>5, <3>2
  <2>10. \A x \in Range(stack') : x \in Range(stack) \/ SoundFrame(x, D)
    BY <2>1, <2>3, <2>8, <2>9
  <2> QED BY <1>5, <2>10, QuietCalls DEF D
<1> QED BY <1>4, <1>5 DEF Leave

LEMMA StepCalls ==
  ASSUME IInv, Shape, CallbacksInv, Next
  PROVE  CallbacksInv'
<1> DEFINE D == Ids(ir.operations)
<1>0. /\ pc \in {"enter", "parts", "leave"} => stack # <<>> /\ phase # 0
      /\ pc \in {"begin", "root", "done"} => stack = <<>>
  BY DEF IInv, Shape
<1>1. CASE Begin \/ NextPhase
  <2>1. pc' # "leave" /\ UNCHANGED stack /\ ir'.operations = ir.operations /\ ir'.webhooks = ir.webhooks
    <3>1. DOMAIN ir = DOMAIN EmptyIr
      BY DEF Shape
    <3>2. CASE Begin
      BY <3>1, <3>2 DEF Begin, EmptyIr
    <3>3. CASE NextPhase
      BY <3>1, <3>3 DEF NextPhase, EmptyIr
    <3> QED BY <1>1, <3>2, <3>3
  <2> QED BY <2>1 DEF CallbacksInv
<1>2. CASE Scan \/ Accept
  <2>1. pc' # "leave" /\ UNCHANGED <<stack, ir>>
    BY <1>2 DEF Scan, Accept
  <2> QED BY <2>1, QuietCalls
<1>3. CASE NextRoot \/ NextPart
  <2> DEFINE part == IF pc = "root" THEN Head(todo) ELSE Head(stack).node.parts[Head(stack).next]
             f == Frame(part)
  <2>1. pc' # "leave" /\ UNCHANGED ir /\ stack' = <<f>> \o stack
    <3>1. CASE NextRoot
      <4>1. stack = <<>> /\ stack' = <<f>>
        BY <1>0, <3>1 DEF NextRoot
      <4>2. <<f>> \o <<>> = <<f>>
        OBVIOUS
      <4> QED BY <3>1, <4>1, <4>2 DEF NextRoot
    <3>2. CASE NextPart
      BY <3>2 DEF NextPart
    <3> QED BY <1>3, <3>1, <3>2
  <2>2. f.got = <<>>
    BY FrameShape
  <2> HIDE DEF f, D
  <2>3. SoundFrame(f, D)
    BY <2>2, NothingSound, Nothing DEF SoundFrame
  <2>4. Range(stack') = {f} \union Range(stack)
    <3>1. stack \in Seq(Range(stack))
      BY DEF IInv, Consistent, WellFormed
    <3> QED BY <2>1, <3>1, PushSeq
  <2>5. \A x \in Range(stack') : x \in Range(stack) \/ SoundFrame(x, D)
    BY <2>3, <2>4
  <2> QED BY <2>1, <2>5, QuietCalls DEF D
<1>4. CASE FollowRef \/ SkipPart
  <2> DEFINE h == Head(stack)
             f1 == [h EXCEPT !.node = spec.at[Target(h)], !.keys = Append(@, Target(h))]
             f2 == [h EXCEPT !.next = @ + 1]
  <2>1. stack # <<>> /\ phase # 0 /\ pc \in {"enter", "parts"} /\ UNCHANGED ir
    BY <1>0, <1>4 DEF FollowRef, SkipPart
  <2>2. DOMAIN h = FrameFields /\ h = stack[1] /\ h \in Range(stack) /\ IsSeq(h.got) /\ Calls(stack, Kind)
    BY <2>1, TopCall
  <2>3. /\ f1.got = h.got /\ f1.slot = h.slot /\ DOMAIN f1 = FrameFields
        /\ f2.got = h.got /\ f2.slot = h.slot /\ DOMAIN f2 = FrameFields
    BY <2>2 DEF FrameFields
  <2>4. \/ stack' = <<f1>> \o Tail(stack) /\ pc' = pc
        \/ stack' = <<f2>> \o Tail(stack) /\ pc' = pc
        \/ pc' = "leave" /\ ret' = <<>> /\ UNCHANGED stack
    BY <1>4 DEF FollowRef, SkipPart, Replace, Give
  <2> HIDE DEF f1, f2, h, D
  <2>5. CASE pc' = "leave" /\ ret' = <<>> /\ UNCHANGED stack
    BY <2>1, <2>5, GiveCalls, Nothing
  <2>6. ASSUME NEW f, f.got = h.got, f.slot = h.slot, DOMAIN f = FrameFields,
               stack' = <<f>> \o Tail(stack), pc' = pc
        PROVE  CallbacksInv'
    <3>1. Range(stack') = {f} \union Range(Tail(stack))
      BY <2>1, <2>2, <2>6, ReplaceCall
    <3>2. Range(stack) = {h} \union Range(Tail(stack))
      BY <2>1, <2>2, PopCall
    <3>3. SoundFrame(h, D)
      BY <2>2 DEF CallbacksInv, Resolved, D
    <3>4. SoundFrame(f, D)
      BY <2>6, <3>3 DEF SoundFrame
    <3>5. \A x \in Range(stack') : x \in Range(stack) \/ SoundFrame(x, D)
      BY <3>1, <3>2, <3>4
    <3> QED BY <2>1, <2>6, <3>5, QuietCalls DEF D
  <2> QED BY <2>3, <2>4, <2>5, <2>6
<1>5. CASE RefDangles \/ Refuse
  <2>1. UNCHANGED <<stack, ir>> /\ (ret' = <<>> \/ ret' = Refused(Head(stack)))
    BY <1>5 DEF RefDangles, Refuse, Give
  <2>2. \A v \in Range(ret') : v.slot = "expr" /\ v.has.ids = {}
    <3> DEFINE x == Value(Head(stack), [ids |-> {}], <<>>)
    <3>1. CASE ret' = <<>>
      BY <3>1, Nothing
    <3>2. CASE ret' # <<>>
      <4>1. ret' = <<x>> /\ Head(stack).slot = "expr"
        BY <2>1, <3>2 DEF Refused
      <4>2. x.slot = "expr" /\ x.has = [ids |-> {}]
        BY <4>1, ValueFacts
      <4>3. x.has.ids = {}
        BY <4>2
      <4> HIDE DEF x
      <4>4. Range(ret') = {x}
        BY <4>1, One
      <4> QED BY <4>2, <4>3, <4>4
    <3> QED BY <3>1, <3>2
  <2>3. \A v \in Range(ret') : Sound(v, D)
    BY <2>2 DEF Sound
  <2> QED BY <2>1, <2>2, <2>3, GiveCalls
<1>6. CASE CloseOperation \/ CloseExpression \/ CloseOther
  BY <1>6, CloseCalls
<1>7. CASE Leave
  BY <1>7, LeaveCalls
<1>8. CASE Finish
  BY <1>8 DEF Finish, vars, where, CallbacksInv
<1> QED BY <1>1, <1>2, <1>3, <1>4, <1>5, <1>6, <1>7, <1>8 DEF Next

LEMMA InitCalls == Init => CallbacksInv
<1> SUFFICES ASSUME Init PROVE CallbacksInv
  OBVIOUS
<1>1. ir.operations = <<>> /\ ir.webhooks = <<>> /\ stack = <<>> /\ pc # "leave"
  BY DEF Init, EmptyIr
<1> DEFINE D == Ids(<<>>)
<1> HIDE DEF D
<1>2. Resolved(<<>>, <<>>, <<>>, D)
  BY NothingSound, Nothing DEF Resolved
<1> QED BY <1>1, <1>2 DEF CallbacksInv, D

LEMMA CallsResolve ==
  ASSUME IInv, Shape, OpsInv, CallbacksInv
  PROVE  CallbacksResolve
<1> DEFINE O == ir.operations
           W == Webhooked
           P == Pending
           D == Ids(O)
<1>1. Resolved(O, ir.webhooks, stack, D)
  BY DEF CallbacksInv
<1>2. IsSeq(O) /\ IsSeq(W) /\ IsSeq(P)
  BY WebhookedFacts, PendingFacts DEF Shape
<1>3. Range(AllOperations) = Range(O) \union Range(W) \union Range(P)
  <2> HIDE DEF O, W, P
  <2>1. IsSeq(O \o W) /\ Range(O \o W) = Range(O) \union Range(W)
    BY <1>2, JoinSeq
  <2> DEFINE J == O \o W
  <2>2. AllOperations = J \o P
    BY DEF AllOperations, O, W, P
  <2> HIDE DEF J
  <2>3. Range(J \o P) = Range(J) \union Range(P)
    BY <1>2, <2>1, JoinSeq DEF J
  <2> QED BY <2>1, <2>2, <2>3 DEF J
<1>4. \A x \in Range(W) : \E k \in DOMAIN ir.webhooks : x \in Range(ir.webhooks[k].operations)
  BY WebhookedFacts
<1>5. \A x \in Range(P) : \E f \in Range(stack) : x \in Range(f.got)
  BY PendingFacts
<1> HIDE DEF O, W, P, D
<1>6. \A x \in Range(AllOperations) : Sound(x, D)
  BY <1>1, <1>3, <1>4, <1>5 DEF Resolved, SoundFrame, AllSound
<1>7. \A x \in Range(AllOperations) : x.slot = "op"
  <2>1. AllOps(O) /\ AllOps(W)
    BY WebhookedFacts DEF OpsInv, Owned, O, W
  <2>2. \A x \in Range(O) \union Range(W) : x.slot = "op"
    BY <1>2, <2>1, IdsOfValues
  <2>3. \A x \in Range(P) : x.slot = "op"
    BY PendingFacts DEF P
  <2> QED BY <1>3, <2>2, <2>3
<1> QED BY <1>6, <1>7 DEF CallbacksResolve, Sound, D, O

-----------------------------------------------------------------------------
(* The theorems about what the walk hands on.                               *)
WalkInv == IInv /\ Shape /\ OpsInv /\ CallbacksInv

LEMMA WalkInvHolds == Spec => []WalkInv
<1>1. Init => WalkInv
  BY InitIInv, InitShape, InitOps, InitCalls DEF WalkInv
<1>2. WalkInv /\ [Next]_vars => WalkInv'
  <2>1. CASE Next
    BY <2>1, StepIInv, StepShape, StepOps, StepCalls DEF WalkInv
  <2>2. CASE UNCHANGED vars
    <3>1. IInv => IInv'
      BY <2>2, StepIInv
    <3>2. Shape => Shape'
      BY <2>2 DEF vars, where, Shape, Kind, Calls, Nested, Rooted, Listed
    <3>3. OpsInv => OpsInv'
      BY <2>2 DEF vars, where, OpsInv, Live, Returned
    <3>4. CallbacksInv => CallbacksInv'
      BY <2>2 DEF vars, where, CallbacksInv
    <3> QED BY <3>1, <3>2, <3>3, <3>4 DEF WalkInv
  <2> QED BY <2>1, <2>2
<1> QED BY <1>1, <1>2, PTL DEF Spec

(* No two operations have the same id, after sanitizing, be they of paths,  *)
(* webhooks or callbacks, also while some of them are still on their way,   *)
(* for every description: what parse_operation has put into seen_op_ids     *)
(* covers all of them.                                                      *)
THEOREM OperationIdsNeverClash == Spec => []OperationIdsUnique
<1>1. WalkInv => OperationIdsUnique
  BY OpsUnique DEF WalkInv
<1> QED BY <1>1, WalkInvHolds, PTL

(* Every id that a callback of an operation keeps is the id of an operation *)
(* of the IR, for every description: what parse_callback hands up has been  *)
(* put into the IR, whatever becomes of the operation it is handed up to.   *)
THEOREM CallbacksNeverDangle == Spec => []CallbacksResolve
<1>1. WalkInv => CallbacksResolve
  BY CallsResolve DEF WalkInv
<1> QED BY <1>1, WalkInvHolds, PTL
=============================================================================
