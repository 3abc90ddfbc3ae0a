-------------------------- MODULE SchemaWalkProofs --------------------------
(***************************************************************************)
(* Proofs about SchemaWalk, for every description: the parser's current    *)
(* document and its schemas in progress follow its calls, no schema is     *)
(* walked inside itself, the components end up in the pool under their own *)
(* names, and, where names are apart, nothing else in it is ever replaced  *)
(* and no reference is left dangling.  And about Discriminators, for unions*)
(* of any number of variants: tags lead to variants.                       *)
(***************************************************************************)
EXTENDS SchemaWalk, Discriminators, SequenceLemmas, SequenceTheorems, FiniteSetTheorems, TLAPS

Fields == {"kind", "key", "prev"}

(* What a stack of calls s, a current document c and a set w of schemas in  *)
(* progress have to do with each other.                                     *)
WellFormed(s) ==
  /\ s \in Seq(Range(s))
  /\ \A i \in DOMAIN s :
       /\ Fields \subseteq DOMAIN s[i]
       /\ s[i].kind = "root" <=> i = Len(s)
       /\ s[i].kind \in Composites => s[i].key = NoKey
Documents(s, c) ==
  /\ c = Within(s, 1)
  /\ \A i \in DOMAIN s : s[i].prev = Within(s, i + 1)
Progress(s, w) ==
  /\ w = {f.key : f \in Range(s)} \ {NoKey}
  /\ \A i, j \in DOMAIN s : i # j /\ s[i].key # NoKey => s[i].key # s[j].key
Consistent(s, c, w) == WellFormed(s) /\ Documents(s, c) /\ Progress(s, w)

(* The inductive invariant. *)
IInv ==
  /\ Consistent(stack, current, walking)
  /\ pc \in {"root", "done"} => stack = <<>>
  /\ pc \in {"parse", "subs", "return"} => stack # <<>>
  /\ pc = "subs" => Head(stack).kind \in Composites

-----------------------------------------------------------------------------
(* Stacks. *)

(* A call is made: of a schema that is not in progress, if of a known one.  *)
LEMMA PushConsistent ==
  ASSUME NEW s, NEW c, NEW w, Consistent(s, c, w),
         NEW f, Fields \subseteq DOMAIN f, f.prev = c,
         f.kind = "root" <=> s = <<>>,
         f.kind \in Composites => f.key = NoKey,
         f.key = NoKey \/ f.key \notin w
  PROVE  Consistent(<<f>> \o s, IF f.kind = "ref" THEN f.key[1] ELSE c, w \union ({f.key} \ {NoKey}))
<1> DEFINE t == <<f>> \o s
           d == IF f.kind = "ref" THEN f.key[1] ELSE c
           v == w \union ({f.key} \ {NoKey})
<1>1. s \in Seq(Range(s))
  BY DEF Consistent, WellFormed
<1>2. /\ t \in Seq(Range(t)) /\ Len(s) \in Nat /\ DOMAIN s = 1..Len(s)
      /\ Len(t) = Len(s) + 1 /\ DOMAIN t = 1..(Len(s) + 1)
      /\ t[1] = f /\ Range(t) = {f} \union Range(s)
      /\ \A i \in DOMAIN s : t[i + 1] = s[i]
  BY ONLY <1>1, PushSeq, SMTT(60)
<1>3. \A i \in DOMAIN t : i # 1 => i - 1 \in DOMAIN s /\ t[i] = s[i - 1]
  <2> SUFFICES ASSUME NEW i \in DOMAIN t, i # 1
               PROVE  i - 1 \in DOMAIN s /\ t[i] = s[i - 1]
    OBVIOUS
  <2>1. i - 1 \in DOMAIN s /\ (i - 1) + 1 = i
    BY <1>2
  <2> QED BY <2>1, <1>2
<1> HIDE DEF t
<1>4. WellFormed(t)
  <2> SUFFICES ASSUME NEW i \in DOMAIN t
               PROVE  /\ Fields \subseteq DOMAIN t[i]
                      /\ t[i].kind = "root" <=> i = Len(t)
                      /\ t[i].kind \in Composites => t[i].key = NoKey
    BY <1>2 DEF WellFormed
  <2>1. CASE i = 1
    <3>1. s = <<>> <=> Len(t) = 1
      BY <1>1, <1>2
    <3> QED BY <2>1, <3>1, <1>2
  <2>2. CASE i # 1
    <3>1. /\ i - 1 \in DOMAIN s
          /\ Fields \subseteq DOMAIN s[i - 1]
          /\ s[i - 1].kind = "root" <=> i - 1 = Len(s)
          /\ s[i - 1].kind \in Composites => s[i - 1].key = NoKey
      BY <2>2, <1>3 DEF Consistent, WellFormed
    <3>2. i - 1 = Len(s) <=> i = Len(t)
      BY <1>2
    <3> QED BY <2>2, <3>1, <3>2, <1>3
  <2> QED BY <2>1, <2>2
<1>5. Documents(t, d)
  <2>1. d = Within(t, 1)
    BY <1>2 DEF Within
  <2>2. \A i \in 1..(Len(s) + 1) : Within(t, i + 1) = Within(s, i)
    <3> SUFFICES ASSUME NEW i \in 1..(Len(s) + 1)
                 PROVE  Within(t, i + 1) = Within(s, i)
      OBVIOUS
    <3>1. CASE i = Len(s) + 1
      BY <3>1, <1>2 DEF Within
    <3>2. CASE i # Len(s) + 1
      <4>1. i \in DOMAIN s /\ ~(i > Len(s)) /\ ~(i + 1 > Len(t)) /\ t[i + 1] = s[i]
        BY <3>2, <1>2
      <4> QED BY <4>1 DEF Within
    <3> QED BY <3>1, <3>2
  <2>3. ASSUME NEW i \in DOMAIN t PROVE t[i].prev = Within(t, i + 1)
    <3>1. CASE i = 1
      <4>1. c = Within(s, 1)
        BY DEF Consistent, Documents
      <4> QED BY <3>1, <4>1, <2>2, <1>2
    <3>2. CASE i # 1
      <4>1. i - 1 \in DOMAIN s /\ t[i] = s[i - 1] /\ (i - 1) + 1 = i /\ i \in 1..(Len(s) + 1)
        BY <3>2, <1>2, <1>3
      <4>2. s[i - 1].prev = Within(s, i)
        BY <4>1 DEF Consistent, Documents
      <4> QED BY <4>1, <4>2, <2>2
    <3> QED BY <3>1, <3>2
  <2> QED BY <2>1, <2>3 DEF Documents
<1>6. Progress(t, v)
  <2>1. w = {g.key : g \in Range(s)} \ {NoKey}
    BY DEF Consistent, Progress
  <2>2. v = {g.key : g \in Range(t)} \ {NoKey}
    BY <2>1, <1>2
  <2>3. \A i \in DOMAIN s : f.key # NoKey => s[i].key # f.key
    BY <2>1 DEF Range
  <2>4. ASSUME NEW i \in DOMAIN t, NEW j \in DOMAIN t, i # j, t[i].key # NoKey
        PROVE  t[i].key # t[j].key
    <3>1. CASE i = 1
      BY <3>1, <2>3, <2>4, <1>2, <1>3
    <3>2. CASE j = 1
      BY <3>2, <2>3, <2>4, <1>2, <1>3
    <3>3. CASE i # 1 /\ j # 1
      <4>1. /\ i - 1 \in DOMAIN s /\ t[i] = s[i - 1] /\ j - 1 \in DOMAIN s /\ t[j] = s[j - 1]
        BY <3>3, <1>3
      <4>2. i - 1 # j - 1
        BY <2>4, <1>2
      <4>3. s[i - 1].key # NoKey => s[i - 1].key # s[j - 1].key
        BY <4>1, <4>2 DEF Consistent, Progress
      <4> QED BY <4>1, <4>3, <2>4
    <3> QED BY <3>1, <3>2, <3>3
  <2> QED BY <2>2, <2>4 DEF Progress
<1> QED BY <1>4, <1>5, <1>6 DEF Consistent, t

(* A call returns. *)
LEMMA PopConsistent ==
  ASSUME NEW s, NEW c, NEW w, Consistent(s, c, w), s # <<>>
  PROVE  Consistent(Tail(s), Head(s).prev, w \ {Head(s).key})
<1> DEFINE t == Tail(s)
<1>1. s \in Seq(Range(s))
  BY DEF Consistent, WellFormed
<1>2. /\ t \in Seq(Range(t)) /\ Len(s) \in Nat \ {0} /\ DOMAIN s = 1..Len(s)
      /\ Head(s) = s[1] /\ Len(t) = Len(s) - 1 /\ DOMAIN t = 1..(Len(s) - 1)
      /\ Range(s) = {s[1]} \union Range(t)
      /\ \A i \in DOMAIN t : t[i] = s[i + 1]
  BY <1>1, PopSeq
<1> HIDE DEF t
<1>3. \A i \in DOMAIN t : i + 1 \in DOMAIN s /\ t[i] = s[i + 1]
  <2>1. \A i \in DOMAIN t : i + 1 \in DOMAIN s
    BY <1>2
  <2> QED BY <2>1, <1>2
<1>4. WellFormed(t)
  <2> SUFFICES ASSUME NEW i \in DOMAIN t
               PROVE  /\ Fields \subseteq DOMAIN t[i]
                      /\ t[i].kind = "root" <=> i = Len(t)
                      /\ t[i].kind \in Composites => t[i].key = NoKey
    BY <1>2 DEF WellFormed
  <2>1. /\ Fields \subseteq DOMAIN s[i + 1]
        /\ s[i + 1].kind = "root" <=> i + 1 = Len(s)
        /\ s[i + 1].kind \in Composites => s[i + 1].key = NoKey
    BY <1>3 DEF Consistent, WellFormed
  <2>2. i + 1 = Len(s) <=> i = Len(t)
    BY <1>2
  <2> QED BY <2>1, <2>2, <1>3
<1>5. Documents(t, Head(s).prev)
  <2>1. \A i \in 1..Len(s) : Within(t, i) = Within(s, i + 1)
    <3> SUFFICES ASSUME NEW i \in 1..Len(s)
                 PROVE  Within(t, i) = Within(s, i + 1)
      OBVIOUS
    <3>1. CASE i = Len(s)
      BY <3>1, <1>2 DEF Within
    <3>2. CASE i # Len(s)
      <4> DEFINE n == Len(s)
      <4>1. n \in Nat \ {0} /\ Len(t) = n - 1 /\ DOMAIN t = 1..(n - 1)
        BY <1>2
      <4> HIDE DEF n
      <4>2. i \in 1..n /\ i # n
        BY <3>2 DEF n
      <4>3. i \in 1..(n - 1) /\ ~(i > n - 1) /\ ~(i + 1 > n)
        BY ONLY <4>1, <4>2
      <4>4. i \in DOMAIN t /\ ~(i > Len(t)) /\ ~(i + 1 > Len(s))
        BY <4>1, <4>3 DEF n
      <4>5. t[i] = s[i + 1]
        BY ONLY <4>4, <1>2
      <4> QED BY <4>4, <4>5 DEF Within
    <3> QED BY <3>1, <3>2
  <2>2. \A i \in DOMAIN s : s[i].prev = Within(s, i + 1)
    BY DEF Consistent, Documents
  <2>3. 1 \in DOMAIN s /\ \A i \in DOMAIN t : i + 1 \in DOMAIN s /\ i + 1 \in 1..Len(s)
    BY <1>2
  <2>4. Head(s).prev = Within(t, 1)
    BY <2>1, <2>2, <2>3, <1>2
  <2>5. ASSUME NEW i \in DOMAIN t PROVE t[i].prev = Within(t, i + 1)
    BY <2>1, <2>2, <2>3, <1>3
  <2> QED BY <2>4, <2>5 DEF Documents
<1>6. Progress(t, w \ {Head(s).key})
  <2>1. w = {g.key : g \in Range(s)} \ {NoKey}
    BY DEF Consistent, Progress
  <2>2. \A i, j \in DOMAIN s : i # j /\ s[i].key # NoKey => s[i].key # s[j].key
    BY DEF Consistent, Progress
  <2>3. \A g \in Range(t) : g.key # NoKey => g.key # s[1].key
    <3> SUFFICES ASSUME NEW i \in DOMAIN t, t[i].key # NoKey PROVE t[i].key # s[1].key
      BY DEF Range
    <3>1. i + 1 \in DOMAIN s /\ 1 \in DOMAIN s /\ i + 1 # 1
      BY <1>2
    <3> QED BY <3>1, <2>2, <1>3
  <2>4. w \ {Head(s).key} = {g.key : g \in Range(t)} \ {NoKey}
    BY <2>1, <2>3, <1>2
  <2>5. ASSUME NEW i \in DOMAIN t, NEW j \in DOMAIN t, i # j, t[i].key # NoKey
        PROVE  t[i].key # t[j].key
    <3>1. i + 1 \in DOMAIN s /\ j + 1 \in DOMAIN s /\ i + 1 # j + 1
      BY <2>5, <1>2
    <3> QED BY <3>1, <2>2, <2>5, <1>3
  <2> QED BY <2>4, <2>5 DEF Progress
<1> QED BY <1>4, <1>5, <1>6 DEF Consistent, t

LEMMA HeadFields ==
  ASSUME NEW s, NEW c, NEW w, Consistent(s, c, w), s # <<>>
  PROVE  Fields \subseteq DOMAIN Head(s)
<1>1. 1 \in DOMAIN s /\ Head(s) = s[1]
  BY PopSeq DEF Consistent, WellFormed
<1> QED BY <1>1 DEF Consistent, WellFormed

(* The root is the outermost call, and the only one of its kind. *)
LEMMA RootLast ==
  ASSUME NEW s, NEW c, NEW w, Consistent(s, c, w), s # <<>>
  PROVE  /\ Head(s).kind = "root" <=> Len(s) = 1
         /\ Head(s).kind = "root" <=> Tail(s) = <<>>
<1>1. /\ Len(s) \in Nat \ {0} /\ DOMAIN s = 1..Len(s) /\ Head(s) = s[1]
      /\ Len(Tail(s)) = Len(s) - 1 /\ Tail(s) \in Seq(Range(Tail(s)))
  BY PopSeq DEF Consistent, WellFormed
<1>2. \A i \in DOMAIN s : s[i].kind = "root" <=> i = Len(s)
  BY DEF Consistent, WellFormed
<1>3. 1 \in DOMAIN s
  BY <1>1
<1>4. Head(s).kind = "root" <=> Len(s) = 1
  BY <1>1, <1>2, <1>3
<1>5. Len(s) = 1 <=> Tail(s) = <<>>
  BY <1>1, SMTT(30)
<1> QED BY <1>4, <1>5

(* The innermost call goes on. *)
LEMMA ReplaceConsistent ==
  ASSUME NEW s, NEW c, NEW w, Consistent(s, c, w), s # <<>>,
         NEW f, Fields \subseteq DOMAIN f,
         f.kind = Head(s).kind, f.key = Head(s).key, f.prev = Head(s).prev
  PROVE  Consistent(<<f>> \o Tail(s), c, w)
<1> DEFINE t == Tail(s)
           h == Head(s)
<1>1. /\ Len(s) \in Nat \ {0} /\ DOMAIN s = 1..Len(s) /\ h = s[1]
      /\ Len(t) = Len(s) - 1 /\ t \in Seq(Range(t))
  BY PopSeq DEF Consistent, WellFormed
<1>2. Consistent(t, h.prev, w \ {h.key})
  BY PopConsistent
<1>3. f.kind = "root" <=> t = <<>>
  BY RootLast
<1>4. f.kind \in Composites => f.key = NoKey
  BY <1>1 DEF Consistent, WellFormed
<1>5. Consistent(<<f>> \o t, IF f.kind = "ref" THEN f.key[1] ELSE h.prev,
                 (w \ {h.key}) \union ({f.key} \ {NoKey}))
  BY <1>2, <1>3, <1>4, PushConsistent
<1>6. c = IF f.kind = "ref" THEN f.key[1] ELSE h.prev
  BY <1>1 DEF Consistent, Documents, Within
<1>7. w = (w \ {h.key}) \union ({f.key} \ {NoKey})
  <2>1. w = {g.key : g \in Range(s)} \ {NoKey} /\ h \in Range(s)
    BY <1>1, SMTT(30) DEF Consistent, Progress, Range
  <2> QED BY <2>1
<1> QED BY <1>5, <1>6, <1>7

-----------------------------------------------------------------------------
(* The invariant. *)

LEMMA InitIInv == Init => IInv
<1> SUFFICES ASSUME Init PROVE IInv
  OBVIOUS
<1>1. stack = <<>> /\ DOMAIN stack = {} /\ Len(stack) = 0 /\ Range(stack) = {}
  BY DEF Init, Range
<1>2. stack \in Seq(Range(stack))
  BY <1>1
<1> QED BY <1>1, <1>2 DEF Init, IInv, Consistent, WellFormed, Documents, Progress, Within

LEMMA FrameFields ==
  ASSUME NEW kind, NEW id, NEW schema, NEW key
  PROVE  LET f == Frame(kind, id, schema, key) IN
         Fields \subseteq DOMAIN f /\ f.kind = kind /\ f.key = key /\ f.prev = current
BY DEF Frame, Fields

(* A frame that is only updated inside. *)
LEMMA ReplaceIInv ==
  ASSUME IInv, pc \in {"parse", "subs", "return"}, Head(stack).kind \in Composites,
         NEW f, Fields \subseteq DOMAIN f,
         f.kind = Head(stack).kind, f.key = Head(stack).key, f.prev = Head(stack).prev,
         stack' = <<f>> \o Tail(stack), pc' = "subs", UNCHANGED <<current, walking>>
  PROVE  IInv'
<1>1. Consistent(stack, current, walking) /\ stack # <<>>
  BY DEF IInv
<1>2. Consistent(stack', current', walking')
  BY <1>1, ReplaceConsistent
<1>3. Tail(stack) \in Seq(Range(Tail(stack)))
  BY <1>1, PopSeq DEF Consistent, WellFormed
<1>4. stack' # <<>> /\ Head(stack') = f
  BY <1>3, PushSeq
<1> QED BY <1>2, <1>4 DEF IInv

LEMMA StepIInv == IInv /\ [Next]_vars => IInv'
<1> SUFFICES ASSUME IInv, [Next]_vars PROVE IInv'
  OBVIOUS
<1>0. /\ Consistent(stack, current, walking)
      /\ stack \in Seq(Range(stack))
  BY DEF IInv, Consistent, WellFormed
<1>1. ASSUME stack' = stack, current' = current, walking' = walking,
             pc \in {"parse", "subs", "return"}, pc' \in {"parse", "return"}
      PROVE  IInv'
  <2>1. Consistent(stack', current', walking') /\ stack' # <<>>
    BY <1>0, <1>1 DEF IInv
  <2> QED BY <1>1, <2>1 DEF IInv
<1>2. ASSUME NEW d, NEW n, WalkAt(d, n), pc = "parse" PROVE IInv'
  <2> DEFINE f == Frame("ref", TargetId(d, n, arg.hint), arg.schema, <<d, n>>)
  <2>1. CASE UNCHANGED <<current, walking, stack, arg>> /\ pc' = "return"
    BY <1>1, <1>2, <2>1
  <2>2. CASE /\ stack' = <<f>> \o stack /\ current' = d /\ <<d, n>> \notin walking
             /\ walking' = walking \union {<<d, n>>} /\ pc' = "parse"
    <3>1. /\ Fields \subseteq DOMAIN f /\ f.kind = "ref"
          /\ f.key = <<d, n>> /\ f.prev = current
      BY FrameFields
    <3> HIDE DEF f
    <3>2. <<d, n>> # NoKey /\ <<d, n>>[1] = d
      BY DEF NoKey
    <3>3. Consistent(<<f>> \o stack, IF f.kind = "ref" THEN f.key[1] ELSE current,
                     walking \union ({f.key} \ {NoKey}))
      <4>1. /\ f.kind # "root" /\ f.kind \notin Composites /\ f.key \notin walking
            /\ stack # <<>>
        BY <1>2, <2>2, <3>1 DEF Composites, IInv
      <4> QED BY <1>0, <3>1, <4>1, PushConsistent
    <3>4. Consistent(stack', current', walking')
      BY <2>2, <3>1, <3>2, <3>3
    <3>5. stack' # <<>>
      BY <1>0, <2>2, PushSeq
    <3> QED BY <2>2, <3>4, <3>5 DEF IInv
  <2> QED BY <1>2, <2>1, <2>2 DEF WalkAt, Known, Return, Reject, Parse
<1>3. CASE WalkComponent \/ WalkUse
  <2>1. stack = <<>> /\ walking = {} /\ current = Main
    <3>1. stack = <<>>
      BY <1>3 DEF WalkComponent, WalkUse, IInv
    <3>2. Len(stack) = 0 /\ Range(stack) = {}
      BY <3>1 DEF Range
    <3> QED BY <1>0, <3>1, <3>2 DEF Consistent, Documents, Progress, Within
  <2>2. PICK schema, key : /\ walking' = {key} \ {NoKey} /\ current' = current /\ pc' = "parse"
                           /\ stack' = <<Frame("root", NoId, schema, key)>>
    <3>1. CASE WalkComponent
      <4>1. \A n : <<Main, n>> # NoKey
        BY DEF NoKey
      <4> QED BY <2>1, <3>1, <4>1 DEF WalkComponent, Parse
    <3>2. CASE WalkUse
      BY <2>1, <3>2 DEF WalkUse, Parse, where
    <3> QED BY <1>3, <3>1, <3>2
  <2> DEFINE f == Frame("root", NoId, schema, key)
  <2>3. Fields \subseteq DOMAIN f /\ f.kind = "root" /\ f.key = key /\ f.prev = current
    BY FrameFields
  <2> HIDE DEF f
  <2>4. Consistent(<<f>> \o stack, current, walking \union ({f.key} \ {NoKey}))
    BY <1>0, <2>1, <2>3, PushConsistent DEF Composites
  <2>5. <<f>> \o stack = <<f>>
    BY <2>1
  <2>6. Consistent(stack', current', walking') /\ stack' # <<>>
    BY <2>1, <2>2, <2>3, <2>4, <2>5 DEF f
  <2> QED BY <2>2, <2>6 DEF IInv
<1>4. CASE RootReturns
  <2>1. /\ stack # <<>> /\ Head(stack).kind = "root" /\ stack' = <<>> /\ pc' = "root"
        /\ walking' = walking \ {Head(stack).key} /\ current' = current
    BY <1>4 DEF RootReturns, IInv
  <2>2. /\ Len(stack) \in Nat \ {0} /\ Head(stack) = stack[1] /\ DOMAIN stack = 1..Len(stack)
        /\ Len(Tail(stack)) = Len(stack) - 1 /\ Tail(stack) \in Seq(Range(Tail(stack)))
    BY <1>0, <2>1, PopSeq
  <2>3. Len(stack) = 1
    BY <1>0, <2>1, RootLast
  <2>4. Tail(stack) = <<>>
    BY <1>0, <2>1, RootLast
  <2>5. Consistent(<<>>, Head(stack).prev, walking')
    BY <1>0, <2>1, <2>4, PopConsistent
  <2>6. Head(stack).prev = current
    BY <1>0, <2>1, <2>2, <2>3 DEF Consistent, Documents, Within
  <2>7. Consistent(stack', current', walking')
    BY <2>1, <2>5, <2>6
  <2> QED BY <2>1, <2>7 DEF IInv
<1>5. CASE ParseLeaf \/ ParseNull \/ ParseBad \/ NextSub
  BY <1>1, <1>5 DEF ParseLeaf, ParseNull, ParseBad, NextSub, Return, Reject, Parse, where
<1>6. CASE ParseComposite
  <2> DEFINE f == Frame(arg.schema.kind, Alloc(arg.hint).id, arg.schema, NoKey)
  <2>1. /\ stack' = <<f>> \o stack /\ arg.schema.kind \in Composites
        /\ UNCHANGED <<current, walking>> /\ pc' = "subs"
    BY <1>6 DEF ParseComposite, where
  <2>2. /\ Fields \subseteq DOMAIN f /\ f.kind = arg.schema.kind
        /\ f.key = NoKey /\ f.prev = current
    BY FrameFields
  <2> HIDE DEF f
  <2>3. Consistent(<<f>> \o stack, current, walking \union ({f.key} \ {NoKey}))
    <3>1. f.kind # "root" /\ f.kind # "ref" /\ f.kind \in Composites /\ stack # <<>>
      BY <1>6, <2>1, <2>2 DEF Composites, IInv, ParseComposite
    <3>2. Consistent(<<f>> \o stack, IF f.kind = "ref" THEN f.key[1] ELSE current,
                     walking \union ({f.key} \ {NoKey}))
      BY <1>0, <2>2, <3>1, PushConsistent
    <3> QED BY <3>1, <3>2
  <2>4. walking \union ({f.key} \ {NoKey}) = walking
    BY <2>2
  <2>5. stack' # <<>> /\ Head(stack') = f
    BY <1>0, <2>1, PushSeq
  <2>6. Consistent(stack', current', walking')
    BY <2>1, <2>3, <2>4
  <2> QED BY <2>1, <2>2, <2>5, <2>6 DEF IInv
<1>7. CASE SubReturns
  <2> DEFINE h == Head(stack)
             f == IF ret = NoId THEN Advanced(h)
                  ELSE [Advanced(h) EXCEPT !.props = Put(@, h.schema.subs[h.next].role, ret)]
  <2>1. /\ pc = "return" /\ h.kind \in Composites /\ pc' = "subs"
        /\ stack' = <<f>> \o Tail(stack) /\ UNCHANGED <<current, walking>>
    BY <1>7 DEF SubReturns, Replace, where
  <2>2. Fields \subseteq DOMAIN h
    BY <1>0, <2>1, HeadFields DEF IInv
  <2>3. Fields \subseteq DOMAIN f /\ f.kind = h.kind /\ f.key = h.key /\ f.prev = h.prev
    BY <2>2 DEF Advanced, Fields
  <2> QED BY <2>1, <2>3, ReplaceIInv
<1>8. CASE PartReturns
  <2> DEFINE h == Head(stack)
  <2>1. /\ pc = "return" /\ h.kind \in Composites /\ pc' = "subs"
        /\ UNCHANGED <<current, walking>>
    BY <1>8 DEF PartReturns, where, Composites
  <2>2. Fields \subseteq DOMAIN h
    BY <1>0, <2>1, HeadFields DEF IInv
  <2> DEFINE merged == [Advanced(h) EXCEPT
                   !.props = Over(types[ret].props, @),
                   !.got = TRUE,
                   !.parts = IF Synthetic(h.id, ret) THEN @ \union {ret} ELSE @]
  <2>3. stack' = <<Advanced(h)>> \o Tail(stack) \/ stack' = <<merged>> \o Tail(stack)
    BY <1>8 DEF PartReturns, Replace
  <2>4. ASSUME NEW f \in {Advanced(h), merged}
        PROVE  Fields \subseteq DOMAIN f /\ f.kind = h.kind /\ f.key = h.key /\ f.prev = h.prev
    BY <2>2 DEF Advanced, Fields
  <2> QED BY <2>1, <2>3, <2>4, ReplaceIInv
<1>9. CASE Close
  <2>1. /\ pc = "subs" /\ pc' = "return" /\ stack' = Tail(stack)
        /\ UNCHANGED <<current, walking>>
    BY <1>9 DEF Close, Return, where
  <2>2. stack # <<>> /\ Head(stack).kind \in Composites
    BY <2>1 DEF IInv
  <2>3. /\ 1 \in DOMAIN stack /\ Head(stack) = stack[1] /\ Len(stack) \in Nat \ {0}
        /\ Len(Tail(stack)) = Len(stack) - 1
    BY <1>0, <2>2, PopSeq
  <2>4. Head(stack).key = NoKey /\ Head(stack).prev = current
    BY <1>0, <2>2, <2>3 DEF Consistent, WellFormed, Documents, Within, Composites
  <2>5. walking \ {NoKey} = walking
    <3>1. NoKey \notin walking
      BY <1>0 DEF Consistent, Progress
    <3> QED BY <3>1
  <2>6. Consistent(stack', current', walking')
    BY <1>0, <2>1, <2>2, <2>4, <2>5, PopConsistent
  <2>7. stack' # <<>>
    BY <2>1, <2>2, <1>0, RootLast DEF Composites
  <2> QED BY <2>1, <2>6, <2>7 DEF IInv
<1>10. CASE ParseLocalRef
  <2>1. CASE UNCHANGED <<current, walking, stack>> /\ pc' = "return"
    BY <1>1, <1>10, <2>1 DEF ParseLocalRef
  <2>2. CASE WalkAt(current, arg.schema.target)
    BY <1>2, <1>10, <2>2 DEF ParseLocalRef
  <2> QED BY <1>10, <2>1, <2>2 DEF ParseLocalRef, Return, Reject
<1>11. CASE ParseExternalRef
  <2>1. CASE UNCHANGED <<current, walking, stack>> /\ pc' = "return"
    BY <1>1, <1>11, <2>1 DEF ParseExternalRef
  <2>2. CASE WalkAt(arg.schema.file, arg.schema.target)
    BY <1>2, <1>11, <2>2 DEF ParseExternalRef
  <2> QED BY <1>11, <2>1, <2>2 DEF ParseExternalRef, Return, Reject
<1>12. CASE RefReturns
  <2>1. /\ pc = "return" /\ pc' = "return" /\ stack' = Tail(stack) /\ Head(stack).kind = "ref"
        /\ current' = Head(stack).prev /\ walking' = walking \ {Head(stack).key}
    BY <1>12 DEF RefReturns
  <2>2. stack # <<>>
    BY <2>1 DEF IInv
  <2>3. Consistent(stack', current', walking')
    BY <1>0, <2>1, <2>2, PopConsistent
  <2>4. stack' # <<>>
    BY <2>1, <2>2, <1>0, RootLast
  <2> QED BY <2>1, <2>3, <2>4 DEF IInv
<1>13. CASE Finish \/ UNCHANGED vars
  <2>1. UNCHANGED <<stack, current, walking>> /\ (UNCHANGED pc \/ (pc' = "done" /\ pc = "root"))
    BY <1>13 DEF Finish, vars, where
  <2>2. Consistent(stack', current', walking')
    BY <1>0, <2>1
  <2> QED BY <2>1, <2>2 DEF IInv
<1> QED
  BY <1>3, <1>4, <1>5, <1>6, <1>7, <1>8, <1>9, <1>10, <1>11, <1>12, <1>13 DEF Next

(* The current document and the schemas in progress follow the calls of the *)
(* parser (walk_resolved_schema_at_pointer restores both on every way out), *)
(* for every description.                                                   *)
THEOREM ContextRestored == Spec => []ContextFollowsCalls
<1>1. IInv => ContextFollowsCalls
  BY DEF IInv, Consistent, Documents, Progress, ContextFollowsCalls
<1> QED BY <1>1, InitIInv, StepIInv, PTL DEF Spec

(* No schema is walked inside itself, however descriptions and documents    *)
(* refer to each other: the check at schema.rs:533 catches every re-entry.  *)
THEOREM CyclesCaught == Spec => []NoReentry
<1>1. IInv => NoReentry
  BY DEF IInv, Consistent, Progress, NoReentry
<1> QED BY <1>1, InitIInv, StepIInv, PTL DEF Spec

-----------------------------------------------------------------------------
(* The pool. *)

(* Numerals of different numbers are different: ToString stands for the     *)
(* decimal numeral that format! writes for a usize.                         *)
NumeralsDiffer == \A i, j \in Nat : ToString(i) = ToString(j) => i = j

Words == {"nonnull", "op", "request", "body", "", "null"}
Ids == Seq(STRING \union Words \union {ToString(k) : k \in Nat})
PoolOk(ts, n) == IsFiniteSet(DOMAIN ts) /\ \A b \in DOMAIN n : n[b] \in Nat

(* Nothing is lost or replaced but the types called ids. *)
Keeps(old, new, ids) == \A t \in DOMAIN old \ ids : t \in DOMAIN new /\ new[t] = old[t]

(* The type called t is made from that schema. *)
MadeFrom(ts, t, schema) == t \in DOMAIN ts /\ ts[t].schema = schema

LEMMA MinIn ==
  ASSUME NEW S, S \subseteq Nat, S # {}
  PROVE  Min(S) \in S
BY LeastNatural DEF Min

LEMMA PutFacts ==
  ASSUME NEW g, NEW k, NEW v
  PROVE  /\ DOMAIN Put(g, k, v) = DOMAIN g \union {k}
         /\ Put(g, k, v)[k] = v
         /\ \A x \in DOMAIN g : x # k => Put(g, k, v)[x] = g[x]
BY DEF Put

LEMMA IdsJoin ==
  /\ \A s \in Seq(STRING) : s \in Ids
  /\ \A s, t \in Ids : s \o t \in Ids
  /\ \A s \in Ids, k \in Nat : Append(s, ToString(k)) \in Ids
  /\ \A s \in Ids, w \in Words : Append(s, w) \in Ids
  /\ <<>> \in Ids /\ \A v, w \in STRING \union Words : <<w>> \in Ids /\ <<v, w>> \in Ids
<1> DEFINE P == STRING \union Words \union {ToString(k) : k \in Nat}
<1>1. STRING \subseteq P /\ Words \subseteq P /\ \A k \in Nat : ToString(k) \in P
  OBVIOUS
<1>2. Ids = Seq(P)
  BY DEF Ids
<1> HIDE DEF P
<1>3. \A s \in Seq(STRING) : s \in Seq(P)
  BY <1>1, SeqMonotonic
<1>4. \A s, t \in Seq(P) : s \o t \in Seq(P)
  OBVIOUS
<1>5. \A s \in Seq(P), x \in P : Append(s, x) \in Seq(P)
  OBVIOUS
<1>6. <<>> \in Seq(P) /\ \A v, w \in P : <<w>> \in Seq(P) /\ <<v, w>> \in Seq(P)
  OBVIOUS
<1> QED BY <1>1, <1>2, <1>3, <1>4, <1>5, <1>6

(* unique_id finds a free id: there are more numerals than types. *)
LEMMA Fresh ==
  ASSUME NumeralsDiffer, NEW b \in Ids, NEW ts, NEW n, PoolOk(ts, n)
  PROVE  LET u == UniqueId(b, ts, n) IN
         /\ u.id \in Ids /\ u.id \notin DOMAIN ts /\ u.count \in Nat
         /\ IF b \in DOMAIN ts THEN \E k \in Nat : u.id = Append(b, ToString(k)) ELSE u.id = b
<1>1. CASE b \notin DOMAIN ts
  BY <1>1 DEF UniqueId
<1>2. CASE b \in DOMAIN ts
  <2> DEFINE from == IF b \in DOMAIN n THEN n[b] ELSE 1
             c == Cardinality(DOMAIN ts)
             S == (from + 1)..(from + 1 + c)
             f == [k \in S |-> Append(b, ToString(k))]
             free == {k \in S : Append(b, ToString(k)) \notin DOMAIN ts}
  <2>1. from \in Nat /\ c \in Nat /\ IsFiniteSet(DOMAIN ts)
    BY FS_CardinalityType DEF PoolOk
  <2>2. UniqueId(b, ts, n) = [id |-> Append(b, ToString(Min(free))), count |-> Min(free)]
    BY <1>2 DEF UniqueId
  <2> HIDE DEF from, c
  <2>3. IsFiniteSet(S) /\ Cardinality(S) = c + 1 /\ S \subseteq Nat
    <3>1. from + 1 \in Int /\ from + 1 + c \in Int /\ ~(from + 1 > from + 1 + c)
      BY <2>1
    <3>2. IsFiniteSet(S) /\ Cardinality(S) = (from + 1 + c) - (from + 1) + 1
      BY <3>1, FS_Interval
    <3> QED BY <2>1, <3>2
  <2>4. \A k, l \in S : f[k] = f[l] => k = l
    <3> SUFFICES ASSUME NEW k \in S, NEW l \in S, f[k] = f[l] PROVE k = l
      OBVIOUS
    <3>1. Append(b, ToString(k)) = Append(b, ToString(l))
      OBVIOUS
    <3>2. ToString(k) = ToString(l)
      <4> DEFINE P == STRING \union Words \union {ToString(j) : j \in Nat}
      <4>1. b \in Seq(P) /\ ToString(k) \in P /\ ToString(l) \in P
        BY <2>3 DEF Ids
      <4> HIDE DEF P
      <4>2. \A x, y \in P : Append(b, x) = Append(b, y) => x = y
        <5> SUFFICES ASSUME NEW x \in P, NEW y \in P, Append(b, x) = Append(b, y) PROVE x = y
          OBVIOUS
        <5>1. Append(b, x)[Len(b) + 1] = x /\ Append(b, y)[Len(b) + 1] = y
          BY <4>1, AppendProperties
        <5> QED BY <5>1
      <4> QED BY <3>1, <4>1, <4>2
    <3> QED BY <2>3, <3>2 DEF NumeralsDiffer
  <2>5. free # {}
    <3> SUFFICES ASSUME free = {} PROVE FALSE
      OBVIOUS
    <3>1. f \in [S -> DOMAIN ts]
      OBVIOUS
    <3>2. c < Cardinality(S)
      BY <2>1, <2>3
    <3>3. \E k, l \in S : k # l /\ f[k] = f[l]
      <4> DEFINE T == DOMAIN ts
      <4>1. /\ IsFiniteSet(S) /\ IsFiniteSet(T)
            /\ Cardinality(T) < Cardinality(S) /\ f \in [S -> T]
        BY <2>1, <2>3, <3>1, <3>2 DEF c
      <4> HIDE DEF S, f, T
      <4> QED BY <4>1, FS_PigeonHole
    <3> QED BY <2>4, <3>3
  <2>6. Min(free) \in free /\ Min(free) \in Nat
    <3>1. free \subseteq Nat
      BY <2>3
    <3> HIDE DEF free
    <3> QED BY <2>5, <3>1, MinIn
  <2>7. Append(b, ToString(Min(free))) \notin DOMAIN ts
    BY <2>6
  <2>8. Append(b, ToString(Min(free))) \in Ids
    BY <2>6, IdsJoin
  <2> HIDE DEF free
  <2> QED BY <1>2, <2>2, <2>6, <2>7, <2>8
<1> QED BY <1>1, <1>2

LEMMA PoolOver ==
  ASSUME NEW ts, NEW n, PoolOk(ts, n), NEW id, NEW def, NEW b, NEW k \in Nat
  PROVE  /\ PoolOk(Put(ts, id, def), n) /\ PoolOk(ts, Put(n, b, k))
         /\ Keeps(ts, Put(ts, id, def), {id})
<1>1. DOMAIN Put(ts, id, def) = DOMAIN ts \union {id}
  BY PutFacts
<1>2. IsFiniteSet(DOMAIN ts \union {id})
  BY FS_AddElement DEF PoolOk
<1>3. \A x \in DOMAIN Put(n, b, k) : Put(n, b, k)[x] \in Nat
  BY DEF Put, PoolOk
<1>4. Keeps(ts, Put(ts, id, def), {id})
  BY DEF Put, Keeps
<1> QED BY <1>1, <1>2, <1>3, <1>4 DEF PoolOk

LEMMA WithNullKeeps ==
  ASSUME NEW ts, NEW n, PoolOk(ts, n)
  PROVE  /\ PoolOk(WithNull(ts), n) /\ Keeps(ts, WithNull(ts), {})
         /\ DOMAIN ts \subseteq DOMAIN WithNull(ts)
<1>1. CASE NullId \in DOMAIN ts
  BY <1>1 DEF WithNull, Keeps
<1>2. CASE NullId \notin DOMAIN ts
  <2> DEFINE new == Put(ts, NullId, Def("null", NullSchema, NoDefs))
  <2>1. WithNull(ts) = new
    BY <1>2 DEF WithNull
  <2>2. PoolOk(new, n) /\ Keeps(ts, new, {NullId})
    BY PoolOver
  <2>3. Keeps(ts, new, {})
    BY <1>2, <2>2 DEF Keeps
  <2> QED BY <2>1, <2>2, <2>3 DEF Keeps
<1> QED BY <1>1, <1>2

LEMMA AllocFacts ==
  ASSUME NumeralsDiffer, NEW hint, hint.base \in Ids, PoolOk(types, counter)
  PROVE  LET a == Alloc(hint) IN
         /\ a.id \in Ids
         /\ PoolOk(a.types, a.counter)
         /\ Keeps(types, a.types, {})
         /\ IF hint.named /\ hint.base # NullId THEN a.id = hint.base ELSE a.id \notin DOMAIN types
<1>1. CASE hint.named /\ hint.base # NullId
  BY <1>1 DEF Alloc, Keeps
<1>2. CASE ~(hint.named /\ hint.base # NullId)
  <2> DEFINE ts == IF hint.named THEN WithNull(types) ELSE types
             u == UniqueId(hint.base, ts, counter)
  <2>1. PoolOk(ts, counter) /\ Keeps(types, ts, {}) /\ DOMAIN types \subseteq DOMAIN ts
    BY WithNullKeeps DEF Keeps
  <2>2. Alloc(hint) = [id |-> u.id, types |-> ts, counter |-> Put(counter, hint.base, u.count)]
    BY <1>2 DEF Alloc
  <2> HIDE DEF ts
  <2>3. u.id \in Ids /\ u.id \notin DOMAIN ts /\ u.count \in Nat
    BY <2>1, Fresh
  <2> HIDE DEF u
  <2>4. PoolOk(ts, Put(counter, hint.base, u.count))
    BY <2>1, <2>3, PoolOver
  <2> QED BY <1>2, <2>1, <2>2, <2>3, <2>4
<1> QED BY <1>1, <1>2

LEMMA LiftedFacts ==
  ASSUME NumeralsDiffer, NEW s, PoolOk(s.types, s.counter),
         NEW id \in Ids, NEW kind, NEW schema, NEW props, NEW nullable
  PROVE  LET l == Lifted(s, id, Def(kind, schema, props), nullable) IN
         /\ PoolOk(l.types, l.counter)
         /\ Keeps(s.types, l.types, {id})
         /\ MadeFrom(l.types, id, schema)
<1> DEFINE def == Def(kind, schema, props)
           l == Lifted(s, id, def, nullable)
<1>0. def.schema = schema
  BY DEF Def
<1> HIDE DEF def
<1>1. CASE ~nullable
  <2>1. l = [types |-> Put(s.types, id, def), counter |-> s.counter]
    BY <1>1 DEF Lifted
  <2>2. PoolOk(Put(s.types, id, def), s.counter) /\ Keeps(s.types, Put(s.types, id, def), {id})
    BY PoolOver
  <2>3. id \in DOMAIN (Put(s.types, id, def)) /\ (Put(s.types, id, def))[id] = def
    BY DEF Put
  <2> QED BY <1>0, <2>1, <2>2, <2>3 DEF def, MadeFrom
<1>2. CASE nullable
  <2> DEFINE inner == Append(id, "nonnull")
             u == UniqueId(inner, s.types, s.counter)
             either == Put(Put(NoDefs, <<"nonnull">>, u.id), <<"null">>, NullId)
             whole == Def("union", def.schema, either)
             one == Put(s.types, u.id, def)
             two == WithNull(one)
             three == Put(two, id, whole)
  <2>1. l = [types |-> three, counter |-> Put(s.counter, inner, u.count)]
    BY <1>2 DEF Lifted
  <2>2. u.id \notin DOMAIN s.types /\ u.count \in Nat
    <3>1. inner \in Ids
      <4>1. "nonnull" \in Words
        BY DEF Words
      <4> QED BY <4>1, IdsJoin
    <3> HIDE DEF inner
    <3> QED BY <3>1, Fresh
  <2>3. whole.schema = schema
    BY <1>0 DEF Def
  <2> HIDE DEF inner, u, whole
  <2>4. PoolOk(one, s.counter) /\ Keeps(s.types, one, {u.id})
    BY PoolOver
  <2> HIDE DEF one
  <2>5. PoolOk(two, s.counter) /\ Keeps(one, two, {})
    BY <2>4, WithNullKeeps
  <2> HIDE DEF two
  <2>6. PoolOk(three, s.counter) /\ Keeps(two, three, {id})
    BY <2>5, PoolOver
  <2>7. id \in DOMAIN three /\ three[id] = whole
    BY DEF Put
  <2> HIDE DEF three
  <2>8. PoolOk(three, Put(s.counter, inner, u.count))
    BY <2>2, <2>6, PoolOver
  <2>9. Keeps(s.types, three, {id})
    BY <2>2, <2>4, <2>5, <2>6 DEF Keeps
  <2> QED BY <2>1, <2>3, <2>7, <2>8, <2>9 DEF def, MadeFrom
<1> QED BY <1>1, <1>2

-----------------------------------------------------------------------------
(* What the state is made of. *)

FrameOk(f) ==
  /\ {"kind", "id", "schema", "key", "prev", "next", "props", "got", "parts"} \subseteq DOMAIN f
  /\ f.id \in Ids /\ f.next \in Nat \ {0}
  /\ f.kind \in Composites => f.schema \in Schemas
  /\ \A x \in f.parts : PartName(x)

TInv ==
  /\ spec \in Specs /\ todo \subseteq DOMAIN spec.docs[Main] /\ used \in Nat
  /\ PoolOk(types, counter)
  /\ \A k \in DOMAIN dedup : dedup[k] \in Ids
  /\ pc = "parse" => arg.schema \in Schemas /\ arg.hint.base \in Ids
  /\ pc = "return" => ret \in Ids
  /\ \A f \in Range(stack) : FrameOk(f)

LEMMA SpecFacts ==
  ASSUME spec \in Specs
  PROVE  /\ \A d \in DOMAIN spec.docs : \A i \in DOMAIN spec.docs[d] :
              spec.docs[d][i].name \in Ids /\ spec.docs[d][i].schema \in Schemas
         /\ \A d \in DOMAIN spec.docs : Prefix(d) \in Ids
         /\ Main \in DOMAIN spec.docs /\ DOMAIN spec.docs[Main] \subseteq Nat
<1>1. \A d \in DOMAIN spec.docs : \A i \in DOMAIN spec.docs[d] :
         spec.docs[d][i].name \in Seq(STRING) /\ spec.docs[d][i].schema \in Schemas
  <2> SUFFICES ASSUME NEW d \in DOMAIN spec.docs, NEW i \in DOMAIN spec.docs[d]
               PROVE  spec.docs[d][i].name \in Seq(STRING) /\ spec.docs[d][i].schema \in Schemas
    OBVIOUS
  <2> DEFINE Component == [name : Seq(STRING), schema : Schemas]
             doc == spec.docs[d]
  <2>1. doc \in Seq(Component)
    BY SpecsAssumption
  <2>2. \A x \in Component : x.name \in Seq(STRING) /\ x.schema \in Schemas
    OBVIOUS
  <2> HIDE DEF Component
  <2>3. \A k \in DOMAIN doc : doc[k] \in Component
    <3> HIDE DEF doc
    <3> QED BY <2>1
  <2> QED BY <2>2, <2>3
<1>2. \A d \in DOMAIN spec.docs : d \in STRING
  BY SpecsAssumption
<1>3. \A d \in DOMAIN spec.docs : Prefix(d) \in Ids
  <2> SUFFICES ASSUME NEW d \in DOMAIN spec.docs PROVE Prefix(d) \in Ids
    OBVIOUS
  <2>1. d \in STRING \union Words /\ "" \in STRING \union Words
    BY <1>2 DEF Words
  <2>2. <<d, "">> \in Ids /\ <<>> \in Ids
    BY <2>1, IdsJoin
  <2> QED BY <2>2 DEF Prefix
<1>4. Main \in DOMAIN spec.docs
  BY SpecsAssumption DEF Main
<1>5. DOMAIN spec.docs[Main] = 1..Len(spec.docs[Main])
  BY <1>4, SpecsAssumption
<1>6. \A n : 1..n \subseteq Nat
  OBVIOUS
<1> QED BY <1>1, <1>3, <1>4, <1>5, <1>6, IdsJoin

LEMMA HasFacts ==
  ASSUME spec \in Specs, NEW d, NEW n, Has(d, n)
  PROVE  /\ d \in DOMAIN spec.docs /\ Schema(d, n) \in Schemas
         /\ \E i \in DOMAIN spec.docs[d] : spec.docs[d][i].name = n /\ spec.docs[d][i].schema = Schema(d, n)
<1>1. PICK i \in DOMAIN spec.docs[d] : d \in DOMAIN spec.docs /\ spec.docs[d][i].name = n
  BY DEF Has
<1>2. spec.docs[d][i] \in Range(spec.docs[d])
  BY DEF Range
<1> DEFINE c == CHOOSE x \in Range(spec.docs[d]) : x.name = n
<1>3. c \in Range(spec.docs[d]) /\ c.name = n
  BY <1>1, <1>2
<1>4. PICK j \in DOMAIN spec.docs[d] : spec.docs[d][j] = c
  BY <1>3 DEF Range
<1> QED BY <1>1, <1>3, <1>4, SpecFacts DEF Schema

LEMMA ChosenComponent ==
  ASSUME TInv, todo # {}
  PROVE  NextComponent \in todo
<1> DEFINE ready == {i \in todo : Parents(spec, i) \cap todo = {}}
<1>1. todo \subseteq Nat
  BY SpecFacts DEF TInv
<1>2. CASE todo \subseteq KeptBack(spec)
  BY <1>1, <1>2, MinIn DEF NextComponent
<1>3. CASE ~(todo \subseteq KeptBack(spec))
  <2>1. ready # {}
    <3> SUFFICES ASSUME \A i \in todo : Parents(spec, i) \cap todo # {} PROVE FALSE
      OBVIOUS
    <3>1. todo \in {c \in SUBSET DOMAIN spec.docs[Main] : \A i \in c : Parents(spec, i) \cap c # {}}
      BY DEF TInv
    <3> QED BY <1>3, <3>1 DEF KeptBack
  <2>2. ready \subseteq Nat /\ NextComponent = Min(ready)
    BY <1>1, <1>3 DEF NextComponent
  <2> HIDE DEF ready
  <2>3. Min(ready) \in ready
    BY <2>1, <2>2, MinIn
  <2> QED BY <2>2, <2>3 DEF ready
<1> QED BY <1>2, <1>3

LEMMA FrameIsOk ==
  ASSUME NEW kind, NEW id \in Ids, NEW schema, NEW key, kind \in Composites => schema \in Schemas
  PROVE  FrameOk(Frame(kind, id, schema, key))
BY DEF Frame, FrameOk

(* Pushing, popping and updating frames. *)
LEMMA StackRange ==
  ASSUME IInv
  PROVE  /\ \A f : Range(<<f>> \o stack) = {f} \union Range(stack)
         /\ stack # <<>> => /\ Head(stack) \in Range(stack) /\ Range(Tail(stack)) \subseteq Range(stack)
                            /\ \A f : Range(<<f>> \o Tail(stack)) = {f} \union Range(Tail(stack))
<1>1. stack \in Seq(Range(stack))
  BY DEF IInv, Consistent, WellFormed
<1>2. \A f : Range(<<f>> \o stack) = {f} \union Range(stack)
  BY <1>1, PushSeq
<1>3. ASSUME stack # <<>>
      PROVE  /\ Head(stack) \in Range(stack) /\ Range(Tail(stack)) \subseteq Range(stack)
             /\ \A f : Range(<<f>> \o Tail(stack)) = {f} \union Range(Tail(stack))
  <2>1. /\ Tail(stack) \in Seq(Range(Tail(stack))) /\ Head(stack) = stack[1]
        /\ Range(stack) = {stack[1]} \union Range(Tail(stack))
    BY <1>1, <1>3, PopSeq
  <2> QED BY <2>1, PushSeq
<1> QED BY <1>2, <1>3

LEMMA InitTInv == Init => TInv
<1> SUFFICES ASSUME Init PROVE TInv
  OBVIOUS
<1>1. spec \in Specs /\ todo = DOMAIN spec.docs[Main] /\ used = 0 /\ pc = "root" /\ stack = <<>>
  BY DEF Init
<1>2. PoolOk(types, counter)
  <2>1. DOMAIN types = {} /\ DOMAIN counter = {}
    BY DEF Init, NoDefs
  <2> QED BY <2>1, FS_EmptySet DEF PoolOk
<1>3. ASSUME NEW k \in DOMAIN dedup PROVE dedup[k] \in Ids
  <2> DEFINE main == spec.docs[Main]
             key(i) == <<main[i].schema.file, main[i].schema.target>>
             claimed == {i \in DOMAIN main : main[i].schema.kind = "ref" /\ main[i].schema.file \in DOMAIN spec.docs}
             these == {i \in claimed : key(i) = k}
  <2>1. k \in {key(i) : i \in claimed} /\ dedup[k] = main[Min(these)].name
    BY <1>3 DEF Init, Claims
  <2>2. these # {} /\ these \subseteq Nat
    BY <1>1, <2>1, SpecFacts
  <2>3. Min(these) \in DOMAIN main
    <3> HIDE DEF these
    <3>1. Min(these) \in these
      BY <2>2, MinIn
    <3> QED BY <3>1 DEF these
  <2> QED BY <1>1, <2>1, <2>3, SpecFacts
<1>4. Range(stack) = {}
  BY <1>1 DEF Range
<1> QED BY <1>1, <1>2, <1>3, <1>4 DEF TInv

LEMMA StepTInv ==
  ASSUME NumeralsDiffer, IInv, TInv, [Next]_vars
  PROVE  TInv'
<1> DEFINE h == Head(stack)
<1>0. /\ spec \in Specs /\ todo \subseteq DOMAIN spec.docs[Main] /\ used \in Nat
      /\ PoolOk(types, counter) /\ \A k \in DOMAIN dedup : dedup[k] \in Ids
      /\ pc = "parse" => arg.schema \in Schemas /\ arg.hint.base \in Ids
      /\ pc = "return" => ret \in Ids
      /\ \A f \in Range(stack) : FrameOk(f)
  BY DEF TInv
<1>h. ASSUME pc \in {"subs", "return"}
      PROVE  /\ stack # <<>> /\ FrameOk(h) /\ h \in Range(stack)
             /\ \A f \in Range(Tail(stack)) : FrameOk(f)
             /\ \A g : FrameOk(g) => \A f \in Range(<<g>> \o Tail(stack)) : FrameOk(f)
  <2>1. stack # <<>>
    BY <1>h DEF IInv
  <2> QED BY <1>0, <2>1, StackRange
<1>1. CASE WalkComponent
  <2> DEFINE c == spec.docs[Main][NextComponent]
             f == Frame("root", NoId, c.schema, <<Main, c.name>>)
  <2>1. NextComponent \in todo
    BY <1>1, ChosenComponent DEF WalkComponent
  <2>2. c.name \in Ids /\ c.schema \in Schemas
    BY <1>0, <2>1, SpecFacts
  <2>3. /\ spec' = spec /\ todo' \subseteq todo /\ used' = used /\ types' = types /\ counter' = counter
        /\ dedup' = dedup /\ pc' = "parse" /\ arg' = [schema |-> c.schema, hint |-> Named(c.name)]
        /\ stack' = <<f>>
    BY <1>1 DEF WalkComponent, Parse, pool
  <2>4. FrameOk(f)
    BY IdsJoin, FrameIsOk DEF NoId, Composites
  <2>5. \A g \in Range(stack') : FrameOk(g)
    BY <2>3, <2>4 DEF Range
  <2> QED BY <1>0, <2>2, <2>3, <2>5 DEF TInv, Named
<1>2. CASE WalkUse
  <2> DEFINE s == spec.uses[used + 1]
             f == Frame("root", NoId, s, NoKey)
  <2>1. s \in Schemas
    <3>1. used + 1 \in 1..Len(spec.uses)
      <4>1. used < Len(spec.uses) /\ Len(spec.uses) \in Nat
        BY <1>0, <1>2, SpecsAssumption DEF WalkUse
      <4> QED BY <1>0, <4>1
    <3>2. spec.uses \in Seq(Schemas)
      BY <1>0, SpecsAssumption
    <3> QED BY <3>1, <3>2
  <2>2. /\ spec' = spec /\ todo' = todo /\ used' \in Nat /\ types' = types /\ counter' = counter
        /\ dedup' = dedup /\ pc' = "parse"
        /\ arg' = [schema |-> s, hint |-> Inline(<<"op">>, <<"request", "body">>)]
        /\ stack' = <<f>>
    BY <1>0, <1>2 DEF WalkUse, Parse, pool, where
  <2>3. <<"op">> \o <<"request", "body">> \in Ids
    <3>1. <<"op">> \in Ids /\ <<"request", "body">> \in Ids
      BY IdsJoin DEF Words
    <3> QED BY <3>1, IdsJoin
  <2>4. FrameOk(f)
    BY IdsJoin, FrameIsOk DEF NoId, Composites
  <2>5. \A g \in Range(stack') : FrameOk(g)
    BY <2>2, <2>4 DEF Range
  <2> QED BY <1>0, <2>1, <2>2, <2>3, <2>5 DEF TInv, Inline
<1>3. CASE RootReturns
  <2>1. Range(stack') = {} /\ UNCHANGED <<spec, types, counter, dedup, todo, used>> /\ pc' = "root"
    BY <1>3 DEF RootReturns, pool, roots, Range
  <2> QED BY <1>0, <2>1 DEF TInv
<1>4. CASE ParseLeaf
  <2> DEFINE a == Alloc(arg.hint)
             l == Lifted(a, a.id, Def("leaf", arg.schema, NoDefs), arg.schema.nullable)
  <2>1. /\ UNCHANGED <<spec, dedup, todo, used, stack>> /\ pc' = "return" /\ ret' = a.id
        /\ types' = l.types /\ counter' = l.counter /\ arg.hint.base \in Ids
    BY <1>0, <1>4 DEF ParseLeaf, SetPool, Return, where, roots
  <2>2. a.id \in Ids /\ PoolOk(a.types, a.counter)
    BY <1>0, <2>1, AllocFacts
  <2> HIDE DEF a
  <2>3. PoolOk(l.types, l.counter)
    BY <2>2, LiftedFacts
  <2> QED BY <1>0, <2>1, <2>2, <2>3 DEF TInv
<1>5. CASE ParseNull
  <2> DEFINE a == Alloc(arg.hint)
             l == Lifted(a, a.id, Def("null", arg.schema, NoDefs), FALSE)
  <2>1. /\ UNCHANGED <<spec, dedup, todo, used, stack>> /\ pc' = "return" /\ arg.hint.base \in Ids
        /\ \/ ret' = a.id /\ types' = l.types /\ counter' = l.counter
           \/ ret' = NullId /\ types' = WithNull(types) /\ counter' = counter
    BY <1>0, <1>5 DEF ParseNull, SetPool, Return, where, roots
  <2>2. a.id \in Ids /\ PoolOk(a.types, a.counter)
    BY <1>0, <2>1, AllocFacts
  <2> HIDE DEF a
  <2>3. PoolOk(l.types, l.counter)
    BY <2>2, LiftedFacts
  <2>4. PoolOk(WithNull(types), counter) /\ NullId \in Ids
    BY <1>0, WithNullKeeps, IdsJoin DEF NullId, Words
  <2> QED BY <1>0, <2>1, <2>2, <2>3, <2>4 DEF TInv
<1>6. CASE ParseBad
  <2>1. /\ UNCHANGED <<spec, types, counter, dedup, todo, used, stack>> /\ pc' = "return" /\ ret' = NoId
    BY <1>6 DEF ParseBad, Reject, Return, where, roots, pool
  <2> QED BY <1>0, <2>1, IdsJoin DEF TInv, NoId
<1>7. CASE ParseComposite
  <2> DEFINE a == Alloc(arg.hint)
             f == Frame(arg.schema.kind, a.id, arg.schema, NoKey)
  <2>1. /\ UNCHANGED <<spec, dedup, todo, used>> /\ pc' = "subs" /\ stack' = <<f>> \o stack
        /\ types' = a.types /\ counter' = a.counter /\ arg.hint.base \in Ids /\ arg.schema \in Schemas
    BY <1>0, <1>7 DEF ParseComposite, SetPool, where, roots
  <2>2. a.id \in Ids /\ PoolOk(a.types, a.counter)
    BY <1>0, <2>1, AllocFacts
  <2>3. FrameOk(f)
    BY <2>1, <2>2, FrameIsOk
  <2> HIDE DEF f, a
  <2>4. \A g \in Range(stack') : FrameOk(g)
    BY <1>0, <2>1, <2>3, StackRange
  <2> QED BY <1>0, <2>1, <2>2, <2>4 DEF TInv
<1>8. CASE NextSub
  <2>1. /\ UNCHANGED <<spec, types, counter, dedup, todo, used, stack>> /\ pc' = "parse" /\ pc = "subs"
        /\ h.next <= Len(h.schema.subs)
        /\ arg' = [schema |-> h.schema.subs[h.next].schema, hint |-> Inline(h.id, h.schema.subs[h.next].role)]
    BY <1>8 DEF NextSub, Parse, where, roots, pool
  <2>2. h.schema \in Schemas /\ h.id \in Ids /\ h.next \in Nat \ {0}
    BY <2>1, <1>h DEF FrameOk, IInv
  <2> HIDE DEF h
  <2>3. h.next \in DOMAIN h.schema.subs
    <3>1. Len(h.schema.subs) \in Nat /\ DOMAIN h.schema.subs = 1..Len(h.schema.subs)
      BY <2>2, SchemasAssumption
    <3> QED BY <2>1, <2>2, <3>1
  <2>4. h.schema.subs[h.next].schema \in Schemas /\ h.schema.subs[h.next].role \in Seq(STRING)
    <3> DEFINE Sub == [role : Seq(STRING) \ {<<>>}, part : BOOLEAN, schema : Schemas]
               subs == h.schema.subs
    <3>1. subs \in Seq(Sub)
      BY <2>2, SchemasAssumption
    <3>2. \A x \in Sub : x.schema \in Schemas /\ x.role \in Seq(STRING)
      OBVIOUS
    <3> HIDE DEF Sub, subs
    <3>3. \A i \in DOMAIN subs : subs[i] \in Sub
      BY <3>1
    <3> QED BY <2>3, <3>2, <3>3 DEF subs
  <2>5. h.id \o h.schema.subs[h.next].role \in Ids
    BY <2>2, <2>4, IdsJoin
  <2> QED BY <1>0, <2>1, <2>4, <2>5 DEF TInv, Inline
<1>9. CASE SubReturns
  <2> DEFINE f == IF ret = NoId THEN Advanced(h)
                  ELSE [Advanced(h) EXCEPT !.props = Put(@, h.schema.subs[h.next].role, ret)]
  <2>1. /\ UNCHANGED <<spec, types, counter, dedup, todo, used>> /\ pc' = "subs" /\ pc = "return"
        /\ stack' = <<f>> \o Tail(stack)
    BY <1>9 DEF SubReturns, Replace, where, roots, pool
  <2>2. FrameOk(f)
    BY <2>1, <1>h DEF FrameOk, Advanced
  <2> QED BY <1>0, <2>1, <2>2, <1>h DEF TInv
<1>10. CASE PartReturns
  <2> DEFINE merged == [Advanced(h) EXCEPT
                   !.props = Over(types[ret].props, @),
                   !.got = TRUE,
                   !.parts = IF Synthetic(h.id, ret) THEN @ \union {ret} ELSE @]
  <2>1. /\ UNCHANGED <<spec, types, counter, dedup, todo, used>> /\ pc' = "subs" /\ pc = "return"
        /\ stack' = <<Advanced(h)>> \o Tail(stack) \/ stack' = <<merged>> \o Tail(stack)
    BY <1>10 DEF PartReturns, Replace, where, roots, pool
  <2>2. FrameOk(Advanced(h))
    BY <2>1, <1>h DEF FrameOk, Advanced
  <2>3. Synthetic(h.id, ret) => PartName(ret)
    BY DEF Synthetic, PartName
  <2>4. FrameOk(merged)
    BY <2>2, <2>3 DEF FrameOk, Advanced
  <2> HIDE DEF merged
  <2> QED BY <1>0, <2>1, <2>2, <2>4, <1>h DEF TInv
<1>11. CASE Close
  <2>1. /\ UNCHANGED <<spec, dedup, todo, used>> /\ pc' = "return" /\ pc = "subs"
        /\ stack' = Tail(stack) /\ ret' \in {NoId, h.id}
    BY <1>11 DEF Close, Return, where, roots
  <2>2. h.id \in Ids /\ NoId \in Ids /\ \A f \in Range(stack') : FrameOk(f)
    BY <2>1, <1>h, IdsJoin DEF FrameOk, NoId
  <2> DEFINE now == [types |-> types, counter |-> counter]
             kind == IF h.kind = "allof" THEN "object" ELSE h.kind
             s == Lifted(now, h.id, Def(kind, h.schema, h.props), h.schema.nullable)
  <2>3. CASE UNCHANGED pool
    BY <1>0, <2>1, <2>2, <2>3 DEF TInv, pool
  <2>4. CASE \E props, ts : /\ ts = WithNull(types) \/ ts = types
                            /\ types' = Put(ts, h.id, Def("union", h.schema, props)) /\ counter' = counter
    <3>1. PICK props, ts : /\ ts = WithNull(types) \/ ts = types
                           /\ types' = Put(ts, h.id, Def("union", h.schema, props)) /\ counter' = counter
      BY <2>4
    <3>2. PoolOk(ts, counter)
      BY <1>0, <3>1, WithNullKeeps
    <3>3. PoolOk(types', counter')
      BY <3>1, <3>2, PoolOver
    <3> QED BY <1>0, <2>1, <2>2, <3>3 DEF TInv
  <2>5. CASE types' = Without(s.types, h.parts) /\ counter' = s.counter
    <3>1. now.types = types /\ now.counter = counter
      OBVIOUS
    <3> HIDE DEF now
    <3>2. PoolOk(s.types, s.counter)
      BY <1>0, <2>2, <3>1, LiftedFacts
    <3> HIDE DEF s
    <3>3. IsFiniteSet(DOMAIN types')
      <4>1. DOMAIN types' \subseteq DOMAIN s.types
        BY <2>5 DEF Without
      <4> QED BY <3>2, <4>1, FS_Subset DEF PoolOk
    <3>4. PoolOk(types', counter')
      BY <2>5, <3>2, <3>3 DEF PoolOk
    <3> QED BY <1>0, <2>1, <2>2, <3>4 DEF TInv
  <2> QED BY <1>11, <2>3, <2>4, <2>5 DEF Close, SetPool
<1>12. ASSUME NEW d, NEW n \in Seq(STRING), WalkAt(d, n), pc = "parse", d \in DOMAIN spec.docs,
              UNCHANGED <<spec, types, counter, dedup, todo, used>>
       PROVE  TInv'
  <2> DEFINE id == TargetId(d, n, arg.hint)
             f == Frame("ref", id, arg.schema, <<d, n>>)
  <2>1. id \in Ids
    <3>1. Prefix(d) \o n \in Ids
      BY <1>0, <1>12, SpecFacts, IdsJoin
    <3> QED BY <1>0, <1>12, <3>1 DEF TargetId
  <2>2. FrameOk(f)
    BY <2>1, FrameIsOk DEF Composites
  <2> HIDE DEF f, id
  <2>3. CASE pc' = "return" /\ ret' \in {id, NoId} /\ stack' = stack
    BY <1>0, <1>12, <2>1, <2>3, IdsJoin DEF TInv, NoId
  <2>4. CASE /\ Has(d, n) /\ stack' = <<f>> \o stack /\ pc' = "parse"
             /\ arg' = [schema |-> Schema(d, n), hint |-> Named(id)]
    <3>1. \A g \in Range(stack') : FrameOk(g)
      BY <1>0, <2>2, <2>4, StackRange
    <3>2. Schema(d, n) \in Schemas
      BY <1>0, <2>4, HasFacts
    <3> QED BY <1>0, <1>12, <2>1, <2>4, <3>1, <3>2 DEF TInv, Named
  <2> QED BY <1>12, <2>3, <2>4 DEF WalkAt, Return, Reject, Parse, f, id
<1>13. CASE ParseLocalRef
  <2>1. /\ UNCHANGED <<spec, types, counter, dedup, todo, used>> /\ pc = "parse"
        /\ arg.schema.target \in Seq(STRING)
    BY <1>0, <1>13, SchemasAssumption DEF ParseLocalRef, pool, roots
  <2>2. CASE pc' = "return" /\ ret' \in {arg.schema.target, NoId} /\ stack' = stack
    BY <1>0, <2>1, <2>2, IdsJoin DEF TInv, NoId
  <2>3. CASE WalkAt(current, arg.schema.target) /\ Has(current, arg.schema.target)
    BY <1>12, <2>1, <2>3 DEF Has
  <2> QED BY <1>13, <2>2, <2>3 DEF ParseLocalRef, Return, Reject
<1>14. CASE ParseExternalRef
  <2>1. /\ UNCHANGED <<spec, types, counter, dedup, todo, used>> /\ pc = "parse"
        /\ arg.schema.target \in Seq(STRING)
    BY <1>0, <1>14, SchemasAssumption DEF ParseExternalRef, pool, roots
  <2>2. CASE pc' = "return" /\ ret' = NoId /\ stack' = stack
    BY <1>0, <2>1, <2>2, IdsJoin DEF TInv, NoId
  <2>3. CASE WalkAt(arg.schema.file, arg.schema.target) /\ arg.schema.file \in DOMAIN spec.docs
    BY <1>12, <2>1, <2>3
  <2> QED BY <1>14, <2>2, <2>3 DEF ParseExternalRef, Return, Reject
<1>15. CASE RefReturns
  <2>1. /\ UNCHANGED <<spec, types, counter, todo, used>> /\ pc' = "return" /\ pc = "return"
        /\ stack' = Tail(stack)
        /\ \/ dedup' = Put(dedup, h.key, ret) /\ ret' = ret
           \/ dedup' = dedup /\ ret' = h.id
    BY <1>15 DEF RefReturns, roots, pool
  <2>2. ret \in Ids /\ h.id \in Ids /\ \A f \in Range(stack') : FrameOk(f)
    BY <1>0, <2>1, <1>h DEF FrameOk
  <2>3. \A k \in DOMAIN dedup' : dedup'[k] \in Ids
    BY <1>0, <2>1, <2>2 DEF Put
  <2> QED BY <1>0, <2>1, <2>2, <2>3 DEF TInv
<1>16. CASE Finish \/ UNCHANGED vars
  <2>1. /\ UNCHANGED <<spec, types, counter, dedup, todo, used, stack, arg, ret>>
        /\ pc' = pc \/ pc' = "done"
    BY <1>16 DEF Finish, vars, pool, where, roots
  <2> QED BY <1>0, <2>1 DEF TInv
<1> QED
  BY <1>1, <1>2, <1>3, <1>4, <1>5, <1>6, <1>7, <1>8, <1>9, <1>10, <1>11, <1>13, <1>14, <1>15, <1>16 DEF Next

-----------------------------------------------------------------------------
(* A component of the main document, from the call that walks it on. *)

Relevant(c) == c.schema.kind \in {"leaf", "object"} /\ c.name # NullId /\ ~PartName(c.name)
Served(c) == c.name \in DOMAIN types /\ types[c.name].schema = c.schema

(* The outermost call but one. *)
Second(s) == s[Len(s) - 1]

(* Its own call is in progress: of the leaf, or of the object.              *)
Hand(c) == stack # <<>> /\ stack[Len(stack)].key = <<Main, c.name>>
InHand(c) ==
  /\ Len(stack) = 1 /\ pc = "parse" => arg.schema = c.schema /\ arg.hint = Named(c.name)
  /\ Len(stack) = 1 /\ pc = "return" => Served(c)
  /\ Len(stack) # 1 => /\ Second(stack).kind = "object" /\ Second(stack).id = c.name
                       /\ Second(stack).schema = c.schema

(* It is over, and no call in progress is going to write under its name.    *)
Unclaimed(n) ==
  /\ pc = "parse" /\ arg.hint.named => arg.hint.base # n
  /\ \A f \in Range(stack) : f.kind \in Composites => f.id # n
Safe(c) == Served(c) /\ Unclaimed(c.name)

Cared(c) == Relevant(c) => IF Hand(c) THEN InHand(c) ELSE Safe(c)
SInv == \A i \in DOMAIN spec.docs[Main] \ todo : Cared(spec.docs[Main][i])
DoneInv == pc = "done" => todo = {}

LEMMA PushEnds ==
  ASSUME NEW s, s \in Seq(Range(s)), s # <<>>, NEW f
  PROVE  LET t == <<f>> \o s IN
         /\ t # <<>> /\ Len(t) # 1 /\ t[Len(t)] = s[Len(s)]
         /\ Second(t) = IF Len(s) = 1 THEN f ELSE Second(s)
<1> DEFINE t == <<f>> \o s
<1>1. /\ Len(s) \in Nat /\ DOMAIN s = 1..Len(s) /\ Len(t) = Len(s) + 1 /\ t # <<>>
      /\ t[1] = f /\ \A i \in DOMAIN s : t[i + 1] = s[i]
  BY PushSeq
<1>2. Len(s) # 0
  OBVIOUS
<1> HIDE DEF t
<1>3. t[Len(s) + 1] = s[Len(s)]
  <2>1. Len(s) \in DOMAIN s
    BY <1>1, <1>2
  <2> QED BY <1>1, <2>1
<1>4. CASE Len(s) = 1
  BY <1>1, <1>2, <1>3, <1>4 DEF Second, t
<1>5. CASE Len(s) # 1
  <2>1. Len(s) - 1 \in DOMAIN s /\ (Len(s) - 1) + 1 = Len(s) /\ Len(t) - 1 = Len(s)
    BY <1>1, <1>2, <1>5
  <2>2. t[Len(s)] = s[Len(s) - 1]
    BY <1>1, <2>1
  <2> QED BY <1>1, <1>2, <1>3, <1>5, <2>1, <2>2 DEF Second, t
<1> QED BY <1>4, <1>5

LEMMA PopEnds ==
  ASSUME NEW s, s \in Seq(Range(s)), s # <<>>, Len(s) # 1
  PROVE  LET t == Tail(s) IN
         /\ t # <<>> /\ t \in Seq(Range(t)) /\ t[Len(t)] = s[Len(s)]
         /\ IF Len(t) = 1 THEN Second(s) = Head(s) ELSE Second(t) = Second(s)
<1> DEFINE t == Tail(s)
<1>1. /\ Len(s) \in Nat \ {0} /\ DOMAIN s = 1..Len(s) /\ Head(s) = s[1] /\ t \in Seq(Range(t))
      /\ Len(t) = Len(s) - 1 /\ DOMAIN t = 1..(Len(s) - 1) /\ \A i \in DOMAIN t : t[i] = s[i + 1]
  BY PopSeq
<1> HIDE DEF t
<1>2. Len(t) \in DOMAIN t /\ Len(t) + 1 = Len(s)
  BY <1>1
<1>3. t[Len(t)] = s[Len(s)]
  BY <1>1, <1>2
<1>4. t # <<>>
  BY <1>1, <1>2
<1>5. CASE Len(t) = 1
  BY <1>1, <1>2, <1>3, <1>4, <1>5 DEF Second, t
<1>6. CASE Len(t) # 1
  <2>1. Len(t) - 1 \in DOMAIN t /\ (Len(t) - 1) + 1 = Len(s) - 1
    BY <1>1, <1>2, <1>6
  <2>2. t[Len(t) - 1] = s[Len(s) - 1]
    BY <1>1, <2>1
  <2> QED BY <1>1, <1>3, <1>4, <1>6, <2>2 DEF Second, t
<1> QED BY <1>5, <1>6

LEMMA ReplaceEnds ==
  ASSUME NEW s, s \in Seq(Range(s)), s # <<>>, Len(s) # 1, NEW f
  PROVE  LET t == <<f>> \o Tail(s) IN
         /\ t # <<>> /\ Len(t) # 1 /\ t[Len(t)] = s[Len(s)]
         /\ \/ Second(t) = Second(s)
            \/ Second(t) = f /\ Second(s) = Head(s)
<1>1. /\ Tail(s) # <<>> /\ Tail(s) \in Seq(Range(Tail(s))) /\ Tail(s)[Len(Tail(s))] = s[Len(s)]
      /\ IF Len(Tail(s)) = 1 THEN Second(s) = Head(s) ELSE Second(Tail(s)) = Second(s)
  BY PopEnds
<1> DEFINE t == <<f>> \o Tail(s)
<1>2. /\ t # <<>> /\ Len(t) # 1 /\ t[Len(t)] = Tail(s)[Len(Tail(s))]
      /\ Second(t) = IF Len(Tail(s)) = 1 THEN f ELSE Second(Tail(s))
  BY <1>1, PushEnds
<1> HIDE DEF t
<1>3. CASE Len(Tail(s)) = 1
  BY <1>1, <1>2, <1>3, Zenon DEF t
<1>4. CASE Len(Tail(s)) # 1
  BY <1>1, <1>2, <1>4, Zenon DEF t
<1> QED BY <1>3, <1>4

(* What the innermost call is. *)
LEMMA Innermost ==
  ASSUME IInv, stack # <<>>
  PROVE  /\ stack \in Seq(Range(stack))
         /\ Head(stack).kind = "root" <=> Len(stack) = 1
         /\ Head(stack) \in Range(stack)
<1>1. stack \in Seq(Range(stack)) /\ Consistent(stack, current, walking)
  BY DEF IInv, Consistent, WellFormed
<1>2. Head(stack) \in Range(stack)
  BY StackRange
<1>3. Head(stack).kind = "root" <=> Len(stack) = 1
  BY <1>1, RootLast
<1> QED BY <1>1, <1>2, <1>3

LEMMA ServedOn ==
  ASSUME NEW c, Served(c), NEW ids, Keeps(types, types', ids), c.name \notin ids
  PROVE  Served(c)'
BY DEF Served, Keeps

(* What is safe stays so, as long as its own name is not walked again.      *)
LEMMA SafeStep ==
  ASSUME NumeralsDiffer, IInv, TInv, Next, NEW c, Relevant(c), Safe(c),
         WalkComponent => spec.docs[Main][NextComponent].name # c.name
  PROVE  Safe(c)'
<1> DEFINE n == c.name
           h == Head(stack)
<1>0. /\ c.name \in DOMAIN types /\ Served(c)
      /\ pc = "parse" /\ arg.hint.named => arg.hint.base # n
      /\ \A f \in Range(stack) : f.kind \in Composites => f.id # n
      /\ n # NullId /\ ~PartName(n)
  BY DEF Safe, Served, Unclaimed, Relevant
<1>t. /\ PoolOk(types, counter)
      /\ pc = "parse" => arg.schema \in Schemas /\ arg.hint.base \in Ids
      /\ \A f \in Range(stack) : FrameOk(f)
  BY DEF TInv
<1>a. ASSUME types' = types, \A f \in Range(stack') : f.kind \in Composites => f.id # n,
             pc' = "parse" /\ arg'.hint.named => arg'.hint.base # n
      PROVE  Safe(c)'
  BY <1>0, <1>a DEF Safe, Served, Unclaimed
<1>b. ASSUME NEW ids, Keeps(types, types', ids), n \notin ids, pc' # "parse",
             \A f \in Range(stack') : f.kind \in Composites => f.id # n
      PROVE  Safe(c)'
  <2>1. Served(c)'
    BY <1>0, <1>b, ServedOn
  <2> QED BY <1>b, <2>1 DEF Safe, Unclaimed
<1>c. ASSUME pc \in {"subs", "return"}
      PROVE  /\ stack # <<>> /\ FrameOk(h) /\ h \in Range(stack)
             /\ \A f \in Range(Tail(stack)) : f.kind \in Composites => f.id # n
             /\ \A g : (g.kind \in Composites => g.id # n)
                  => \A f \in Range(<<g>> \o Tail(stack)) : f.kind \in Composites => f.id # n
  <2>1. stack # <<>>
    BY <1>c DEF IInv
  <2> QED BY <1>0, <1>t, <2>1, StackRange
<1>1. CASE WalkComponent
  <2> DEFINE e == spec.docs[Main][NextComponent]
             f == Frame("root", NoId, e.schema, <<Main, e.name>>)
  <2>1. /\ types' = types /\ arg' = [schema |-> e.schema, hint |-> Named(e.name)] /\ stack' = <<f>>
    BY <1>1 DEF WalkComponent, Parse, pool
  <2>2. \A g \in Range(stack') : g.kind \notin Composites
    BY <2>1 DEF Range, Frame, Composites
  <2>3. e.name # n
    BY <1>1
  <2> QED BY <2>1, <2>2, <2>3, <1>a DEF Named
<1>2. CASE WalkUse
  <2>1. /\ types' = types /\ ~arg'.hint.named
        /\ stack' = <<Frame("root", NoId, spec.uses[used + 1], NoKey)>>
    BY <1>2 DEF WalkUse, Parse, pool, Inline
  <2>2. \A g \in Range(stack') : g.kind \notin Composites
    BY <2>1 DEF Range, Frame, Composites
  <2> QED BY <2>1, <2>2, <1>a
<1>3. CASE RootReturns
  <2>1. types' = types /\ Range(stack') = {} /\ pc' = "root"
    BY <1>3 DEF RootReturns, pool, Range
  <2> QED BY <2>1, <1>a
<1>4. ASSUME NEW id, pc = "parse", id = Alloc(arg.hint).id
      PROVE  /\ id \in Ids /\ id # n /\ PoolOk(Alloc(arg.hint).types, Alloc(arg.hint).counter)
             /\ Keeps(types, Alloc(arg.hint).types, {})
  <2>1. arg.hint.base \in Ids
    BY <1>t, <1>4
  <2>2. LET a == Alloc(arg.hint) IN
         /\ a.id \in Ids
         /\ PoolOk(a.types, a.counter)
         /\ Keeps(types, a.types, {})
         /\ IF arg.hint.named /\ arg.hint.base # NullId
            THEN a.id = arg.hint.base ELSE a.id \notin DOMAIN types
    BY <1>t, <2>1, AllocFacts
  <2> QED BY <1>0, <1>4, <2>2
<1>5. ASSUME NEW id \in Ids, NEW s, PoolOk(s.types, s.counter), Keeps(types, s.types, {}), id # n,
             NEW kind, NEW schema, NEW props, NEW nullable
      PROVE  LET l == Lifted(s, id, Def(kind, schema, props), nullable) IN Keeps(types, l.types, {id})
  <2> DEFINE l == Lifted(s, id, Def(kind, schema, props), nullable)
  <2>1. Keeps(s.types, l.types, {id})
    BY <1>5, LiftedFacts
  <2> HIDE DEF l
  <2>2. Keeps(types, l.types, {id})
    BY <1>5, <2>1 DEF Keeps
  <2> QED BY <2>2 DEF l
<1>6. CASE ParseLeaf
  <2> DEFINE a == Alloc(arg.hint)
             l == Lifted(a, a.id, Def("leaf", arg.schema, NoDefs), arg.schema.nullable)
  <2>1. types' = l.types /\ stack' = stack /\ pc' = "return" /\ pc = "parse"
    BY <1>6 DEF ParseLeaf, SetPool, Return
  <2>2. a.id \in Ids /\ a.id # n /\ PoolOk(a.types, a.counter) /\ Keeps(types, a.types, {})
    BY <2>1, <1>4
  <2> HIDE DEF a
  <2>3. Keeps(types, l.types, {a.id})
    BY <2>2, <1>5
  <2> HIDE DEF l
  <2> QED BY <1>0, <2>1, <2>2, <2>3, <1>b
<1>7. CASE ParseNull
  <2> DEFINE a == Alloc(arg.hint)
             l == Lifted(a, a.id, Def("null", arg.schema, NoDefs), FALSE)
  <2>1. /\ types' = l.types \/ types' = WithNull(types)
        /\ stack' = stack /\ pc' = "return" /\ pc = "parse"
    BY <1>7 DEF ParseNull, SetPool, Return
  <2>2. a.id \in Ids /\ a.id # n /\ PoolOk(a.types, a.counter) /\ Keeps(types, a.types, {})
    BY <2>1, <1>4
  <2> HIDE DEF a
  <2>3. Keeps(types, l.types, {a.id})
    BY <2>2, <1>5
  <2>4. Keeps(types, WithNull(types), {})
    BY <1>t, WithNullKeeps
  <2> HIDE DEF l
  <2>5. CASE types' = l.types
    BY <1>0, <2>1, <2>2, <2>3, <2>5, <1>b
  <2>6. CASE types' = WithNull(types)
    BY <1>0, <2>1, <2>4, <2>6, <1>b
  <2> QED BY <2>1, <2>5, <2>6
<1>8. CASE ParseBad
  BY <1>0, <1>8, <1>a DEF ParseBad, Reject, Return, pool
<1>9. CASE ParseComposite
  <2> DEFINE a == Alloc(arg.hint)
             f == Frame(arg.schema.kind, a.id, arg.schema, NoKey)
  <2>1. types' = a.types /\ stack' = <<f>> \o stack /\ pc' = "subs" /\ pc = "parse"
    BY <1>9 DEF ParseComposite, SetPool
  <2>2. a.id # n /\ Keeps(types, a.types, {})
    BY <2>1, <1>4
  <2>3. f.id = a.id
    BY DEF Frame
  <2> HIDE DEF a, f
  <2>4. \A g \in Range(stack') : g.kind \in Composites => g.id # n
    BY <1>0, <2>1, <2>2, <2>3, StackRange
  <2> QED BY <2>1, <2>2, <2>4, <1>b
<1>10. CASE NextSub
  BY <1>0, <1>10, <1>a DEF NextSub, Parse, Inline, pool
<1>11. CASE SubReturns
  <2> DEFINE f == IF ret = NoId THEN Advanced(h)
                  ELSE [Advanced(h) EXCEPT !.props = Put(@, h.schema.subs[h.next].role, ret)]
  <2>1. /\ types' = types /\ pc' = "subs" /\ pc = "return" /\ stack' = <<f>> \o Tail(stack)
        /\ h.kind \in Composites
    BY <1>11 DEF SubReturns, Replace, pool
  <2>2. f.id = h.id
    BY <2>1, <1>c DEF FrameOk, Advanced
  <2> HIDE DEF f
  <2>3. f.id # n
    BY <1>0, <1>c, <2>1, <2>2
  <2> QED BY <2>1, <2>3, <1>c, <1>a
<1>12. CASE PartReturns
  <2> DEFINE merged == [Advanced(h) EXCEPT
                   !.props = Over(types[ret].props, @),
                   !.got = TRUE,
                   !.parts = IF Synthetic(h.id, ret) THEN @ \union {ret} ELSE @]
  <2>1. /\ types' = types /\ pc' = "subs" /\ pc = "return" /\ h.kind \in Composites
        /\ stack' = <<Advanced(h)>> \o Tail(stack) \/ stack' = <<merged>> \o Tail(stack)
    BY <1>12 DEF PartReturns, Replace, pool, Composites
  <2>2. merged.id = h.id /\ Advanced(h).id = h.id
    BY <2>1, <1>c DEF FrameOk, Advanced
  <2> HIDE DEF merged
  <2>3. h.id # n
    BY <1>0, <1>c, <2>1
  <2>4. \A g \in Range(stack') : g.kind \in Composites => g.id # n
    <3>1. pc \in {"subs", "return"}
      BY <2>1
    <3>2. CASE stack' = <<merged>> \o Tail(stack)
      BY <1>c, <2>2, <2>3, <3>1, <3>2
    <3>3. CASE stack' = <<Advanced(h)>> \o Tail(stack)
      BY <1>c, <2>2, <2>3, <3>1, <3>3
    <3> QED BY <2>1, <3>2, <3>3
  <2> QED BY <2>1, <2>4, <1>a
<1>13. CASE Close
  <2>1. pc' = "return" /\ pc = "subs" /\ stack' = Tail(stack)
    BY <1>13 DEF Close, Return
  <2>2. h.id \in Ids /\ h.id # n /\ \A x \in h.parts : PartName(x)
    BY <1>0, <1>c, <2>1 DEF FrameOk, IInv
  <2>3. \A f \in Range(stack') : f.kind \in Composites => f.id # n
    BY <2>1, <1>c
  <2> DEFINE now == [types |-> types, counter |-> counter]
             kind == IF h.kind = "allof" THEN "object" ELSE h.kind
             s == Lifted(now, h.id, Def(kind, h.schema, h.props), h.schema.nullable)
  <2>4. CASE UNCHANGED pool
    BY <2>1, <2>3, <2>4, <1>a DEF pool
  <2>5. CASE \E props, ts : /\ ts = WithNull(types) \/ ts = types
                            /\ types' = Put(ts, h.id, Def("union", h.schema, props))
    <3>1. PICK props, ts : /\ ts = WithNull(types) \/ ts = types
                           /\ types' = Put(ts, h.id, Def("union", h.schema, props))
      BY <2>5
    <3>2. PoolOk(ts, counter) /\ Keeps(types, ts, {})
      <4>1. Keeps(types, types, {})
        BY DEF Keeps
      <4> QED BY <1>t, <3>1, <4>1, WithNullKeeps
    <3>3. Keeps(ts, types', {h.id})
      BY <3>1, <3>2, PoolOver
    <3>4. Keeps(types, types', {h.id})
      BY <3>2, <3>3 DEF Keeps
    <3> QED BY <2>1, <2>2, <2>3, <3>4, <1>b
  <2>6. CASE types' = Without(s.types, h.parts)
    <3>1. now.types = types /\ PoolOk(now.types, now.counter) /\ Keeps(types, now.types, {})
      BY <1>t DEF Keeps
    <3> HIDE DEF now
    <3>2. Keeps(types, s.types, {h.id})
      BY <2>2, <3>1, <1>5
    <3> HIDE DEF s
    <3>3. Keeps(types, types', {h.id} \union h.parts)
      BY <2>6, <3>2 DEF Keeps, Without
    <3>4. n \notin {h.id} \union h.parts
      BY <1>0, <2>2
    <3> QED BY <2>1, <2>3, <3>3, <3>4, <1>b
  <2> QED BY <1>13, <2>4, <2>5, <2>6 DEF Close, SetPool
<1>14. ASSUME NEW d, NEW m, WalkAt(d, m), pc = "parse", types' = types PROVE Safe(c)'
  <2> DEFINE id == TargetId(d, m, arg.hint)
             f == Frame("ref", id, arg.schema, <<d, m>>)
  <2>1. CASE pc' = "return" /\ stack' = stack
    BY <1>0, <1>14, <2>1, <1>a
  <2>2. CASE stack' = <<f>> \o stack /\ id \notin DOMAIN types /\ arg'.hint = Named(id)
    <3>1. f.kind \notin Composites
      BY DEF Frame, Composites
    <3> HIDE DEF f
    <3>2. \A g \in Range(stack') : g.kind \in Composites => g.id # n
      BY <1>0, <2>2, <3>1, StackRange
    <3>3. id # n
      BY <1>0, <2>2
    <3> HIDE DEF id
    <3> QED BY <1>14, <2>2, <3>2, <3>3, <1>a DEF Named
  <2> QED BY <1>14, <2>1, <2>2 DEF WalkAt, Known, Return, Reject, Parse
<1>15. CASE ParseLocalRef
  <2>1. types' = types /\ pc = "parse"
    BY <1>15 DEF ParseLocalRef, pool
  <2>2. CASE pc' = "return" /\ stack' = stack
    BY <1>0, <2>1, <2>2, <1>a
  <2>3. CASE WalkAt(current, arg.schema.target)
    BY <2>1, <2>3, <1>14
  <2> QED BY <1>15, <2>2, <2>3 DEF ParseLocalRef, Return, Reject
<1>16. CASE ParseExternalRef
  <2>1. types' = types /\ pc = "parse"
    BY <1>16 DEF ParseExternalRef, pool
  <2>2. CASE pc' = "return" /\ stack' = stack
    BY <1>0, <2>1, <2>2, <1>a
  <2>3. CASE WalkAt(arg.schema.file, arg.schema.target)
    BY <2>1, <2>3, <1>14
  <2> QED BY <1>16, <2>2, <2>3 DEF ParseExternalRef, Return, Reject
<1>17. CASE RefReturns
  <2>1. types' = types /\ pc' = pc /\ pc = "return" /\ stack' = Tail(stack)
    BY <1>17 DEF RefReturns, pool
  <2> QED BY <2>1, <1>a, <1>c
<1>18. CASE Finish
  BY <1>0, <1>18, <1>a DEF Finish, pool
<1> QED
  BY <1>1, <1>2, <1>3, <1>6, <1>7, <1>8, <1>9, <1>10, <1>11, <1>12, <1>13, <1>15, <1>16, <1>17, <1>18 DEF Next

(* The stack keeps its outermost calls, but for the one that is replaced.   *)
LEMMA HandGoesOn ==
  ASSUME NEW c, Hand(c), InHand(c), Len(stack) # 1,
         stack' # <<>>, stack'[Len(stack')] = stack[Len(stack)], Len(stack') # 1,
         \/ Second(stack') = Second(stack)
         \/ /\ Second(stack').kind = Second(stack).kind /\ Second(stack').id = Second(stack).id
            /\ Second(stack').schema = Second(stack).schema
  PROVE  Hand(c)' /\ InHand(c)'
BY DEF Hand, InHand, Second

LEMMA Pushed ==
  ASSUME NEW c, Hand(c), InHand(c), IInv, Len(stack) # 1, NEW f, stack' = <<f>> \o stack
  PROVE  Hand(c)' /\ InHand(c)'
<1>1. stack \in Seq(Range(stack)) /\ stack # <<>>
  BY Innermost DEF Hand
<1>2. /\ stack' # <<>> /\ Len(stack') # 1 /\ stack'[Len(stack')] = stack[Len(stack)]
      /\ Second(stack') = Second(stack)
  BY <1>1, PushEnds
<1> QED BY <1>2, HandGoesOn

LEMMA Replaced ==
  ASSUME NEW c, Hand(c), InHand(c), IInv, Head(stack).kind # "root",
         NEW f, f.kind = Head(stack).kind, f.id = Head(stack).id, f.schema = Head(stack).schema,
         stack' = <<f>> \o Tail(stack)
  PROVE  Hand(c)' /\ InHand(c)'
<1>1. stack \in Seq(Range(stack)) /\ stack # <<>> /\ Len(stack) # 1
  BY Innermost DEF Hand
<1>2. /\ stack' # <<>> /\ Len(stack') # 1 /\ stack'[Len(stack')] = stack[Len(stack)]
      /\ \/ Second(stack') = Second(stack)
         \/ Second(stack') = f /\ Second(stack) = Head(stack)
  BY <1>1, ReplaceEnds
<1> QED BY <1>1, <1>2, HandGoesOn

(* Where a call in hand returns, either it is another one ...               *)
LEMMA Popped ==
  ASSUME NEW c, Hand(c), InHand(c), IInv, Len(stack) # 1, stack' = Tail(stack), pc' = "return",
         Second(stack) = Head(stack) => Served(c)'
  PROVE  Hand(c)' /\ InHand(c)'
<1>1. stack \in Seq(Range(stack)) /\ stack # <<>>
  BY Innermost DEF Hand
<1>2. /\ stack' # <<>> /\ stack'[Len(stack')] = stack[Len(stack)]
      /\ IF Len(stack') = 1 THEN Second(stack) = Head(stack) ELSE Second(stack') = Second(stack)
  BY <1>1, PopEnds
<1>3. CASE Len(stack') = 1
  BY <1>2, <1>3 DEF Hand, InHand
<1>4. CASE Len(stack') # 1
  BY <1>2, <1>4, HandGoesOn
<1> QED BY <1>3, <1>4

LEMMA HandStep ==
  ASSUME NumeralsDiffer, IInv, TInv, Next, NEW c, Relevant(c), Hand(c), InHand(c)
  PROVE  IF Hand(c)' THEN InHand(c)' ELSE Safe(c)'
<1> DEFINE h == Head(stack)
           Goal == IF Hand(c)' THEN InHand(c)' ELSE Safe(c)'
           n == c.name
<1>0. /\ stack # <<>> /\ stack \in Seq(Range(stack))
      /\ h.kind = "root" <=> Len(stack) = 1
      /\ PoolOk(types, counter)
      /\ pc = "parse" => arg.schema \in Schemas /\ arg.hint.base \in Ids
      /\ FrameOk(h)
      /\ c.schema.kind \in {"leaf", "object"} /\ n # NullId /\ ~PartName(n)
  BY Innermost DEF Hand, TInv, Relevant
<1>r. pc # "root" /\ pc # "done" /\ (pc = "subs" => h.kind \in Composites)
  BY <1>0 DEF IInv
(* As long as it is only the component itself, its schema is being parsed. *)
<1>p. ASSUME pc = "parse", arg.schema.kind \notin {"leaf", "object"} PROVE Len(stack) # 1
  BY <1>0, <1>p DEF InHand
<1>s. ASSUME stack' = stack, Len(stack) # 1 PROVE Goal
  <2>1. Hand(c)' /\ InHand(c)'
    BY <1>0, <1>s, HandGoesOn
  <2> QED BY <2>1
<1>1. CASE WalkComponent \/ WalkUse \/ Finish
  BY <1>1, <1>r DEF WalkComponent, WalkUse, Finish
<1>2. CASE RootReturns
  <2>1. /\ pc = "return" /\ h.kind = "root" /\ stack' = <<>> /\ pc' = "root" /\ types' = types
    BY <1>2 DEF RootReturns, pool
  <2>2. Served(c)
    BY <1>0, <2>1 DEF InHand
  <2>3. Range(stack') = {}
    BY <2>1 DEF Range
  <2>4. Safe(c)'
    BY <2>1, <2>2, <2>3 DEF Safe, Served, Unclaimed
  <2>5. ~Hand(c)'
    BY <2>1 DEF Hand
  <2> QED BY <2>4, <2>5
<1>3. CASE ParseLeaf
  <2> DEFINE a == Alloc(arg.hint)
             l == Lifted(a, a.id, Def("leaf", arg.schema, NoDefs), arg.schema.nullable)
  <2>1. types' = l.types /\ stack' = stack /\ pc' = "return" /\ pc = "parse"
    BY <1>3 DEF ParseLeaf, SetPool, Return
  <2>2. CASE Len(stack) # 1
    BY <1>s, <2>1, <2>2
  <2>3. CASE Len(stack) = 1
    <3>1. arg.schema = c.schema /\ arg.hint = Named(n)
      BY <2>1, <2>3 DEF InHand
    <3>2. a.id \in Ids /\ a.id = n /\ PoolOk(a.types, a.counter)
      <4>1. arg.hint.base \in Ids /\ arg.hint.named /\ arg.hint.base = n
        BY <1>0, <2>1, <3>1 DEF Named
      <4>2. LET b == Alloc(arg.hint) IN
             /\ b.id \in Ids
             /\ PoolOk(b.types, b.counter)
             /\ Keeps(types, b.types, {})
             /\ IF arg.hint.named /\ arg.hint.base # NullId
                THEN b.id = arg.hint.base ELSE b.id \notin DOMAIN types
        BY <1>0, <4>1, AllocFacts
      <4> QED BY <1>0, <4>1, <4>2
    <3> HIDE DEF a
    <3>3. MadeFrom(l.types, a.id, arg.schema)
      BY <3>2, LiftedFacts
    <3> HIDE DEF l
    <3>4. Served(c)'
      BY <2>1, <3>1, <3>2, <3>3 DEF Served, MadeFrom
    <3>5. Hand(c)' /\ InHand(c)'
      BY <2>1, <2>3, <3>4 DEF Hand, InHand
    <3> QED BY <3>5
  <2> QED BY <2>2, <2>3
<1>4. CASE ParseNull \/ ParseBad
  <2>1. stack' = stack /\ pc = "parse" /\ arg.schema.kind \notin {"leaf", "object"}
    BY <1>4 DEF ParseNull, ParseBad
  <2> QED BY <1>p, <1>s, <2>1
<1>5. CASE ParseComposite
  <2> DEFINE a == Alloc(arg.hint)
             f == Frame(arg.schema.kind, a.id, arg.schema, NoKey)
  <2>1. stack' = <<f>> \o stack /\ pc' = "subs" /\ pc = "parse" /\ arg.schema.kind \in Composites
    BY <1>5 DEF ParseComposite
  <2>2. CASE Len(stack) # 1
    <3>1. Hand(c)' /\ InHand(c)'
      BY <2>1, <2>2, Pushed
    <3> QED BY <3>1
  <2>3. CASE Len(stack) = 1
    <3>1. arg.schema = c.schema /\ arg.hint = Named(n)
      BY <2>1, <2>3 DEF InHand
    <3>2. a.id = n
      BY <1>0, <3>1 DEF Alloc, Named
    <3>3. f.kind = "object" /\ f.id = n /\ f.schema = c.schema
      BY <1>0, <2>1, <3>1, <3>2 DEF Frame, Composites
    <3> HIDE DEF f
    <3>4. /\ stack' # <<>> /\ Len(stack') # 1 /\ stack'[Len(stack')] = stack[Len(stack)]
          /\ Second(stack') = f
      BY <1>0, <2>1, <2>3, PushEnds
    <3>5. Hand(c)' /\ InHand(c)'
      BY <3>3, <3>4 DEF Hand, InHand, Second
    <3> QED BY <3>5
  <2> QED BY <2>2, <2>3
<1>6. CASE NextSub
  <2>1. stack' = stack /\ h.kind # "root"
    BY <1>6, <1>r DEF NextSub, Composites
  <2> QED BY <1>0, <1>s, <2>1
<1>7. CASE SubReturns \/ PartReturns
  <2>1. PICK f : /\ stack' = <<f>> \o Tail(stack)
                 /\ f.kind = h.kind /\ f.id = h.id /\ f.schema = h.schema
    <3>1. CASE SubReturns
      <4> DEFINE f == IF ret = NoId THEN Advanced(h)
                      ELSE [Advanced(h) EXCEPT !.props = Put(@, h.schema.subs[h.next].role, ret)]
      <4>1. stack' = <<f>> \o Tail(stack)
        BY <3>1 DEF SubReturns, Replace
      <4>2. f.kind = h.kind /\ f.id = h.id /\ f.schema = h.schema
        BY <1>0 DEF FrameOk, Advanced
      <4> QED BY <4>1, <4>2
    <3>2. CASE PartReturns
      <4> DEFINE merged == [Advanced(h) EXCEPT
                   !.props = Over(types[ret].props, @),
                   !.got = TRUE,
                   !.parts = IF Synthetic(h.id, ret) THEN @ \union {ret} ELSE @]
      <4>1. stack' = <<Advanced(h)>> \o Tail(stack) \/ stack' = <<merged>> \o Tail(stack)
        BY <3>2 DEF PartReturns, Replace
      <4>2. /\ merged.kind = h.kind /\ merged.id = h.id /\ merged.schema = h.schema
            /\ Advanced(h).kind = h.kind /\ Advanced(h).id = h.id /\ Advanced(h).schema = h.schema
        BY <1>0 DEF FrameOk, Advanced
      <4> HIDE DEF merged
      <4> QED BY <4>1, <4>2
    <3> QED BY <1>7, <3>1, <3>2
  <2>2. h.kind # "root"
    BY <1>7 DEF SubReturns, PartReturns, Composites
  <2>3. Hand(c)' /\ InHand(c)'
    BY <2>1, <2>2, Replaced
  <2> QED BY <2>3
<1>8. CASE Close
  <2>1. /\ pc = "subs" /\ pc' = "return" /\ stack' = Tail(stack)
    BY <1>8 DEF Close, Return
  <2>2. Len(stack) # 1
    BY <1>0, <1>r, <2>1 DEF Composites
  <2>3. ASSUME Second(stack) = h PROVE Served(c)'
    <3> DEFINE now == [types |-> types, counter |-> counter]
               s == Lifted(now, h.id, Def("object", h.schema, h.props), h.schema.nullable)
    <3>1. h.kind = "object" /\ h.id = n /\ h.schema = c.schema
      BY <2>2, <2>3 DEF InHand
    <3>2. types' = Without(s.types, h.parts)
      BY <1>8, <3>1 DEF Close, SetPool, Fruitless
    <3>3. h.id \in Ids /\ \A x \in h.parts : PartName(x)
      BY <1>0 DEF FrameOk
    <3>4. PoolOk(now.types, now.counter)
      BY <1>0
    <3> HIDE DEF now
    <3>5. MadeFrom(s.types, h.id, h.schema)
      BY <3>3, <3>4, LiftedFacts
    <3> HIDE DEF s
    <3>6. n \in DOMAIN types' /\ types'[n] = s.types[n]
      BY <1>0, <3>1, <3>2, <3>3, <3>5 DEF Without, MadeFrom
    <3> QED BY <3>1, <3>5, <3>6 DEF Served, MadeFrom
  <2>4. Hand(c)' /\ InHand(c)'
    BY <2>1, <2>2, <2>3, Popped
  <2> QED BY <2>4
<1>9. CASE ParseLocalRef \/ ParseExternalRef
  <2>1. pc = "parse" /\ Len(stack) # 1
    BY <1>9, <1>p DEF ParseLocalRef, ParseExternalRef
  <2>2. PICK f : stack' = stack \/ stack' = <<f>> \o stack
    BY <1>9 DEF ParseLocalRef, ParseExternalRef, WalkAt, Return, Reject
  <2>3. CASE stack' = <<f>> \o stack
    <3>1. Hand(c)' /\ InHand(c)'
      BY <2>1, <2>3, Pushed
    <3> QED BY <3>1
  <2> QED BY <1>s, <2>1, <2>2, <2>3
<1>10. CASE RefReturns
  <2>1. pc' = "return" /\ h.kind = "ref" /\ stack' = Tail(stack)
    BY <1>10 DEF RefReturns
  <2>2. Len(stack) # 1 /\ Second(stack) # h
    BY <1>0, <2>1 DEF InHand
  <2>3. Hand(c)' /\ InHand(c)'
    BY <2>1, <2>2, Popped
  <2> QED BY <2>3
<1> QED
  BY <1>1, <1>2, <1>3, <1>4, <1>5, <1>6, <1>7, <1>8, <1>9, <1>10 DEF Next

(* A component's own call begins. *)
LEMMA WalkBegins ==
  ASSUME IInv, WalkComponent, NEW c, c = spec.docs[Main][NextComponent]
  PROVE  Hand(c)' /\ InHand(c)'
<1> DEFINE f == Frame("root", NoId, c.schema, <<Main, c.name>>)
<1>1. stack' = <<f>> /\ pc' = "parse" /\ arg' = [schema |-> c.schema, hint |-> Named(c.name)]
  BY DEF WalkComponent, Parse
<1>2. f.key = <<Main, c.name>>
  BY DEF Frame
<1> HIDE DEF f
<1>3. stack' # <<>> /\ Len(stack') = 1 /\ stack'[Len(stack')] = f
  BY <1>1
<1> QED BY <1>1, <1>2, <1>3 DEF Hand, InHand

(* The call of a component is in hand as long as it is on the stack: a step *)
(* that begins another one begins on an empty stack.                        *)
LEMMA NotInHand ==
  ASSUME IInv, Next, NEW c, ~Hand(c), WalkComponent => spec.docs[Main][NextComponent].name # c.name
  PROVE  ~Hand(c)'
<1>1. CASE WalkComponent \/ WalkUse
  <2>1. PICK schema, key : /\ stack' = <<Frame("root", NoId, schema, key)>>
                           /\ key # <<Main, c.name>>
    <3>1. NoKey # <<Main, c.name>>
      BY DEF NoKey
    <3>2. CASE WalkComponent
      <4> DEFINE e == spec.docs[Main][NextComponent]
      <4>1. stack' = <<Frame("root", NoId, e.schema, <<Main, e.name>>)>>
        BY <3>2 DEF WalkComponent
      <4>2. e.name # c.name
        BY <3>2
      <4> HIDE DEF e
      <4>3. <<Main, e.name>> # <<Main, c.name>>
        BY <4>2
      <4> QED BY <4>1, <4>3
    <3> QED BY <1>1, <3>1, <3>2 DEF WalkUse
  <2> DEFINE f == Frame("root", NoId, schema, key)
  <2>2. f.key # <<Main, c.name>>
    BY <2>1 DEF Frame
  <2>3. stack' = <<f>>
    BY <2>1
  <2> HIDE DEF f
  <2>4. stack'[Len(stack')] = f
    BY <2>3
  <2> QED BY <2>2, <2>4 DEF Hand
<1>2. CASE RootReturns
  BY <1>2 DEF RootReturns, Hand
<1>3. CASE Finish
  BY <1>3 DEF Finish, Hand
<1>4. CASE ~(WalkComponent \/ WalkUse \/ RootReturns \/ Finish)
  <2>1. stack # <<>> /\ stack \in Seq(Range(stack)) /\ (Head(stack).kind = "root" <=> Len(stack) = 1)
    <3>1. pc \in {"parse", "subs", "return"}
      BY <1>4 DEF Next, ParseLeaf, ParseNull, ParseBad, ParseComposite, NextSub, SubReturns,
                  PartReturns, Close, ParseLocalRef, ParseExternalRef, RefReturns
    <3>2. stack # <<>>
      BY <3>1 DEF IInv
    <3> QED BY <3>2, Innermost
  <2>2. stack'[Len(stack')] = stack[Len(stack)]
    <3>1. CASE stack' = stack
      BY <3>1
    <3>2. CASE \E f : stack' = <<f>> \o stack
      BY <2>1, <3>2, PushEnds
    <3>3. CASE Head(stack).kind # "root" /\ \E f : stack' = <<f>> \o Tail(stack)
      BY <2>1, <3>3, ReplaceEnds
    <3>4. CASE Head(stack).kind # "root" /\ stack' = Tail(stack)
      BY <2>1, <3>4, PopEnds
    <3>5. CASE ParseLeaf \/ ParseNull \/ ParseBad \/ ParseComposite \/ NextSub
      BY <3>1, <3>2, <3>5 DEF ParseLeaf, ParseNull, ParseBad, ParseComposite, NextSub
    <3>6. CASE SubReturns \/ PartReturns
      BY <3>3, <3>6 DEF SubReturns, PartReturns, Replace, Composites
    <3>7. CASE Close
      BY <3>4, <3>7 DEF Close, Composites, IInv
    <3>8. CASE ParseLocalRef \/ ParseExternalRef
      BY <3>1, <3>2, <3>8 DEF ParseLocalRef, ParseExternalRef, WalkAt, Return, Reject
    <3>9. CASE RefReturns
      BY <3>4, <3>9 DEF RefReturns
    <3> QED BY <1>4, <3>5, <3>6, <3>7, <3>8, <3>9 DEF Next
  <2> QED BY <2>1, <2>2 DEF Hand
<1> QED BY <1>1, <1>2, <1>3, <1>4

LEMMA StepSInv ==
  ASSUME NumeralsDiffer, IInv, TInv, SInv, [Next]_vars
  PROVE  SInv'
<1>1. CASE UNCHANGED vars
  <2>1. UNCHANGED <<spec, types, counter, todo, stack, pc, arg>>
    BY <1>1 DEF vars, pool, roots
  <2> QED BY <2>1 DEF SInv, Cared, Hand, InHand, Safe, Served, Unclaimed, Relevant, Second
<1>2. CASE Next
  <2> SUFFICES ASSUME NEW i \in DOMAIN spec.docs[Main] \ todo'
               PROVE  \A c : c = spec.docs[Main][i] => Cared(c)'
    <3>1. spec' = spec
      BY <1>2 DEF Next, WalkComponent, WalkUse, Finish, RootReturns, ParseLeaf, ParseNull, ParseBad,
                  ParseComposite, NextSub, SubReturns, PartReturns, Close, ParseLocalRef,
                  ParseExternalRef, RefReturns
    <3> QED BY <3>1 DEF SInv, Cared, Hand, InHand, Safe, Served, Unclaimed, Relevant, Second
  <2> SUFFICES ASSUME NEW c, c = spec.docs[Main][i], Relevant(c)
               PROVE  IF Hand(c)' THEN InHand(c)' ELSE Safe(c)'
    BY DEF Cared, Relevant
  <2>1. CASE WalkComponent /\ i = NextComponent
    BY <2>1, WalkBegins
  <2>2. CASE ~(WalkComponent /\ i = NextComponent)
    <3>1. i \notin todo
      <4>1. CASE WalkComponent
        BY <2>2, <4>1 DEF WalkComponent
      <4>2. CASE ~WalkComponent
        <5>1. todo' = todo
          BY <1>2, <4>2 DEF Next, WalkUse, Finish, RootReturns, ParseLeaf, ParseNull, ParseBad,
                  ParseComposite, NextSub, SubReturns, PartReturns, Close, ParseLocalRef,
                  ParseExternalRef, RefReturns, roots
        <5> QED BY <5>1
      <4> QED BY <4>1, <4>2
    <3>2. IF Hand(c) THEN InHand(c) ELSE Safe(c)
      BY <3>1 DEF SInv, Cared
    <3>3. WalkComponent => spec.docs[Main][NextComponent].name # c.name
      <4> SUFFICES ASSUME WalkComponent PROVE spec.docs[Main][NextComponent].name # c.name
        OBVIOUS
      <4>1. NextComponent \in DOMAIN spec.docs[Main] /\ i \in DOMAIN spec.docs[Main] /\ i # NextComponent
        BY <2>2, ChosenComponent DEF WalkComponent, TInv
      <4>2. spec \in Specs /\ Main \in DOMAIN spec.docs
        BY SpecFacts DEF TInv
      <4> QED BY <4>1, <4>2, SpecsAssumption
    <3>4. CASE Hand(c)
      BY <1>2, <3>2, <3>4, HandStep
    <3>5. CASE ~Hand(c)
      <4>1. Safe(c)'
        BY <1>2, <3>2, <3>3, <3>5, SafeStep
      <4>2. ~Hand(c)'
        BY <1>2, <3>3, <3>5, NotInHand
      <4> QED BY <4>1, <4>2
    <3> QED BY <3>4, <3>5
  <2> QED BY <2>1, <2>2
<1> QED BY <1>1, <1>2

LEMMA StepDoneInv ==
  ASSUME DoneInv, [Next]_vars
  PROVE  DoneInv'
BY DEF DoneInv, Next, WalkComponent, WalkUse, Finish, RootReturns, ParseLeaf, ParseNull, ParseBad,
       ParseComposite, NextSub, SubReturns, PartReturns, Close, ParseLocalRef, ParseExternalRef,
       RefReturns, vars, roots, Return, Reject, Parse, WalkAt

(* Every component of the main document that is a leaf or an object, and is *)
(* called neither `null` nor like an inline part of an allOf, is in the pool *)
(* under its own name, made from its own schema, when the walk is over: for *)
(* every description, whatever the inline schemas around it are called, as  *)
(* long as numerals of different numbers are different.                     *)
THEOREM ComponentsInThePool ==
  ASSUME NumeralsDiffer
  PROVE  Spec => []ComponentsServed
<1> DEFINE Inv == IInv /\ TInv /\ SInv /\ DoneInv
<1>1. Init => Inv
  <2> SUFFICES ASSUME Init PROVE Inv
    OBVIOUS
  <2>1. SInv /\ DoneInv
    BY DEF Init, SInv, DoneInv
  <2> QED BY <2>1, InitIInv, InitTInv
<1>2. Inv /\ [Next]_vars => Inv'
  <2> SUFFICES ASSUME Inv, [Next]_vars PROVE Inv'
    OBVIOUS
  <2>1. IInv'
    BY StepIInv
  <2>2. TInv'
    BY StepTInv
  <2>3. SInv'
    BY StepSInv
  <2>4. DoneInv'
    BY StepDoneInv
  <2> QED BY <2>1, <2>2, <2>3, <2>4
<1>3. Inv => ComponentsServed
  <2> SUFFICES ASSUME Inv, pc = "done", NEW c \in Range(spec.docs[Main]),
                      c.schema.kind \in {"leaf", "object"}, c.name # NullId, ~PartName(c.name)
               PROVE  c.name \in DOMAIN types /\ types[c.name].schema = c.schema
    BY DEF ComponentsServed
  <2>1. stack = <<>> /\ todo = {}
    BY DEF IInv, DoneInv
  <2>2. PICK i \in DOMAIN spec.docs[Main] : spec.docs[Main][i] = c
    BY DEF Range
  <2>3. Cared(c)
    BY <2>1, <2>2 DEF SInv
  <2> QED BY <2>1, <2>3 DEF Cared, Relevant, Hand, Safe, Served
<1> HIDE DEF Inv
<1> QED BY <1>1, <1>2, <1>3, PTL DEF Spec

-----------------------------------------------------------------------------
(* Ids that begin with another id. *)

LEMMA PrefixIs ==
  ASSUME NEW X, NEW a \in Seq(X), NEW b \in Seq(X)
  PROVE  IsPrefix(a, b) <=> Len(a) <= Len(b) /\ \A i \in 1..Len(a) : a[i] = b[i]
<1> DEFINE n == Len(a)
           p == SubSeq(a, 1, n)
           q == SubSeq(b, 1, n)
<1>1. n \in Nat /\ Len(b) \in Nat /\ p = a
  OBVIOUS
<1>2. ASSUME n <= Len(b)
      PROVE  q \in Seq(X) /\ Len(q) = n /\ \A i \in 1..n : q[i] = b[i]
  BY <1>1, <1>2, SubSeqProperties
<1>3. n <= Len(b) => (a = q <=> \A i \in 1..n : a[i] = b[i])
  <2> SUFFICES ASSUME n <= Len(b) PROVE a = q <=> \A i \in 1..n : a[i] = b[i]
    OBVIOUS
  <2>1. q \in Seq(X) /\ Len(q) = n /\ \A i \in 1..n : q[i] = b[i]
    BY <1>2
  <2> HIDE DEF q
  <2> QED BY <1>1, <2>1, SeqEqual
<1> QED BY <1>1, <1>3 DEF IsPrefix

LEMMA PrefixFacts ==
  ASSUME NEW X
  PROVE  /\ \A a \in Seq(X) : IsPrefix(a, a)
         /\ \A a, b \in Seq(X) : IsPrefix(a, b) /\ IsPrefix(b, a) => a = b
         /\ \A a, b, c \in Seq(X) : IsPrefix(a, b) /\ IsPrefix(b, c) => IsPrefix(a, c)
         /\ \A a, b, c \in Seq(X) : IsPrefix(a, c) /\ IsPrefix(b, c) => IsPrefix(a, b) \/ IsPrefix(b, a)
<1>1. ASSUME NEW a \in Seq(X) PROVE IsPrefix(a, a)
  BY PrefixIs
<1>2. ASSUME NEW a \in Seq(X), NEW b \in Seq(X), IsPrefix(a, b), IsPrefix(b, a) PROVE a = b
  <2>1. /\ Len(a) <= Len(b) /\ \A i \in 1..Len(a) : a[i] = b[i]
        /\ Len(b) <= Len(a)
    BY <1>2, PrefixIs
  <2>2. Len(a) \in Nat /\ Len(b) \in Nat
    OBVIOUS
  <2> QED BY <2>1, <2>2, SeqEqual
<1>3. ASSUME NEW a \in Seq(X), NEW b \in Seq(X), NEW c \in Seq(X), IsPrefix(a, b), IsPrefix(b, c)
      PROVE  IsPrefix(a, c)
  <2>1. /\ Len(a) <= Len(b) /\ \A i \in 1..Len(a) : a[i] = b[i]
        /\ Len(b) <= Len(c) /\ \A i \in 1..Len(b) : b[i] = c[i]
    BY <1>3, PrefixIs
  <2>2. Len(a) \in Nat /\ Len(b) \in Nat /\ Len(c) \in Nat
    OBVIOUS
  <2>3. Len(a) <= Len(c) /\ \A i \in 1..Len(a) : a[i] = c[i]
    BY <2>1, <2>2
  <2> QED BY <2>3, PrefixIs
<1>4. ASSUME NEW a \in Seq(X), NEW b \in Seq(X), NEW c \in Seq(X), IsPrefix(a, c), IsPrefix(b, c),
             Len(a) <= Len(b)
      PROVE  IsPrefix(a, b)
  <2>1. /\ \A i \in 1..Len(a) : a[i] = c[i]
        /\ \A i \in 1..Len(b) : b[i] = c[i]
    BY <1>4, PrefixIs
  <2>2. Len(a) \in Nat /\ Len(b) \in Nat
    OBVIOUS
  <2>3. \A i \in 1..Len(a) : a[i] = b[i]
    BY <1>4, <2>1, <2>2
  <2> QED BY <1>4, <2>3, PrefixIs
<1>5. \A a, b \in Seq(X) : Len(a) <= Len(b) \/ Len(b) <= Len(a)
  OBVIOUS
<1> QED BY <1>1, <1>2, <1>3, <1>4, <1>5, Zenon

LEMMA PrefixJoin ==
  ASSUME NEW X, NEW a \in Seq(X), NEW b \in Seq(X)
  PROVE  /\ IsPrefix(a, a \o b)
         /\ b # <<>> => a \o b # a
         /\ \A x \in X : IsPrefix(a, Append(a, x)) /\ Append(a, x) # a
<1>1. a \o b \in Seq(X) /\ Len(a) <= Len(a \o b) /\ \A i \in 1..Len(a) : a[i] = (a \o b)[i]
  OBVIOUS
<1>2. b # <<>> => Len(a \o b) # Len(a)
  OBVIOUS
<1>3. ASSUME NEW x \in X
      PROVE  /\ Append(a, x) \in Seq(X) /\ Len(a) <= Len(Append(a, x)) /\ Len(a) # Len(Append(a, x))
             /\ \A i \in 1..Len(a) : a[i] = Append(a, x)[i]
  OBVIOUS
<1> QED BY <1>1, <1>2, <1>3, PrefixIs

(* The same of ids. *)
LEMMA IdPrefix ==
  /\ \A a \in Ids : IsPrefix(a, a)
  /\ \A a, b \in Ids : IsPrefix(a, b) /\ IsPrefix(b, a) => a = b
  /\ \A a, b, c \in Ids : IsPrefix(a, b) /\ IsPrefix(b, c) => IsPrefix(a, c)
  /\ \A a, b, c \in Ids : IsPrefix(a, c) /\ IsPrefix(b, c) => IsPrefix(a, b) \/ IsPrefix(b, a)
<1> DEFINE P == STRING \union Words \union {ToString(k) : k \in Nat}
<1>1. Ids = Seq(P)
  BY DEF Ids
<1> HIDE DEF P
<1> QED BY <1>1, PrefixFacts

LEMMA IdJoin ==
  /\ \A a, b \in Ids : IsPrefix(a, a \o b) /\ (b # <<>> => a \o b # a)
  /\ \A a \in Ids, w \in STRING \union Words : IsPrefix(a, Append(a, w)) /\ Append(a, w) # a
  /\ \A a \in Ids, k \in Nat : IsPrefix(a, Append(a, ToString(k))) /\ Append(a, ToString(k)) # a
<1> DEFINE P == STRING \union Words \union {ToString(k) : k \in Nat}
<1>1. Ids = Seq(P) /\ STRING \union Words \subseteq P /\ \A k \in Nat : ToString(k) \in P
  BY DEF Ids
<1> HIDE DEF P
<1>2. \A a, b \in Seq(P) : IsPrefix(a, a \o b) /\ (b # <<>> => a \o b # a)
  BY PrefixJoin
<1>3. ASSUME NEW a \in Seq(P), NEW x \in P
      PROVE  IsPrefix(a, Append(a, x)) /\ Append(a, x) # a
  <2>1. <<>> \in Seq(P)
    OBVIOUS
  <2> QED BY <2>1, PrefixJoin
<1> QED BY <1>1, <1>2, <1>3

-----------------------------------------------------------------------------
(* The calls in progress, the outermost first: what of them does not change *)
(* until they return.                                                       *)
Call(f) == [kind |-> f.kind, id |-> f.id, schema |-> f.schema, key |-> f.key]
Calls(s) == [k \in 1..Len(s) |-> Call(s[Len(s) + 1 - k])]

LEMMA CallsPush ==
  ASSUME NEW s, s \in Seq(Range(s)), NEW f
  PROVE  LET t == <<f>> \o s IN
         /\ Len(s) \in Nat /\ Len(t) = Len(s) + 1
         /\ Calls(t)[Len(t)] = Call(f)
         /\ \A k \in 1..Len(s) : Calls(t)[k] = Calls(s)[k]
<1> DEFINE t == <<f>> \o s
           n == Len(s)
<1>1. /\ n \in Nat /\ DOMAIN s = 1..n /\ Len(t) = n + 1
      /\ t[1] = f /\ \A i \in DOMAIN s : t[i + 1] = s[i]
  BY PushSeq
<1> HIDE DEF t, n
<1>2. Calls(t)[n + 1] = Call(f)
  <2>1. n + 1 \in 1..Len(t) /\ Len(t) + 1 - (n + 1) = 1
    BY <1>1
  <2> QED BY <1>1, <2>1 DEF Calls
<1>3. ASSUME NEW k \in 1..n PROVE Calls(t)[k] = Calls(s)[k]
  <2>1. /\ k \in 1..Len(t) /\ n + 1 - k \in DOMAIN s
        /\ Len(t) + 1 - k = (n + 1 - k) + 1
    BY <1>1
  <2>2. t[Len(t) + 1 - k] = s[n + 1 - k]
    BY <1>1, <2>1
  <2> QED BY <2>1, <2>2 DEF Calls, n
<1> QED BY <1>1, <1>2, <1>3 DEF t, n

LEMMA CallsPop ==
  ASSUME NEW s, s \in Seq(Range(s)), s # <<>>
  PROVE  LET t == Tail(s) IN
         /\ t \in Seq(Range(t)) /\ Len(s) \in Nat \ {0} /\ Len(t) = Len(s) - 1
         /\ Calls(s)[Len(s)] = Call(Head(s))
         /\ \A k \in 1..Len(t) : Calls(t)[k] = Calls(s)[k]
         /\ t # <<>> => Calls(s)[Len(s) - 1] = Call(Head(t))
<1> DEFINE t == Tail(s)
           n == Len(s)
<1>1. /\ t \in Seq(Range(t)) /\ n \in Nat \ {0} /\ Head(s) = s[1] /\ Len(t) = n - 1
      /\ DOMAIN t = 1..(n - 1) /\ \A i \in DOMAIN t : t[i] = s[i + 1]
  BY PopSeq
<1>0. t # <<>> => Head(t) = t[1] /\ Len(t) # 0
  <2> SUFFICES ASSUME t # <<>> PROVE Head(t) = t[1] /\ Len(t) # 0
    OBVIOUS
  <2>1. t \in Seq(Range(t))
    BY <1>1
  <2> HIDE DEF t
  <2>2. Head(t) = t[1] /\ Len(t) \in Nat \ {0}
    BY ONLY t # <<>>, <2>1, PopSeq
  <2> QED BY <2>2
<1> HIDE DEF t, n
<1>2. Calls(s)[n] = Call(Head(s))
  <2>1. n \in 1..n /\ n + 1 - n = 1
    BY <1>1
  <2>2. Calls(s)[n] = Call(s[n + 1 - n])
    BY <2>1 DEF Calls, n
  <2> QED BY <1>1, <2>1, <2>2
<1>3. ASSUME NEW k \in 1..Len(t) PROVE Calls(t)[k] = Calls(s)[k]
  <2>1. /\ k \in 1..n /\ Len(t) + 1 - k \in DOMAIN t
        /\ (Len(t) + 1 - k) + 1 = n + 1 - k
    BY <1>1
  <2>2. t[Len(t) + 1 - k] = s[n + 1 - k]
    BY <1>1, <2>1
  <2> QED BY <2>1, <2>2 DEF Calls, n
<1>4. ASSUME t # <<>> PROVE Calls(s)[n - 1] = Call(Head(t))
  <2>1. n - 1 \in 1..n /\ n + 1 - (n - 1) = 2 /\ 1 \in DOMAIN t /\ 1 + 1 = 2
    BY <1>0, <1>1, <1>4
  <2>2. Calls(s)[n - 1] = Call(s[n + 1 - (n - 1)])
    BY <2>1 DEF Calls, n
  <2> QED BY <1>0, <1>1, <1>4, <2>1, <2>2
<1> QED BY <1>1, <1>2, <1>3, <1>4 DEF t, n

LEMMA CallsReplace ==
  ASSUME NEW s, s \in Seq(Range(s)), s # <<>>, NEW f, Call(f) = Call(Head(s))
  PROVE  LET t == <<f>> \o Tail(s) IN Len(t) = Len(s) /\ Calls(t) = Calls(s)
<1> DEFINE t == <<f>> \o Tail(s)
<1>1. /\ Tail(s) \in Seq(Range(Tail(s))) /\ Len(s) \in Nat \ {0} /\ Len(Tail(s)) = Len(s) - 1
      /\ Calls(s)[Len(s)] = Call(f)
      /\ \A k \in 1..Len(Tail(s)) : Calls(Tail(s))[k] = Calls(s)[k]
  BY CallsPop
<1>2. /\ Len(t) = Len(Tail(s)) + 1 /\ Calls(t)[Len(t)] = Call(f)
      /\ \A k \in 1..Len(Tail(s)) : Calls(t)[k] = Calls(Tail(s))[k]
  BY <1>1, CallsPush
<1> HIDE DEF t
<1>3. Len(t) = Len(s)
  BY <1>1, <1>2
<1>4. ASSUME NEW k \in 1..Len(s) PROVE Calls(t)[k] = Calls(s)[k]
  <2>1. CASE k = Len(s)
    BY <1>1, <1>2, <1>3, <2>1
  <2>2. CASE k # Len(s)
    <3>1. k \in 1..Len(Tail(s))
      <4> DEFINE m == Len(s)
                 l == Len(Tail(s))
      <4>1. m \in Nat \ {0} /\ l = m - 1 /\ k \in 1..m /\ k # m
        BY <1>1, <2>2
      <4> HIDE DEF m, l
      <4>2. k \in 1..l
        BY ONLY <4>1
      <4> QED BY <4>2 DEF l
    <3>2. Calls(t)[k] = Calls(Tail(s))[k]
      BY ONLY <1>2, <3>1
    <3>3. Calls(Tail(s))[k] = Calls(s)[k]
      BY ONLY <1>1, <3>1
    <3> QED BY ONLY <3>2, <3>3
  <2> QED BY <2>1, <2>2
<1>5. Calls(t) = Calls(s)
  <2> DEFINE u == Calls(t)
             v == Calls(s)
  <2>1. u = [k \in 1..Len(s) |-> u[k]] /\ v = [k \in 1..Len(s) |-> v[k]]
    BY <1>3 DEF Calls
  <2> HIDE DEF u, v
  <2>2. \A k \in 1..Len(s) : u[k] = v[k]
    BY <1>4 DEF u, v
  <2>3. u = v
    BY ONLY <2>1, <2>2
  <2> QED BY <2>3 DEF u, v
<1> QED BY <1>3, <1>5 DEF t

(* A call is in progress where its frame is. *)
LEMMA CallsAre ==
  ASSUME NEW s, NEW c, NEW w, Consistent(s, c, w)
  PROVE  /\ Len(s) \in Nat
         /\ \A i \in 1..Len(s) : /\ Calls(s)[i].kind = "root" <=> i = 1
                                 /\ Calls(s)[i].kind \in Composites => Calls(s)[i].key = NoKey
                                 /\ Calls(s)[i].key = NoKey \/ Calls(s)[i].key \in w
         /\ \A i, j \in 1..Len(s) : i # j /\ Calls(s)[i].key # NoKey => Calls(s)[i].key # Calls(s)[j].key
<1> DEFINE n == Len(s)
           at(i) == n + 1 - i
<1>1. s \in Seq(Range(s))
  BY DEF Consistent, WellFormed
<1>2. n \in Nat /\ DOMAIN s = 1..n
  BY <1>1
<1>3. ASSUME NEW i \in 1..n
      PROVE  /\ at(i) \in DOMAIN s /\ (at(i) = n <=> i = 1)
             /\ Calls(s)[i].kind = s[at(i)].kind /\ Calls(s)[i].key = s[at(i)].key
  <2>1. at(i) \in DOMAIN s /\ (at(i) = n <=> i = 1)
    BY <1>2
  <2> QED BY <2>1 DEF Calls, Call
<1>4. ASSUME NEW i \in 1..n, NEW j \in 1..n, i # j PROVE at(i) # at(j)
  BY <1>2, <1>4
<1>5. ASSUME NEW i \in 1..n
      PROVE  /\ Calls(s)[i].kind = "root" <=> i = 1
             /\ Calls(s)[i].kind \in Composites => Calls(s)[i].key = NoKey
             /\ Calls(s)[i].key = NoKey \/ Calls(s)[i].key \in w
  <2>1. /\ s[at(i)].kind = "root" <=> at(i) = n
        /\ s[at(i)].kind \in Composites => s[at(i)].key = NoKey
    BY <1>3 DEF Consistent, WellFormed
  <2>2. s[at(i)] \in Range(s)
    BY <1>3 DEF Range
  <2>3. s[at(i)].key = NoKey \/ s[at(i)].key \in w
    BY <2>2 DEF Consistent, Progress
  <2> QED BY <1>3, <2>1, <2>3
<1>6. ASSUME NEW i \in 1..n, NEW j \in 1..n, i # j, Calls(s)[i].key # NoKey
      PROVE  Calls(s)[i].key # Calls(s)[j].key
  <2>1. s[at(i)].key # NoKey => s[at(i)].key # s[at(j)].key
    BY <1>3, <1>4, <1>6 DEF Consistent, Progress
  <2> QED BY <1>3, <1>6, <2>1
<1> QED BY <1>2, <1>5, <1>6

-----------------------------------------------------------------------------
(* Keys: the schemas that have a name, and what a reference under one links *)
(* it to.                                                                   *)
IsNamed(k) == k # NoKey /\ Has(k[1], k[2])
At(k) == Schema(k[1], k[2])
Base(k) == Prefix(k[1]) \o k[2]
IsLink(k) == IsNamed(k) /\ At(k).kind = "ref"
Final(k) == IsNamed(k) /\ At(k).kind # "ref"
Target(k) == <<IF At(k).file = "" THEN k[1] ELSE At(k).file, At(k).target>>
Here == UNION {{d} \X Names(d) : d \in DOMAIN spec.docs}
Keys == Here \union {Target(k) : k \in {m \in Here : IsLink(m)}}

(* The keys that references chain together: no set that is closed under     *)
(* links, in both directions, has one without the other.                    *)
Closed(C) == \A m \in Keys : IsLink(m) => (m \in C <=> Target(m) \in C)
Same(k, l) == \A C \in SUBSET Keys : Closed(C) => (k \in C <=> l \in C)
BaseOf(q, k) == \E l \in Here : Same(k, l) /\ q = Base(l)

(* The ids that every other one begins with. *)
Roots == {Base(k) : k \in Here} \union {NullId, <<"op">>}

LEMMA SameIs ==
  /\ \A k : Same(k, k)
  /\ \A k, l : Same(k, l) => Same(l, k)
  /\ \A k, l, m : Same(k, l) /\ Same(l, m) => Same(k, m)
BY DEF Same

LEMMA NamedHere ==
  /\ \A d, n : Has(d, n) <=> <<d, n>> \in Here
  /\ \A k \in Here : IsNamed(k) /\ k = <<k[1], k[2]>>
  /\ Here \subseteq Keys
<1>1. ASSUME NEW d, NEW n PROVE Has(d, n) <=> d \in DOMAIN spec.docs /\ n \in Names(d)
  BY DEF Has, Names, Range
<1>2. ASSUME NEW k \in Here PROVE k = <<k[1], k[2]>> /\ k[1] \in DOMAIN spec.docs /\ k[2] \in Names(k[1])
  BY DEF Here
<1>3. ASSUME NEW d \in DOMAIN spec.docs, NEW n \in Names(d) PROVE <<d, n>> \in Here
  BY DEF Here
<1>4. ASSUME NEW d, NEW n, <<d, n>> \in Here PROVE d \in DOMAIN spec.docs /\ n \in Names(d)
  BY <1>4, <1>2
<1>5. ASSUME NEW k \in Here PROVE k # NoKey
  BY <1>2 DEF NoKey
<1> QED BY <1>1, <1>2, <1>3, <1>4, <1>5 DEF IsNamed, Keys

LEMMA SameTarget ==
  ASSUME NEW k, IsLink(k), k \in Here
  PROVE  Same(k, Target(k)) /\ Target(k) \in Keys
<1>1. k \in Keys /\ Target(k) \in Keys
  BY DEF Keys
<1> QED BY <1>1 DEF Same, Closed

(* Of the keys chained together only one is no reference: everything that   *)
(* leads to it is closed under links, and has no other such key.            *)
LEMMA FinalIsOne ==
  ASSUME NEW k \in Here, NEW l \in Here, Final(k), Final(l), Same(k, l)
  PROVE  k = l
<1> SUFFICES ASSUME k # l PROVE FALSE
  OBVIOUS
<1> DEFINE Back(B) == k \in B /\ \A m \in Keys : IsLink(m) /\ Target(m) \in B => m \in B
           C == {x \in Keys : \A B \in SUBSET Keys : Back(B) => x \in B}
<1>0. k \in Keys /\ l \in Keys /\ ~IsLink(k) /\ ~IsLink(l)
  BY NamedHere DEF Final, IsLink
<1>1. Back(C)
  BY <1>0
<1>2. ASSUME NEW B \in SUBSET Keys, Back(B) PROVE C \subseteq B
  BY <1>2
<1>3. \A m \in Keys : IsLink(m) => Target(m) \in Keys
  <2>1. \A m : IsLink(m) => m[1] \in DOMAIN spec.docs /\ m[2] \in Names(m[1])
    BY DEF IsLink, IsNamed, Has, Names, Range
  <2>2. ASSUME NEW m \in Keys, IsLink(m) PROVE m \in Here
    <3> SUFFICES ASSUME NEW j \in Here, m = Target(j) PROVE m \in Here
      BY <2>2 DEF Keys
    <3>1. m = <<m[1], m[2]>>
      BY DEF Target
    <3> QED BY <2>1, <2>2, <3>1 DEF Here
  <2> QED BY <2>2 DEF Keys
<1> HIDE DEF C
<1>4. ASSUME NEW m \in Keys, IsLink(m), m \in C PROVE Target(m) \in C
  <2> SUFFICES ASSUME Target(m) \notin C PROVE FALSE
    OBVIOUS
  <2>1. C \subseteq Keys
    BY DEF C
  <2>2. Back(C \ {m})
    BY <1>0, <1>1, <1>4
  <2>3. C \subseteq C \ {m}
    BY <1>2, <2>1, <2>2
  <2> QED BY <1>4, <2>3
<1>5. Closed(C)
  BY <1>1, <1>4 DEF Closed
<1>6. l \notin C
  <2>1. C \subseteq Keys
    BY DEF C
  <2>2. Back(C \ {l})
    BY <1>0, <1>1
  <2>3. C \subseteq C \ {l}
    BY <1>2, <2>1, <2>2
  <2> QED BY <2>3
<1>7. C \in SUBSET Keys /\ k \in C
  BY <1>1 DEF C
<1> QED BY <1>5, <1>6, <1>7 DEF Same

LEMMA PrefixCancel ==
  ASSUME NEW a \in Ids, NEW b \in Ids, NEW c \in Ids, IsPrefix(a \o b, a \o c)
  PROVE  IsPrefix(b, c)
<1> DEFINE P == STRING \union Words \union {ToString(k) : k \in Nat}
<1>1. a \in Seq(P) /\ b \in Seq(P) /\ c \in Seq(P)
  BY DEF Ids
<1> HIDE DEF P
<1> DEFINE l == Len(a)
           m == Len(b)
           n == Len(c)
<1>2. /\ l \in Nat /\ m \in Nat /\ n \in Nat
      /\ a \o b \in Seq(P) /\ Len(a \o b) = l + m /\ \A i \in 1..m : (a \o b)[l + i] = b[i]
      /\ a \o c \in Seq(P) /\ Len(a \o c) = l + n /\ \A i \in 1..n : (a \o c)[l + i] = c[i]
  BY <1>1, ConcatProperties
<1>3. l + m <= l + n /\ \A i \in 1..(l + m) : (a \o b)[i] = (a \o c)[i]
  <2> DEFINE x == a \o b
             y == a \o c
  <2>1. x \in Seq(P) /\ y \in Seq(P) /\ IsPrefix(x, y) /\ Len(x) = l + m /\ Len(y) = l + n
    BY <1>2
  <2> HIDE DEF x, y
  <2>2. Len(x) <= Len(y) /\ \A i \in 1..Len(x) : x[i] = y[i]
    BY <2>1, PrefixIs
  <2> QED BY <2>1, <2>2 DEF x, y
<1>4. m <= n
  BY <1>2, <1>3
<1>5. ASSUME NEW i \in 1..m PROVE b[i] = c[i]
  <2>1. l + i \in 1..(l + m) /\ i \in 1..n
    BY <1>2, <1>4
  <2> QED BY <1>2, <1>3, <2>1
<1> QED BY <1>1, <1>4, <1>5, PrefixIs

(* Where names are apart no root begins another, and each is the root of    *)
(* one thing only.                                                          *)
LEMMA RootsApart ==
  ASSUME spec \in Specs, NamesApart
  PROVE  /\ Roots \subseteq Ids /\ \A q, r \in Roots : IsPrefix(q, r) => q = r
         /\ \A k, l \in Here : Base(k) = Base(l) => k = l
         /\ \A k \in Here : Base(k) # <<"op">>
<1> DEFINE others == {<<"op">>} \union {Prefix(d) : d \in DOMAIN spec.docs \ {Main}}
           M == Names(Main) \union {NullId} \union others
           Short == Names(Main) \union {NullId, <<"op">>}
           Abroad == DOMAIN spec.docs \ {Main}
<1>1. /\ Names(Main) \cap others = {}
      /\ \A a, b \in M : IsPrefix(a, b) => a = b
      /\ \A d \in DOMAIN spec.docs : \A a, b \in Names(d) : IsPrefix(a, b) => a = b
  BY DEF NamesApart, Apart
<1>2. /\ \A d \in DOMAIN spec.docs : Names(d) \subseteq Ids /\ Prefix(d) \in Ids
      /\ Main \in DOMAIN spec.docs
  <2>1. ASSUME NEW d \in DOMAIN spec.docs PROVE Names(d) \subseteq Ids
    BY SpecFacts DEF Names, Range
  <2> QED BY <2>1, SpecFacts
<1>3. NullId \in Ids /\ <<"op">> \in Ids
  BY IdsJoin DEF NullId, Words
<1>4. /\ \A d \in Abroad : (\E w : Prefix(d) = <<d, w>>) /\ Prefix(d) \in M /\ Prefix(d) \notin Short
      /\ Prefix(Main) = <<>>
  <2>1. ASSUME NEW d \in Abroad
        PROVE  (\E w : Prefix(d) = <<d, w>>) /\ Prefix(d) \in M /\ Prefix(d) \notin Short
    <3>1. PICK w : Prefix(d) = <<d, w>>
      BY Zenon DEF Prefix
    <3>2. Prefix(d) # NullId /\ Prefix(d) # <<"op">>
      BY ONLY <3>1 DEF NullId
    <3>3. Prefix(d) \in others
      OBVIOUS
    <3>4. Prefix(d) \notin Short
      BY <1>1, <3>2, <3>3
    <3>5. Prefix(d) \in M
      BY <3>3
    <3> QED BY <3>1, <3>4, <3>5
  <2> QED BY <2>1, Zenon DEF Prefix
<1>5. Short \subseteq M /\ Short \subseteq Ids
  BY <1>2, <1>3
<1>6. ASSUME NEW k \in Here
      PROVE  \/ k[1] = Main /\ Base(k) = k[2] /\ k[2] \in Names(Main)
             \/ k[1] \in Abroad /\ Base(k) = Prefix(k[1]) \o k[2] /\ k[2] \in Names(k[1])
  <2>1. k[1] \in DOMAIN spec.docs /\ k[2] \in Names(k[1])
    BY DEF Here
  <2>2. CASE k[1] = Main
    <3> DEFINE P == STRING \union Words \union {ToString(j) : j \in Nat}
    <3>1. k[2] \in Seq(P)
      BY <1>2, <2>1 DEF Ids
    <3> HIDE DEF P
    <3>2. <<>> \o k[2] = k[2]
      BY <3>1
    <3> QED BY <1>4, <2>1, <2>2, <3>2 DEF Base
  <2>3. CASE k[1] # Main
    BY <2>1, <2>3 DEF Base
  <2> QED BY <2>2, <2>3
<1> HIDE DEF others, M
<1>7. Roots \subseteq Ids
  <2>1. \A k \in Here : Base(k) \in Ids
    BY <1>2, <1>6, IdsJoin
  <2> QED BY <1>3, <2>1 DEF Roots
<1>8. ASSUME NEW q \in Roots
      PROVE  \/ q \in Short
             \/ \E d \in Abroad, n \in Ids : n \in Names(d) /\ q = Prefix(d) \o n /\ IsPrefix(Prefix(d), q)
  <2>1. CASE q \in {NullId, <<"op">>}
    BY <2>1
  <2>2. ASSUME NEW k \in Here, q = Base(k)
        PROVE  \/ q \in Short
               \/ \E d \in Abroad, n \in Ids : n \in Names(d) /\ q = Prefix(d) \o n /\ IsPrefix(Prefix(d), q)
    BY <1>2, <1>6, <2>2, IdJoin
  <2> QED BY <2>1, <2>2 DEF Roots
<1>9. ASSUME NEW d \in Abroad, NEW s \in Short, NEW x \in Ids, IsPrefix(Prefix(d), x) PROVE ~IsPrefix(s, x)
  <2> SUFFICES ASSUME IsPrefix(s, x) PROVE FALSE
    OBVIOUS
  <2>1. IsPrefix(s, Prefix(d)) \/ IsPrefix(Prefix(d), s)
    BY <1>2, <1>5, <1>9, IdPrefix
  <2>2. s = Prefix(d)
    BY <1>1, <1>4, <1>5, <2>1
  <2> QED BY <1>4, <2>2
<1>10. ASSUME NEW d \in Abroad, NEW e \in Abroad, NEW n \in Names(d), NEW m \in Names(e),
              IsPrefix(Prefix(d) \o n, Prefix(e) \o m)
       PROVE  d = e /\ n = m
  <2> DEFINE x == Prefix(e) \o m
             y == Prefix(d) \o n
  <2>0. /\ x \in Ids /\ y \in Ids /\ Prefix(d) \in Ids /\ Prefix(e) \in Ids /\ n \in Ids /\ m \in Ids
        /\ IsPrefix(Prefix(e), x) /\ IsPrefix(Prefix(d), y)
    BY <1>2, IdsJoin, IdJoin
  <2>1. IsPrefix(Prefix(d), x)
    BY <1>10, <2>0, IdPrefix
  <2>2. IsPrefix(Prefix(d), Prefix(e)) \/ IsPrefix(Prefix(e), Prefix(d))
    BY <2>0, <2>1, IdPrefix
  <2>3. Prefix(d) = Prefix(e)
    BY <1>1, <1>4, <2>2
  <2>4. d = e
    BY <1>4, <2>3
  <2>5. IsPrefix(n, m)
    BY <1>10, <2>0, <2>3, PrefixCancel
  <2> QED BY <1>1, <2>4, <2>5
<1>11. ASSUME NEW q \in Roots, NEW r \in Roots, IsPrefix(q, r) PROVE q = r
  <2>0. q \in Ids /\ r \in Ids
    BY <1>7
  <2>1. CASE q \in Short /\ r \in Short
    BY <1>1, <1>5, <1>11, <2>1
  <2>2. CASE q \in Short /\ r \notin Short
    BY <1>8, <1>9, <1>11, <2>0, <2>2
  <2>3. CASE q \notin Short /\ r \in Short
    <3>1. PICK d \in Abroad : IsPrefix(Prefix(d), q)
      BY <1>8, <2>3
    <3>2. IsPrefix(Prefix(d), r) /\ IsPrefix(r, r)
      BY <1>2, <1>11, <2>0, <3>1, IdPrefix
    <3> QED BY <1>9, <2>0, <2>3, <3>2
  <2>4. CASE q \notin Short /\ r \notin Short
    <3>1. PICK d \in Abroad, n \in Ids : n \in Names(d) /\ q = Prefix(d) \o n
      BY <1>8, <2>4
    <3>2. PICK e \in Abroad, m \in Ids : m \in Names(e) /\ r = Prefix(e) \o m
      BY <1>8, <2>4
    <3> QED BY <1>10, <1>11, <3>1, <3>2
  <2> QED BY <2>1, <2>2, <2>3, <2>4
<1>12. ASSUME NEW k \in Here, NEW l \in Here, Base(k) = Base(l) PROVE k = l
  <2>0. k = <<k[1], k[2]>> /\ l = <<l[1], l[2]>> /\ Base(k) \in Ids /\ IsPrefix(Base(k), Base(k))
    <3>1. Base(k) \in Roots
      BY DEF Roots
    <3> QED BY <1>7, <3>1, NamedHere, IdPrefix
  <2>1. CASE k[1] = Main /\ l[1] = Main
    BY <1>6, <1>12, <2>0, <2>1
  <2>2. CASE k[1] = Main /\ l[1] # Main
    <3>1. Base(k) \in Short /\ l[1] \in Abroad /\ IsPrefix(Prefix(l[1]), Base(l))
      BY <1>2, <1>6, <2>2, IdJoin
    <3> QED BY <1>9, <1>12, <2>0, <3>1
  <2>3. CASE k[1] # Main /\ l[1] = Main
    <3>1. Base(k) \in Short /\ k[1] \in Abroad /\ IsPrefix(Prefix(k[1]), Base(k))
      BY <1>2, <1>6, <1>12, <2>3, IdJoin
    <3> QED BY <1>9, <1>12, <2>0, <3>1
  <2>4. CASE k[1] # Main /\ l[1] # Main
    <3>1. /\ k[1] \in Abroad /\ Base(k) = Prefix(k[1]) \o k[2] /\ k[2] \in Names(k[1])
          /\ l[1] \in Abroad /\ Base(l) = Prefix(l[1]) \o l[2] /\ l[2] \in Names(l[1])
      BY <1>6, <2>4
    <3>2. IsPrefix(Prefix(k[1]) \o k[2], Prefix(l[1]) \o l[2])
      BY <1>12, <2>0, <3>1
    <3>3. k[1] = l[1] /\ k[2] = l[2]
      BY <1>10, <3>1, <3>2
    <3> QED BY <2>0, <3>3
  <2> QED BY <2>1, <2>2, <2>3, <2>4
<1>13. ASSUME NEW k \in Here, Base(k) = <<"op">> PROVE FALSE
  <2>1. CASE k[1] = Main
    BY <1>1, <1>6, <1>13, <2>1 DEF others
  <2>2. CASE k[1] # Main
    <3>1. k[1] \in Abroad /\ IsPrefix(Prefix(k[1]), Base(k)) /\ <<"op">> \in Short
      BY <1>2, <1>6, <2>2, IdJoin
    <3> QED BY <1>3, <1>9, <1>13, <3>1, IdPrefix
  <2> QED BY <2>1, <2>2
<1> QED BY <1>7, <1>11, <1>12, <1>13

-----------------------------------------------------------------------------
(* What a step adds to the pool. *)

LEMMA Numbered ==
  ASSUME NEW a \in Ids, NEW x, x = a \/ \E k \in Nat : x = Append(a, ToString(k))
  PROVE  IsPrefix(a, x)
<1>1. CASE x = a
  BY <1>1, IdPrefix
<1>2. CASE \E k \in Nat : x = Append(a, ToString(k))
  BY <1>2, IdJoin
<1> QED BY <1>1, <1>2

NullNumeral(x) == \E k \in Nat : x = Append(NullId, ToString(k))
Grows(old, new, b) ==
  /\ NullId \in DOMAIN old => NullId \in DOMAIN new
  /\ \A x \in DOMAIN new \ DOMAIN old : x = NullId \/ IsPrefix(b, x)

LEMMA WithNullHas ==
  ASSUME NEW ts
  PROVE  DOMAIN WithNull(ts) = DOMAIN ts \union {NullId}
BY DEF WithNull, Put

(* The id that a schema gets: its name, a numbered `null`, or a free id     *)
(* that begins with the one asked for.                                      *)
LEMMA AllocShape ==
  ASSUME NumeralsDiffer, NEW hint, hint.base \in Ids, PoolOk(types, counter)
  PROVE  LET a == Alloc(hint) IN
         /\ hint.named /\ hint.base # NullId => a.id = hint.base /\ a.types = types
         /\ hint.named /\ hint.base = NullId =>
              a.types = WithNull(types) /\ NullNumeral(a.id) /\ a.id \notin DOMAIN types
         /\ ~hint.named =>
              /\ a.types = types /\ a.id \notin DOMAIN types
              /\ a.id = hint.base \/ \E k \in Nat : a.id = Append(hint.base, ToString(k))
<1>1. CASE hint.named /\ hint.base # NullId
  BY <1>1 DEF Alloc
<1>2. CASE ~(hint.named /\ hint.base # NullId)
  <2> DEFINE ts == IF hint.named THEN WithNull(types) ELSE types
             u == UniqueId(hint.base, ts, counter)
  <2>1. PoolOk(ts, counter) /\ DOMAIN types \subseteq DOMAIN ts /\ (hint.named => NullId \in DOMAIN ts)
    BY WithNullKeeps, WithNullHas
  <2>2. Alloc(hint) = [id |-> u.id, types |-> ts, counter |-> Put(counter, hint.base, u.count)]
    BY <1>2 DEF Alloc
  <2>t. /\ hint.named => ts = WithNull(types)
        /\ ~hint.named => ts = types
    OBVIOUS
  <2> HIDE DEF ts
  <2>3. /\ u.id \notin DOMAIN ts
        /\ IF hint.base \in DOMAIN ts THEN \E k \in Nat : u.id = Append(hint.base, ToString(k))
           ELSE u.id = hint.base
    BY <2>1, Fresh
  <2> HIDE DEF u
  <2>4. CASE hint.named
    BY <1>2, <2>1, <2>2, <2>3, <2>4, <2>t DEF NullNumeral
  <2>5. CASE ~hint.named
    BY <1>2, <2>1, <2>2, <2>3, <2>5, <2>t
  <2> QED BY <2>4, <2>5
<1> QED BY <1>1, <1>2

(* A type that is pushed adds its own id, an id inside it, or `null`. *)
LEMMA LiftedShape ==
  ASSUME NumeralsDiffer, NEW s, PoolOk(s.types, s.counter), NEW id \in Ids, NEW def, NEW nullable
  PROVE  LET l == Lifted(s, id, def, nullable) IN
         /\ Grows(s.types, l.types, id)
         /\ id \in DOMAIN l.types /\ DOMAIN s.types \subseteq DOMAIN l.types
<1> DEFINE l == Lifted(s, id, def, nullable)
<1>0. IsPrefix(id, id)
  BY IdPrefix
<1>1. CASE ~nullable
  <2>1. l.types = Put(s.types, id, def)
    BY <1>1 DEF Lifted
  <2> HIDE DEF l
  <2>2. DOMAIN l.types = DOMAIN s.types \union {id}
    BY <2>1 DEF Put
  <2> QED BY <1>0, <2>2 DEF Grows, l
<1>2. CASE nullable
  <2> DEFINE inner == Append(id, "nonnull")
             u == UniqueId(inner, s.types, s.counter)
             either == Put(Put(NoDefs, <<"nonnull">>, u.id), <<"null">>, NullId)
             whole == Def("union", def.schema, either)
  <2>1. l.types = Put(WithNull(Put(s.types, u.id, def)), id, whole)
    BY <1>2 DEF Lifted
  <2>2. inner \in Ids /\ IsPrefix(id, inner)
    <3>1. "nonnull" \in STRING \union Words /\ "nonnull" \in Words
      BY DEF Words
    <3> QED BY <3>1, IdsJoin, IdJoin
  <2> HIDE DEF inner, whole
  <2>3. IsPrefix(id, u.id)
    <3>1. u.id \in Ids /\ (u.id = inner \/ \E k \in Nat : u.id = Append(inner, ToString(k)))
      BY <2>2, Fresh
    <3> HIDE DEF u
    <3>2. IsPrefix(inner, u.id)
      BY <2>2, <3>1, Numbered
    <3> QED BY <2>2, <3>1, <3>2, IdPrefix, Zenon
  <2> HIDE DEF u
  <2>4. DOMAIN l.types = DOMAIN s.types \union {u.id, NullId, id}
    <3>1. DOMAIN Put(s.types, u.id, def) = DOMAIN s.types \union {u.id}
      BY DEF Put
    <3>2. DOMAIN WithNull(Put(s.types, u.id, def)) = DOMAIN s.types \union {u.id} \union {NullId}
      BY <3>1, WithNullHas
    <3>3. DOMAIN Put(WithNull(Put(s.types, u.id, def)), id, whole)
            = DOMAIN WithNull(Put(s.types, u.id, def)) \union {id}
      BY PutFacts
    <3> QED BY <2>1, <3>2, <3>3
  <2> HIDE DEF l
  <2>5. Grows(s.types, l.types, id)
    BY <1>0, <2>3, <2>4 DEF Grows
  <2> QED BY <2>4, <2>5 DEF l
<1> QED BY <1>1, <1>2

-----------------------------------------------------------------------------
(* The calls in progress and the pool, where names are apart. *)

(* The root q is held for the i-th call: by one of the calls around it,     *)
(* which walks what q is the name of.                                       *)
Held(c, i, q, ts) ==
  \/ q = <<"op">>
  \/ q = NullId /\ NullId \in DOMAIN ts
  \/ q # NullId /\ \E j \in 1..(i - 1) : Final(c[j].key) /\ BaseOf(q, c[j].key)
Rooted(c, i, id, ts) == \E q \in Roots : IsPrefix(q, id) /\ Held(c, i, q, ts)
Own(c, i, id, schema) ==
  i = 2 /\ c[1].key = <<Main, id>> /\ Has(Main, id) /\ schema = Schema(Main, id)
Settled(x, k, ts) == BaseOf(x, k) \/ (NullNumeral(x) /\ x \in DOMAIN ts)

(* The type that the i-th call is building.  Its id is not taken, but by a  *)
(* component's earlier walk, and no call around it is building something    *)
(* whose id begins with it.                                                 *)
BuildOk(c, i, id, schema, ts) ==
  /\ Rooted(c, i, id, ts)
  /\ id \notin DOMAIN ts \/ Own(c, i, id, schema)
  /\ \A j \in 1..(i - 1) : c[j].kind \in Composites => ~IsPrefix(id, c[j].id)
  /\ c[i - 1].kind = "ref" => id = c[i - 1].id \/ NullNumeral(id)
RefOk(c, i) ==
  /\ c[i].key \in Here /\ BaseOf(c[i].id, c[i].key)
  /\ c[i - 1].key # NoKey => Same(c[i - 1].key, c[i].key)
CallOk(c, i, ts) ==
  /\ c[i].id \in Ids /\ (c[i].key = NoKey \/ c[i].key \in Here)
  /\ c[i].kind = "root" /\ c[i].key # NoKey => c[i].key[1] = Main
  /\ c[i].kind = "ref" => RefOk(c, i)
  /\ c[i].kind \in Composites => BuildOk(c, i, c[i].id, c[i].schema, ts)

(* What is to be parsed, and for whom. *)
AtParse(h, a, ts) ==
  \/ h.kind = "ref" /\ a = [schema |-> At(h.key), hint |-> Named(h.id)] /\ h.id \notin DOMAIN ts
  \/ /\ h.kind = "root" /\ h.key = <<Main, a.hint.base>> /\ h.key # NoKey
     /\ a.schema = At(h.key) /\ a.hint.named
  \/ h.kind = "root" /\ h.key = NoKey /\ a.hint = Inline(<<"op">>, <<"request", "body">>)
  \/ /\ h.kind \in Composites /\ ~a.hint.named
     /\ IsPrefix(h.id, a.hint.base) /\ h.id # a.hint.base
AtReturn(h, r, ts) == h.kind = "ref" => r = NoId \/ Settled(r, h.key, ts)

CallsOk(s, ts) == \A i \in 1..Len(s) : CallOk(Calls(s), i, ts)
AllSettled(d, ts) == \A k \in DOMAIN d : Settled(d[k], k, ts)
RInv ==
  NamesApart =>
    /\ CallsOk(stack, types)
    /\ AllSettled(dedup, types)
    /\ pc = "parse" => AtParse(Head(stack), arg, types)
    /\ pc = "return" => AtReturn(Head(stack), ret, types)

(* All of this is about one description. *)
LEMMA RInvNext ==
  ASSUME spec' = spec,
         NamesApart => /\ CallsOk(stack', types')
                       /\ AllSettled(dedup', types')
                       /\ pc' = "parse" => AtParse(Head(stack'), arg', types')
                       /\ pc' = "return" => AtReturn(Head(stack'), ret', types')
  PROVE  RInv'
<1>1. /\ NamesApart' <=> NamesApart
      /\ \A d, n : Has(d, n)' <=> Has(d, n)
      /\ \A d, n : Schema(d, n)' = Schema(d, n)
      /\ Here' = Here
  BY DEF NamesApart, Names, Has, Schema, Here
<1>2. /\ \A k : IsNamed(k)' <=> IsNamed(k)
      /\ \A k : At(k)' = At(k)
  BY <1>1 DEF IsNamed, At
<1>3. /\ \A k : IsLink(k)' <=> IsLink(k)
      /\ \A k : Final(k)' <=> Final(k)
      /\ \A k : Base(k)' = Base(k)
      /\ \A k : Target(k)' = Target(k)
  BY <1>2 DEF IsLink, Final, Base, Target, Prefix
<1>4. Keys' = Keys /\ Roots' = Roots
  BY <1>1, <1>3 DEF Keys, Roots
<1>5. \A C : Closed(C)' <=> Closed(C)
  BY <1>3, <1>4 DEF Closed
<1>6. \A k, l : Same(k, l)' <=> Same(k, l)
  BY <1>4, <1>5 DEF Same
<1>7. \A q, k : BaseOf(q, k)' <=> BaseOf(q, k)
  BY <1>1, <1>3, <1>6 DEF BaseOf
<1>8. /\ \A c, i, q, ts : Held(c, i, q, ts)' <=> Held(c, i, q, ts)
      /\ \A c, i, id, s : Own(c, i, id, s)' <=> Own(c, i, id, s)
      /\ \A x, k, ts : Settled(x, k, ts)' <=> Settled(x, k, ts)
      /\ \A c, i : RefOk(c, i)' <=> RefOk(c, i)
      /\ \A h, a, ts : AtParse(h, a, ts)' <=> AtParse(h, a, ts)
  BY <1>1, <1>2, <1>3, <1>6, <1>7 DEF Held, Own, Settled, RefOk, AtParse
<1>9. \A c, i, id, ts : Rooted(c, i, id, ts)' <=> Rooted(c, i, id, ts)
  BY <1>4, <1>8 DEF Rooted
<1>10. /\ \A c, i, id, s, ts : BuildOk(c, i, id, s, ts)' <=> BuildOk(c, i, id, s, ts)
       /\ \A h, r, ts : AtReturn(h, r, ts)' <=> AtReturn(h, r, ts)
  BY <1>8, <1>9 DEF BuildOk, AtReturn
<1>11. \A c, i, ts : CallOk(c, i, ts)' <=> CallOk(c, i, ts)
  BY <1>1, <1>8, <1>10 DEF CallOk
<1>12. /\ \A s, ts : CallsOk(s, ts)' <=> CallsOk(s, ts)
       /\ \A d, ts : AllSettled(d, ts)' <=> AllSettled(d, ts)
  BY <1>8, <1>11 DEF CallsOk, AllSettled
<1>13. /\ CallsOk(stack, types)' <=> CallsOk(stack', types')
       /\ AllSettled(dedup, types)' <=> AllSettled(dedup', types')
       /\ AtParse(Head(stack), arg, types)' <=> AtParse(Head(stack'), arg', types')
       /\ AtReturn(Head(stack), ret, types)' <=> AtReturn(Head(stack'), ret', types')
  BY <1>8, <1>10, <1>12
<1> QED BY <1>1, <1>13 DEF RInv

(* The schema of the component of a name. *)
LEMMA SchemaIs ==
  ASSUME spec \in Specs, NEW d \in DOMAIN spec.docs, NEW i \in DOMAIN spec.docs[d]
  PROVE  /\ Has(d, spec.docs[d][i].name)
         /\ Schema(d, spec.docs[d][i].name) = spec.docs[d][i].schema
         /\ <<d, spec.docs[d][i].name>> \in Here
<1> DEFINE n == spec.docs[d][i].name
<1>1. Has(d, n)
  BY DEF Has
<1>2. PICK j \in DOMAIN spec.docs[d] : spec.docs[d][j].name = n /\ spec.docs[d][j].schema = Schema(d, n)
  BY <1>1, HasFacts
<1>3. j = i
  BY <1>2, SpecsAssumption
<1> QED BY <1>1, <1>2, <1>3, NamedHere

(* What a component claims is what it refers to. *)
LEMMA ClaimsSettled ==
  ASSUME spec \in Specs
  PROVE  \A k \in DOMAIN Claims(spec) : BaseOf(Claims(spec)[k], k)
<1> DEFINE main == spec.docs[Main]
           claims(i) == main[i].schema.kind = "ref" /\ main[i].schema.file \in DOMAIN spec.docs
           key(i) == <<main[i].schema.file, main[i].schema.target>>
           claimed == {i \in DOMAIN main : claims(i)}
           first(k) == Min({i \in claimed : key(i) = k})
<1>1. Claims(spec) = [k \in {key(i) : i \in claimed} |-> main[first(k)].name]
  BY DEF Claims
<1> SUFFICES ASSUME NEW k \in {key(i) : i \in claimed} PROVE BaseOf(main[first(k)].name, k)
  BY <1>1
<1>2. Main \in DOMAIN spec.docs /\ DOMAIN main \subseteq Nat
  BY SpecFacts
<1>3. first(k) \in {i \in claimed : key(i) = k}
  <2> DEFINE S == {i \in claimed : key(i) = k}
  <2>1. S # {} /\ S \subseteq Nat
    BY <1>2
  <2> HIDE DEF S
  <2> QED BY <2>1, MinIn DEF S
<1>4. PICK i \in DOMAIN main : claims(i) /\ key(i) = k /\ main[first(k)] = main[i]
  BY <1>3
<1> DEFINE l == <<Main, main[i].name>>
<1>5. l \in Here /\ At(l) = main[i].schema /\ IsNamed(l)
  BY <1>2, SchemaIs, NamedHere DEF At
<1>6. main[i].schema.file # ""
  BY <1>4, FilesAssumption, Zenon
<1>7. Target(l) = k
  BY <1>4, <1>5, <1>6, Zenon DEF Target
<1>8. Same(l, k)
  BY <1>4, <1>5, <1>7, SameTarget DEF IsLink
<1>9. Base(l) = main[i].name
  <2> DEFINE P == STRING \union Words \union {ToString(j) : j \in Nat}
             n == main[i].name
  <2>1. n \in Seq(P)
    BY <1>2, SpecFacts DEF Ids
  <2> HIDE DEF P, n
  <2>2. <<>> \o n = n
    BY <2>1
  <2>3. Prefix(Main) = <<>>
    BY Zenon DEF Prefix
  <2> QED BY <2>2, <2>3 DEF Base, n
<1> QED BY <1>4, <1>5, <1>8, <1>9, SameIs DEF BaseOf

LEMMA InitRInv ==
  ASSUME Init
  PROVE  RInv
<1>1. spec \in Specs /\ dedup = Claims(spec) /\ stack = <<>> /\ pc = "root"
  BY DEF Init
<1>2. CallsOk(stack, types)
  BY <1>1 DEF CallsOk
<1>3. AllSettled(dedup, types)
  BY <1>1, ClaimsSettled DEF AllSettled, Settled
<1> QED BY <1>1, <1>2, <1>3 DEF RInv

LEMMA CallOkOn ==
  ASSUME NEW c, NEW d, NEW ts, NEW i \in Nat \ {0}, \A k \in 1..i : c[k] = d[k],
         c[i].kind = "root" <=> i = 1, CallOk(c, i, ts)
  PROVE  CallOk(d, i, ts)
<1>1. c[i] = d[i] /\ \A k \in 1..(i - 1) : c[k] = d[k]
  OBVIOUS
<1>2. CASE i = 1
  <2>1. d[1].kind = "root"
    BY <1>1, <1>2
  <2> QED BY <1>1, <1>2, <2>1 DEF CallOk, Composites
<1>3. CASE i # 1
  <2>1. c[i - 1] = d[i - 1] /\ c[1] = d[1]
    <3>1. i - 1 \in 1..(i - 1) /\ 1 \in 1..(i - 1)
      BY <1>3
    <3> QED BY <1>1, <3>1
  <2>2. \A q : Held(c, i, q, ts) => Held(d, i, q, ts)
    BY <1>1 DEF Held
  <2>3. \A id, schema : BuildOk(c, i, id, schema, ts) => BuildOk(d, i, id, schema, ts)
    BY <1>1, <2>1, <2>2, Zenon DEF BuildOk, Rooted, Own
  <2>4. RefOk(c, i) => RefOk(d, i)
    BY <1>1, <2>1 DEF RefOk
  <2> QED BY <1>1, <2>3, <2>4 DEF CallOk
<1> QED BY <1>2, <1>3

(* Calls do not mind types that begin with an id of none of theirs. *)
LEMMA StillOk ==
  ASSUME spec \in Specs, NamesApart, NEW c, NEW i, NEW ts, NEW new, NEW b,
         CallOk(c, i, ts), Grows(ts, new, b), c[i].kind \in Composites => ~IsPrefix(b, c[i].id)
  PROVE  CallOk(c, i, new)
<1>0. /\ \A q \in Roots : IsPrefix(q, NullId) => q = NullId
      /\ NullId # <<"op">>
  <2>1. NullId \in Roots /\ NullId # <<"op">>
    BY DEF Roots, NullId
  <2> QED BY <2>1, RootsApart
<1>1. \A q : Held(c, i, q, ts) => Held(c, i, q, new)
  BY DEF Held, Grows
<1>2. ASSUME BuildOk(c, i, c[i].id, c[i].schema, ts), c[i].kind \in Composites
      PROVE  BuildOk(c, i, c[i].id, c[i].schema, new)
  <2>1. Rooted(c, i, c[i].id, new)
    BY <1>1, <1>2 DEF BuildOk, Rooted
  <2>2. ASSUME c[i].id \in DOMAIN new PROVE c[i].id \in DOMAIN ts
    <3> SUFFICES ASSUME c[i].id \notin DOMAIN ts PROVE FALSE
      OBVIOUS
    <3>1. c[i].id = NullId
      BY <1>2, <2>2 DEF Grows
    <3>2. Held(c, i, NullId, ts)
      BY <1>0, <1>2, <3>1 DEF BuildOk, Rooted
    <3> QED BY <1>0, <3>1, <3>2 DEF Held
  <2> QED BY <1>2, <2>1, <2>2 DEF BuildOk
<1> QED BY <1>2 DEF CallOk

(* The innermost call. *)
LEMMA HeadCall ==
  ASSUME IInv, stack # <<>>
  PROVE  /\ stack \in Seq(Range(stack)) /\ Len(stack) \in Nat \ {0}
         /\ Calls(stack)[Len(stack)] = Call(Head(stack))
         /\ \A i \in 1..Len(stack) : /\ Calls(stack)[i].kind = "root" <=> i = 1
                                     /\ Calls(stack)[i].kind \in Composites => Calls(stack)[i].key = NoKey
                                     /\ Calls(stack)[i].key = NoKey \/ Calls(stack)[i].key \in walking
         /\ \A i, j \in 1..Len(stack) : i # j /\ Calls(stack)[i].key # NoKey
                                          => Calls(stack)[i].key # Calls(stack)[j].key
<1>1. Consistent(stack, current, walking) /\ stack \in Seq(Range(stack))
  BY DEF IInv, Consistent, WellFormed
<1>2. Len(stack) \in Nat \ {0} /\ Calls(stack)[Len(stack)] = Call(Head(stack))
  BY <1>1, CallsPop
<1> QED BY <1>1, <1>2, CallsAre

(* The roots of the types in the making are those of other schemas than the *)
(* ones whose walk begins: a root is held by the walk of what it names, and *)
(* no schema is walked inside itself.                                       *)
LEMMA RootIsFree ==
  ASSUME spec \in Specs, NamesApart, NEW c, NEW n \in Nat, NEW k, NEW q, NEW ts,
         k \in Here, Final(k), BaseOf(q, k), q # NullId \/ NullId \notin DOMAIN ts,
         \A i \in 1..n : CallOk(c, i, ts),
         NEW m \in Nat, m <= n, \A i \in 1..m : c[i].key # k,
         NEW i \in 1..m, c[i].kind \in Composites
  PROVE  ~IsPrefix(q, c[i].id)
<1> SUFFICES ASSUME IsPrefix(q, c[i].id) PROVE FALSE
  OBVIOUS
<1>0. /\ Roots \subseteq Ids /\ \A p, r \in Roots : IsPrefix(p, r) => p = r
      /\ \A j, l \in Here : Base(j) = Base(l) => j = l
      /\ \A j \in Here : Base(j) # <<"op">>
  BY RootsApart
<1>1. PICK l \in Here : Same(k, l) /\ q = Base(l)
  BY DEF BaseOf
<1>2. q \in Roots /\ q \in Ids /\ q # <<"op">>
  BY <1>0, <1>1 DEF Roots
<1>3. i \in 1..n /\ CallOk(c, i, ts) /\ c[i].id \in Ids /\ Rooted(c, i, c[i].id, ts)
  BY DEF CallOk, BuildOk
<1>4. PICK p \in Roots : IsPrefix(p, c[i].id) /\ Held(c, i, p, ts)
  BY <1>3 DEF Rooted
<1>5. p = q
  <2>1. IsPrefix(p, q) \/ IsPrefix(q, p)
    BY <1>0, <1>2, <1>3, <1>4, IdPrefix
  <2> QED BY <1>0, <1>2, <2>1
<1>6. PICK j \in 1..(i - 1) : Final(c[j].key) /\ BaseOf(q, c[j].key)
  BY <1>2, <1>4, <1>5 DEF Held
<1>7. c[j].key \in Here /\ c[j].key # k
  <2>1. j \in 1..n /\ j \in 1..m
    OBVIOUS
  <2> QED BY <1>6, <2>1 DEF CallOk, Final, IsNamed
<1>8. PICK o \in Here : Same(c[j].key, o) /\ q = Base(o)
  BY <1>6 DEF BaseOf
<1>9. o = l /\ Same(c[j].key, k)
  <2>1. o = l
    BY <1>0, <1>1, <1>8
  <2> QED BY <1>1, <1>8, <2>1, SameIs
<1> QED BY <1>6, <1>7, <1>9, FinalIsOne

LEMMA HeldUp ==
  ASSUME NEW c, NEW n \in Nat, NEW q, NEW ts, Held(c, n, q, ts)
  PROVE  Held(c, n + 1, q, ts)
<1>1. \A j \in 1..(n - 1) : j \in 1..(n + 1 - 1)
  OBVIOUS
<1> QED BY <1>1 DEF Held

LEMMA BuildIs ==
  ASSUME NEW c, NEW n \in Nat, NEW id, NEW schema, NEW ts,
         Rooted(c, n + 1, id, ts), id \notin DOMAIN ts \/ Own(c, n + 1, id, schema),
         \A j \in 1..n : c[j].kind \in Composites => ~IsPrefix(id, c[j].id),
         c[n].kind = "ref" => id = c[n].id \/ NullNumeral(id)
  PROVE  BuildOk(c, n + 1, id, schema, ts)
<1> DEFINE m == n + 1
<1>1. m - 1 = n
  OBVIOUS
<1>2. Rooted(c, m, id, ts) /\ (id \notin DOMAIN ts \/ Own(c, m, id, schema))
  OBVIOUS
<1> HIDE DEF m
<1>3. BuildOk(c, m, id, schema, ts)
  BY <1>1, <1>2 DEF BuildOk
<1> QED BY <1>3 DEF m

(* The type that a parse of anything but a reference builds. *)
LEMMA NewBuild ==
  ASSUME NumeralsDiffer, IInv, TInv, RInv, NamesApart, pc = "parse", arg.schema.kind # "ref"
  PROVE  LET a == Alloc(arg.hint)
             n == Len(stack)
             c == Calls(stack)
         IN /\ a.id \in Ids /\ PoolOk(a.types, a.counter)
            /\ Keeps(types, a.types, {}) /\ Grows(types, a.types, a.id)
            /\ BuildOk(c, n + 1, a.id, arg.schema, a.types)
            /\ \A i \in 1..n : c[i].kind \in Composites => ~IsPrefix(a.id, c[i].id)
<1> DEFINE a == Alloc(arg.hint)
           n == Len(stack)
           c == Calls(stack)
           h == Head(stack)
           base == arg.hint.base
<1>1. /\ spec \in Specs /\ PoolOk(types, counter) /\ base \in Ids /\ stack # <<>>
  BY DEF TInv, IInv
<1>2. /\ n \in Nat \ {0} /\ c[n] = Call(h)
      /\ \A i \in 1..n : /\ c[i].kind = "root" <=> i = 1
                         /\ c[i].kind \in Composites => c[i].key = NoKey
      /\ \A i, j \in 1..n : i # j /\ c[i].key # NoKey => c[i].key # c[j].key
  BY <1>1, HeadCall
<1>3. /\ a.id \in Ids /\ PoolOk(a.types, a.counter) /\ Keeps(types, a.types, {})
  BY <1>1, AllocFacts
<1>4. /\ arg.hint.named /\ base # NullId => a.id = base /\ a.types = types
      /\ arg.hint.named /\ base = NullId =>
           a.types = WithNull(types) /\ NullNumeral(a.id) /\ a.id \notin DOMAIN types
      /\ ~arg.hint.named =>
           /\ a.types = types /\ a.id \notin DOMAIN types
           /\ a.id = base \/ \E k \in Nat : a.id = Append(base, ToString(k))
  BY <1>1, AllocShape
<1> HIDE DEF a
<1>5. /\ \A i \in 1..n : CallOk(c, i, types)
      /\ AtParse(h, arg, types)
  BY DEF RInv, CallsOk
<1>6. h.kind = c[n].kind /\ h.id = c[n].id /\ h.key = c[n].key /\ n \in 1..n /\ CallOk(c, n, types)
  <2>1. n \in 1..n
    BY <1>2
  <2> QED BY <1>2, <1>5, <2>1 DEF Call
<1> HIDE DEF c, n, h
<1>7. NullId \in Ids /\ \A x \in Ids : NullNumeral(x) => IsPrefix(NullId, x)
  <2>1. NullId \in Ids
    BY IdsJoin DEF NullId, Words
  <2> QED BY <2>1, IdJoin DEF NullNumeral
<1>8. Grows(types, a.types, a.id)
  BY <1>4, WithNullHas DEF Grows
<1>9. n + 1 - 1 = n /\ 1..(n + 1 - 1) = 1..n /\ n + 1 # 1 /\ (n + 1 = 2 <=> n = 1)
  BY <1>2
(* A name, wherever it comes from. *)
<1>10. ASSUME NEW k \in Here, Final(k), BaseOf(base, k), base # NullId \/ NullId \notin DOMAIN types,
              k = c[n].key, c[n].kind \notin Composites, arg.hint.named
       PROVE  /\ Rooted(c, n + 1, a.id, a.types)
              /\ \A i \in 1..n : c[i].kind \in Composites => ~IsPrefix(a.id, c[i].id)
  <2>1. \A i \in 1..(n - 1) : c[i].kind \in Composites => ~IsPrefix(base, c[i].id)
    <3>1. n - 1 \in Nat /\ n - 1 <= n /\ \A i \in 1..(n - 1) : i \in 1..n /\ i # n
      BY <1>2
    <3>2. k # NoKey
      BY <1>10 DEF Final, IsNamed
    <3>3. \A i \in 1..(n - 1) : c[i].key # k
      BY <1>2, <1>6, <1>10, <3>1, <3>2
    <3> SUFFICES ASSUME NEW i \in 1..(n - 1), c[i].kind \in Composites PROVE ~IsPrefix(base, c[i].id)
      OBVIOUS
    <3>4. n \in Nat /\ n - 1 \in Nat /\ n - 1 <= n
      BY <1>2
    <3> HIDE DEF base
    <3> QED BY <1>1, <1>5, <1>10, <3>3, <3>4, RootIsFree
  <2>2. \A i \in 1..n : c[i].kind \in Composites => i \in 1..(n - 1)
    BY <1>2, <1>10
  <2>3. IsPrefix(base, a.id)
    BY <1>1, <1>3, <1>4, <1>7, <1>10, IdPrefix
  <2>4. \A i \in 1..n : c[i].kind \in Composites => ~IsPrefix(a.id, c[i].id)
    <3>1. \A i \in 1..n : c[i].id \in Ids
      BY <1>5 DEF CallOk
    <3> QED BY <1>1, <1>3, <2>1, <2>2, <2>3, <3>1, IdPrefix
  <2>5. base \in Roots
    BY <1>10 DEF BaseOf, Roots
  <2>6. CASE base # NullId
    <3>1. Held(c, n + 1, base, a.types)
      BY <1>6, <1>9, <1>10, <2>6 DEF Held
    <3> QED BY <2>3, <2>4, <2>5, <3>1 DEF Rooted
  <2>7. CASE base = NullId
    <3>1. NullId \in DOMAIN a.types
      BY <1>4, <1>10, <2>7, WithNullHas
    <3>2. Held(c, n + 1, base, a.types)
      BY <2>7, <3>1 DEF Held
    <3> QED BY <2>3, <2>4, <2>5, <3>2 DEF Rooted
  <2> QED BY <2>6, <2>7
<1>11. CASE h.kind = "ref" /\ arg = [schema |-> At(h.key), hint |-> Named(h.id)] /\ h.id \notin DOMAIN types
  <2>1. arg.hint.named /\ base = h.id /\ arg.schema = At(h.key)
    BY <1>11 DEF Named
  <2>2. h.key \in Here /\ BaseOf(h.id, h.key) /\ Final(h.key)
    <3>1. h.key \in Here /\ BaseOf(h.id, h.key)
      BY <1>6, <1>11 DEF CallOk, RefOk
    <3> QED BY <2>1, <3>1, NamedHere DEF Final
  <2>3. h.kind \notin Composites
    BY <1>11 DEF Composites
  <2>4. /\ Rooted(c, n + 1, a.id, a.types)
        /\ \A i \in 1..n : c[i].kind \in Composites => ~IsPrefix(a.id, c[i].id)
    BY <1>6, <1>10, <1>11, <2>1, <2>2, <2>3
  <2>5. a.id \notin DOMAIN a.types /\ (a.id = h.id \/ NullNumeral(a.id))
    <3>1. CASE base # NullId
      BY <1>4, <1>11, <2>1, <3>1
    <3>2. CASE base = NullId
      <4>1. a.id # NullId
        BY <1>4, <1>7, <2>1, <3>2, IdJoin DEF NullNumeral
      <4> QED BY <1>4, <2>1, <3>2, <4>1, WithNullHas
    <3> QED BY <3>1, <3>2
  <2>6. BuildOk(c, n + 1, a.id, arg.schema, a.types)
    BY <1>2, <1>6, <2>4, <2>5, BuildIs
  <2> QED BY <1>3, <1>8, <2>4, <2>6 DEF a, c, n
<1>12. CASE /\ h.kind = "root" /\ h.key = <<Main, base>> /\ h.key # NoKey
            /\ arg.schema = At(h.key) /\ arg.hint.named
  <2>1. n = 1 /\ \A i \in 1..n : i = n
    <3>1. n = 1
      BY <1>2, <1>6, <1>12
    <3> QED BY ONLY <3>1
  <2>k. c[n].kind = "root" /\ c[n].kind # "ref" /\ c[n].kind \notin Composites
    BY <1>6, <1>12 DEF Composites
  <2>2. h.key \in Here /\ Final(h.key) /\ Has(Main, base) /\ arg.schema = Schema(Main, base)
    <3>1. h.key \in Here
      BY <1>6, <1>12 DEF CallOk
    <3>2. IsNamed(h.key) /\ h.key[1] = Main /\ h.key[2] = base
      BY <1>12, <3>1, NamedHere
    <3> QED BY <1>12, <3>1, <3>2 DEF Final, IsNamed, At
  <2>3. BaseOf(base, h.key)
    <3>1. Base(h.key) = <<>> \o base
      BY <1>12 DEF Base, Prefix
    <3>2. <<>> \o base = base
      <4> DEFINE P == STRING \union Words \union {ToString(j) : j \in Nat}
      <4>1. base \in Seq(P)
        BY <1>1 DEF Ids
      <4> HIDE DEF P, base
      <4> QED BY <4>1
    <3> QED BY <2>2, <3>1, <3>2, SameIs DEF BaseOf
  <2>4. \A i \in 1..n : c[i].kind \notin Composites
    BY <2>1, <2>k
  <2>5. Rooted(c, n + 1, a.id, a.types)
    <3>1. CASE base # NullId \/ NullId \notin DOMAIN types
      <4>1. /\ h.key \in Here /\ Final(h.key) /\ BaseOf(base, h.key) /\ arg.hint.named
            /\ h.key = c[n].key /\ c[n].kind \notin Composites
        BY <1>6, <1>12, <2>k, <2>2, <2>3
      <4> HIDE DEF base
      <4> QED BY <1>10, <3>1, <4>1
    <3>2. CASE base = NullId
      <4>1. NullId \in DOMAIN a.types /\ IsPrefix(NullId, a.id) /\ NullId \in Roots
        <5>1. a.types = WithNull(types) /\ NullNumeral(a.id)
          BY <1>4, <1>12, <3>2
        <5>2. IsPrefix(NullId, a.id)
          BY <1>3, <1>7, <5>1
        <5>3. NullId \in DOMAIN a.types
          BY <5>1, WithNullHas
        <5> QED BY <5>2, <5>3 DEF Roots
      <4> QED BY <4>1 DEF Rooted, Held
    <3> QED BY <3>1, <3>2
  <2>6. a.id \notin DOMAIN a.types \/ Own(c, n + 1, a.id, arg.schema)
    <3>1. CASE base # NullId
      <4>1. a.id = base
        BY <1>4, <1>12, <3>1
      <4> QED BY <1>6, <1>9, <1>12, <2>1, <2>2, <4>1 DEF Own
    <3>2. CASE base = NullId
      <4>1. a.types = WithNull(types) /\ a.id \notin DOMAIN types /\ NullNumeral(a.id)
        BY <1>4, <1>12, <3>2
      <4>2. a.id # NullId
        BY <1>7, <4>1, IdJoin DEF NullNumeral
      <4>3. DOMAIN a.types = DOMAIN types \union {NullId}
        BY <4>1, WithNullHas
      <4> QED BY <4>1, <4>2, <4>3
    <3> QED BY <3>1, <3>2
  <2>7. BuildOk(c, n + 1, a.id, arg.schema, a.types)
    BY <1>2, <2>k, <2>4, <2>5, <2>6, BuildIs
  <2> QED BY <1>3, <1>8, <2>4, <2>7 DEF a, c, n
<1>13. ASSUME ~arg.hint.named PROVE a.types = types /\ a.id \notin DOMAIN types /\ IsPrefix(base, a.id)
  <2>1. a.types = types /\ a.id \notin DOMAIN types
    BY <1>4, <1>13
  <2>2. a.id = base \/ \E k \in Nat : a.id = Append(base, ToString(k))
    BY <1>4, <1>13
  <2>3. IsPrefix(base, a.id)
    <3> DEFINE x == a.id
    <3>1. base \in Ids /\ (x = base \/ \E k \in Nat : x = Append(base, ToString(k)))
      BY <1>1, <2>2
    <3> HIDE DEF x, base
    <3>2. IsPrefix(base, x)
      BY <3>1, Numbered
    <3> QED BY <3>2 DEF x, base
  <2> QED BY <2>1, <2>3
<1>14. CASE h.kind = "root" /\ h.key = NoKey /\ arg.hint = Inline(<<"op">>, <<"request", "body">>)
  <2>0. ~arg.hint.named
    BY <1>14 DEF Inline
  <2>1. n = 1 /\ \A i \in 1..n : i = n
    <3>1. n = 1
      BY <1>2, <1>6, <1>14
    <3> QED BY ONLY <3>1
  <2>k. c[n].kind = "root" /\ c[n].kind # "ref" /\ c[n].kind \notin Composites
    BY <1>6, <1>14 DEF Composites
  <2>2. \A i \in 1..n : c[i].kind \notin Composites
    BY <2>1, <2>k
  <2>3. <<"op">> \in Ids /\ <<"op">> \in Roots /\ IsPrefix(<<"op">>, a.id)
    <3>1. <<"op">> \in Ids /\ <<"request", "body">> \in Ids
      BY IdsJoin DEF Words
    <3>2. IsPrefix(<<"op">>, base)
      BY <1>14, <3>1, IdJoin DEF Inline
    <3> QED BY <1>1, <1>3, <1>13, <2>0, <3>1, <3>2, IdPrefix DEF Roots
  <2>4. Rooted(c, n + 1, a.id, a.types)
    BY <2>3 DEF Rooted, Held
  <2>5. BuildOk(c, n + 1, a.id, arg.schema, a.types)
    BY <1>2, <1>13, <2>0, <2>k, <2>2, <2>4, BuildIs
  <2> QED BY <1>3, <1>8, <2>2, <2>5 DEF a, c, n
<1>15. CASE /\ h.kind \in Composites /\ ~arg.hint.named
            /\ IsPrefix(h.id, base) /\ h.id # base
  <2>1. BuildOk(c, n, h.id, c[n].schema, types) /\ h.id \in Ids
    BY <1>6, <1>15 DEF CallOk
  <2>2. IsPrefix(h.id, a.id) /\ ~IsPrefix(a.id, h.id)
    <3>1. IsPrefix(h.id, a.id)
      BY <1>1, <1>3, <1>13, <1>15, <2>1, IdPrefix
    <3>2. IsPrefix(a.id, h.id) => IsPrefix(base, h.id)
      BY <1>1, <1>3, <1>13, <1>15, <2>1, IdPrefix
    <3> QED BY <1>1, <1>15, <2>1, <3>1, <3>2, IdPrefix
  <2>3. \A i \in 1..n : c[i].kind \in Composites => ~IsPrefix(a.id, c[i].id)
    <3> SUFFICES ASSUME NEW i \in 1..n, c[i].kind \in Composites, IsPrefix(a.id, c[i].id) PROVE FALSE
      OBVIOUS
    <3>1. i # n
      BY <1>6, <2>2
    <3>2. i \in 1..(n - 1)
      BY <1>2, <3>1
    <3>3. c[i].id \in Ids
      BY <1>5 DEF CallOk
    <3>4. IsPrefix(h.id, c[i].id)
      BY <1>3, <2>1, <2>2, <3>3, IdPrefix
    <3> QED BY <2>1, <3>2, <3>4 DEF BuildOk
  <2>4. Rooted(c, n + 1, a.id, a.types)
    <3>1. PICK q \in Roots : IsPrefix(q, h.id) /\ Held(c, n, q, types)
      BY <2>1 DEF BuildOk, Rooted
    <3>2. IsPrefix(q, a.id)
      BY <1>1, <1>3, <2>1, <2>2, <3>1, RootsApart, IdPrefix
    <3>3. Held(c, n + 1, q, a.types)
      <4>1. a.types = types
        BY <1>13, <1>15, Zenon
      <4>2. Held(c, n + 1, q, types) /\ n \in Nat
        BY <1>2, <3>1, HeldUp
      <4> QED BY <4>1, <4>2, Zenon
    <3> QED BY <3>2, <3>3 DEF Rooted
  <2>5. c[n].kind # "ref"
    BY <1>6, <1>15 DEF Composites
  <2>6. BuildOk(c, n + 1, a.id, arg.schema, a.types)
    BY <1>2, <1>13, <1>15, <2>3, <2>4, <2>5, BuildIs
  <2> QED BY <1>3, <1>8, <2>3, <2>6 DEF a, c, n
<1> QED BY <1>5, <1>11, <1>12, <1>14, <1>15 DEF AtParse

-----------------------------------------------------------------------------
(* The steps.  What the next state owes to the invariant, about the same    *)
(* description.                                                             *)
RNext ==
  /\ CallsOk(stack', types')
  /\ AllSettled(dedup', types')
  /\ pc' = "parse" => AtParse(Head(stack'), arg', types')
  /\ pc' = "return" => AtReturn(Head(stack'), ret', types')

LEMMA NameBase ==
  ASSUME NEW n \in Ids
  PROVE  Base(<<Main, n>>) = n
<1> DEFINE P == STRING \union Words \union {ToString(j) : j \in Nat}
<1>1. n \in Seq(P)
  BY DEF Ids
<1> HIDE DEF P
<1>2. <<>> \o n = n
  BY <1>1
<1>3. Prefix(Main) = <<>>
  BY Zenon DEF Prefix
<1> QED BY <1>2, <1>3 DEF Base

LEMMA BaseHere ==
  ASSUME NEW k \in Here
  PROVE  BaseOf(Base(k), k)
BY SameIs DEF BaseOf

LEMMA BaseSame ==
  ASSUME NEW k, NEW l, Same(k, l)
  PROVE  /\ \A q : BaseOf(q, k) => BaseOf(q, l)
         /\ \A x, ts : Settled(x, k, ts) => Settled(x, l, ts)
<1>1. ASSUME NEW q, BaseOf(q, k) PROVE BaseOf(q, l)
  BY <1>1, SameIs DEF BaseOf
<1> QED BY <1>1 DEF Settled

LEMMA SettledUp ==
  ASSUME NEW d, NEW old, NEW new, AllSettled(d, old),
         \A x \in DOMAIN old : NullNumeral(x) => x \in DOMAIN new
  PROVE  AllSettled(d, new)
BY DEF AllSettled, Settled

LEMMA GrowsOn ==
  ASSUME NEW f, NEW g, NEW h, NEW b, Grows(f, g, b), Grows(g, h, b)
  PROVE  Grows(f, h, b)
BY DEF Grows

(* `null` and the ids numbered after it are no inline parts of an allOf. *)
LEMMA NullIsNoPart ==
  /\ ~PartName(NullId)
  /\ \A x : NullNumeral(x) => ~PartName(x)
<1>1. ~PartName(NullId)
  <2>1. DOMAIN NullId = {1}
    BY DEF NullId
  <2> QED BY <2>1 DEF PartName, IsPart
<1>2. ASSUME NEW x, NullNumeral(x) PROVE ~PartName(x)
  <2>1. PICK w : x = Append(NullId, w)
    BY <1>2 DEF NullNumeral
  <2>2. DOMAIN x = {1, 2}
    BY <2>1 DEF NullId
  <2> QED BY <2>2 DEF PartName, IsPart
<1> QED BY <1>1, <1>2

LEMMA BuildOkOn ==
  ASSUME NEW c, NEW d, NEW ts, NEW i \in Nat \ {0, 1}, \A k \in 1..(i - 1) : c[k] = d[k],
         NEW id, NEW schema, BuildOk(c, i, id, schema, ts)
  PROVE  BuildOk(d, i, id, schema, ts)
<1>1. c[i - 1] = d[i - 1] /\ c[1] = d[1]
  <2>1. i - 1 \in 1..(i - 1) /\ 1 \in 1..(i - 1)
    OBVIOUS
  <2> QED BY <2>1
<1>2. \A q : Held(c, i, q, ts) => Held(d, i, q, ts)
  BY DEF Held
<1> QED BY <1>1, <1>2, Zenon DEF BuildOk, Rooted, Own

(* A call is pushed, or popped. *)
LEMMA PushOk ==
  ASSUME IInv, NEW f, NEW ts, \A i \in 1..Len(stack) : CallOk(Calls(stack), i, ts),
         f.kind # "root", stack # <<>>,
         LET d == Calls(<<f>> \o stack)
             n == Len(stack) IN
         d[n + 1] = Call(f) /\ (\A k \in 1..n : d[k] = Calls(stack)[k]) => CallOk(d, n + 1, ts)
  PROVE  CallsOk(<<f>> \o stack, ts)
<1> DEFINE c == Calls(stack)
           d == Calls(<<f>> \o stack)
           n == Len(stack)
           m == Len(<<f>> \o stack)
<1>1. n \in Nat /\ m = n + 1 /\ d[m] = Call(f) /\ \A k \in 1..n : d[k] = c[k]
  BY HeadCall, CallsPush
<1>2. \A i \in 1..n : c[i].kind = "root" <=> i = 1
  BY HeadCall
<1>3. CallOk(d, n + 1, ts)
  BY <1>1
<1> HIDE DEF c, d, n, m
<1>4. ASSUME NEW i \in 1..n PROVE CallOk(d, i, ts)
  <2>1. i \in Nat \ {0} /\ \A k \in 1..i : c[k] = d[k]
    BY <1>1
  <2>2. CallOk(c, i, ts) /\ (c[i].kind = "root" <=> i = 1)
    BY <1>2 DEF c, n
  <2> QED BY <2>1, <2>2, CallOkOn
<1>5. \A i \in 1..m : CallOk(d, i, ts)
  BY <1>1, <1>3, <1>4
<1> QED BY <1>5 DEF CallsOk, d, m

LEMMA PopOk ==
  ASSUME IInv, stack # <<>>, NEW ts, \A i \in 1..(Len(stack) - 1) : CallOk(Calls(stack), i, ts)
  PROVE  CallsOk(Tail(stack), ts)
<1> DEFINE c == Calls(stack)
           d == Calls(Tail(stack))
           n == Len(stack)
           m == Len(Tail(stack))
<1>1. n \in Nat \ {0} /\ m = n - 1 /\ \A k \in 1..m : d[k] = c[k]
  BY HeadCall, CallsPop
<1>2. \A i \in 1..n : c[i].kind = "root" <=> i = 1
  BY HeadCall
<1>3. \A i \in 1..m : CallOk(c, i, ts)
  BY <1>1
<1> HIDE DEF c, d, n, m
<1>4. ASSUME NEW i \in 1..m PROVE CallOk(d, i, ts)
  <2>1. i \in Nat \ {0} /\ i \in 1..n /\ \A k \in 1..i : c[k] = d[k]
    BY <1>1
  <2>2. CallOk(c, i, ts) /\ (c[i].kind = "root" <=> i = 1)
    BY <1>2, <1>3, <2>1
  <2> QED BY <2>1, <2>2, CallOkOn
<1> QED BY <1>4 DEF CallsOk, d, m

(* A walk from outside any schema begins. *)
LEMMA RootStarts ==
  ASSUME RInv, NamesApart, UNCHANGED <<types, dedup>>, NEW s, NEW hint, NEW key,
         stack' = <<Frame("root", NoId, s, key)>>, pc' = "parse", arg' = [schema |-> s, hint |-> hint],
         \/ key \in Here /\ key[1] = Main /\ key = <<Main, hint.base>> /\ s = At(key) /\ hint.named
         \/ key = NoKey /\ hint = Inline(<<"op">>, <<"request", "body">>)
  PROVE  RNext
<1> DEFINE f == Frame("root", NoId, s, key)
           d == Calls(stack')
<1>1. f.kind = "root" /\ f.id = NoId /\ f.schema = s /\ f.key = key /\ Head(stack') = f /\ Len(stack') = 1
  BY DEF Frame
<1>2. d[1] = Call(f)
  BY <1>1 DEF Calls
<1>3. d[1].kind = "root" /\ d[1].id = NoId /\ d[1].key = key
  BY <1>1, <1>2 DEF Call
<1>4. NoId \in Ids
  BY IdsJoin DEF NoId
<1> HIDE DEF f, d
<1>5. CallOk(d, 1, types')
  BY <1>3, <1>4 DEF CallOk, Composites
<1>6. CallsOk(stack', types')
  BY <1>1, <1>5 DEF CallsOk, d
<1>7. AtParse(f, arg', types')
  <2>1. CASE key = NoKey
    BY <1>1, <2>1, NamedHere DEF AtParse, IsNamed
  <2>2. CASE key # NoKey
    BY <1>1, <2>2 DEF AtParse
  <2> QED BY <2>1, <2>2
<1>8. AllSettled(dedup', types')
  BY DEF RInv
<1> QED BY <1>1, <1>6, <1>7, <1>8 DEF RNext

LEMMA WalkComponentR ==
  ASSUME TInv, RInv, NamesApart, WalkComponent
  PROVE  RNext
<1> DEFINE c == spec.docs[Main][NextComponent]
           key == <<Main, c.name>>
<1>1. NextComponent \in DOMAIN spec.docs[Main] /\ Main \in DOMAIN spec.docs /\ spec \in Specs
  BY ChosenComponent, SpecFacts DEF WalkComponent, TInv
<1>2. key \in Here /\ c.schema = At(key)
  BY <1>1, SchemaIs DEF At
<1>3. /\ UNCHANGED <<types, dedup>> /\ stack' = <<Frame("root", NoId, c.schema, key)>>
      /\ pc' = "parse" /\ arg' = [schema |-> c.schema, hint |-> Named(c.name)]
  BY DEF WalkComponent, Parse, pool
<1>4. key[1] = Main /\ Named(c.name).named /\ Named(c.name).base = c.name
  BY DEF Named
<1> HIDE DEF c
<1> QED BY <1>2, <1>3, <1>4, RootStarts

LEMMA WalkUseR ==
  ASSUME RInv, NamesApart, WalkUse
  PROVE  RNext
<1> DEFINE s == spec.uses[used + 1]
<1>1. /\ UNCHANGED <<types, dedup>> /\ stack' = <<Frame("root", NoId, s, NoKey)>>
      /\ pc' = "parse" /\ arg' = [schema |-> s, hint |-> Inline(<<"op">>, <<"request", "body">>)]
  BY DEF WalkUse, Parse, pool, where
<1> HIDE DEF s
<1> QED BY <1>1, RootStarts

(* What leaves the calls and the pool alone. *)
LEMMA CallsStay ==
  ASSUME RInv, NamesApart, UNCHANGED <<types, dedup>>, Len(stack') = Len(stack), Calls(stack') = Calls(stack),
         pc' = "parse" => AtParse(Head(stack'), arg', types'),
         pc' = "return" => ret' = NoId \/ AtReturn(Head(stack'), ret', types')
  PROVE  RNext
BY DEF RNext, RInv, CallsOk, AtReturn

LEMMA NextSubR ==
  ASSUME IInv, TInv, RInv, NamesApart, NextSub
  PROVE  RNext
<1> DEFINE h == Head(stack)
           sub == h.schema.subs[h.next]
<1>1. /\ UNCHANGED <<types, dedup, stack>> /\ pc' = "parse" /\ pc = "subs"
      /\ h.next <= Len(h.schema.subs)
      /\ arg' = [schema |-> sub.schema, hint |-> Inline(h.id, sub.role)]
  BY DEF NextSub, Parse, where, roots, pool
<1>2. h.kind \in Composites /\ stack # <<>>
  BY <1>1 DEF IInv
<1>3. h.schema \in Schemas /\ h.id \in Ids /\ h.next \in Nat \ {0}
  BY <1>2, StackRange DEF TInv, FrameOk
<1> HIDE DEF h
<1>4. h.next \in DOMAIN h.schema.subs
  <2>1. Len(h.schema.subs) \in Nat /\ DOMAIN h.schema.subs = 1..Len(h.schema.subs)
    BY <1>3, SchemasAssumption
  <2> QED BY <1>1, <1>3, <2>1
<1>5. sub.role \in Seq(STRING) \ {<<>>}
  <2> DEFINE Sub == [role : Seq(STRING) \ {<<>>}, part : BOOLEAN, schema : Schemas]
             subs == h.schema.subs
  <2>1. subs \in Seq(Sub)
    BY <1>3, SchemasAssumption
  <2>2. \A x \in Sub : x.role \in Seq(STRING) \ {<<>>}
    OBVIOUS
  <2> HIDE DEF Sub, subs
  <2>3. \A i \in DOMAIN subs : subs[i] \in Sub
    BY <2>1
  <2> QED BY <1>4, <2>2, <2>3 DEF subs
<1>6. sub.role \in Ids
  BY <1>5, IdsJoin
<1> HIDE DEF sub
<1>7. IsPrefix(h.id, h.id \o sub.role) /\ h.id # h.id \o sub.role
  BY <1>3, <1>5, <1>6, IdJoin
<1>8. AtParse(h, arg', types')
  BY <1>1, <1>2, <1>7 DEF AtParse, Inline
<1> QED BY <1>1, <1>8, CallsStay DEF h

LEMMA SubReturnsR ==
  ASSUME IInv, RInv, NamesApart, SubReturns \/ PartReturns
  PROVE  RNext
<1> DEFINE h == Head(stack)
<1>1. /\ UNCHANGED <<types, dedup>> /\ pc' = "subs" /\ pc = "return" /\ stack # <<>>
      /\ \E f : stack' = <<f>> \o Tail(stack) /\ Call(f) = Call(h)
  <2>1. CASE SubReturns
    <3> DEFINE f == IF ret = NoId THEN Advanced(h)
                    ELSE [Advanced(h) EXCEPT !.props = Put(@, h.schema.subs[h.next].role, ret)]
    <3>1. /\ UNCHANGED <<types, dedup>> /\ pc' = "subs" /\ pc = "return"
          /\ stack' = <<f>> \o Tail(stack)
      BY <2>1 DEF SubReturns, Replace, where, pool
    <3>2. Call(f) = Call(h)
      BY DEF Call, Advanced
    <3> HIDE DEF f, h
    <3> QED BY <3>1, <3>2 DEF IInv
  <2>2. CASE PartReturns
    <3> DEFINE merged == [Advanced(h) EXCEPT
                     !.props = Over(types[ret].props, @),
                     !.got = TRUE,
                     !.parts = IF Synthetic(h.id, ret) THEN @ \union {ret} ELSE @]
    <3>1. /\ UNCHANGED <<types, dedup>> /\ pc' = "subs" /\ pc = "return"
          /\ stack' = <<Advanced(h)>> \o Tail(stack) \/ stack' = <<merged>> \o Tail(stack)
      BY <2>2 DEF PartReturns, Replace, where, pool
    <3>2. Call(Advanced(h)) = Call(h) /\ Call(merged) = Call(h)
      BY DEF Call, Advanced
    <3> HIDE DEF merged, h
    <3> QED BY <3>1, <3>2 DEF IInv
  <2> QED BY <2>1, <2>2
<1>2. stack \in Seq(Range(stack))
  BY DEF IInv, Consistent, WellFormed
<1>3. Len(stack') = Len(stack) /\ Calls(stack') = Calls(stack)
  BY <1>1, <1>2, CallsReplace
<1> QED BY <1>1, <1>3, CallsStay

LEMMA StillR ==
  ASSUME RInv, NamesApart, RootReturns \/ ParseBad \/ Finish \/ UNCHANGED vars
  PROVE  RNext
<1>1. CASE RootReturns
  <2>1. stack' = <<>> /\ pc' = "root" /\ UNCHANGED <<types, dedup>>
    BY <1>1 DEF RootReturns, pool
  <2>2. Len(stack') = 0
    BY <2>1
  <2> QED BY <2>1, <2>2 DEF RNext, RInv, CallsOk
<1>2. CASE ParseBad
  BY <1>2, CallsStay DEF ParseBad, Reject, Return, where, pool
<1>3. CASE Finish
  BY <1>3, CallsStay DEF Finish, where, pool
<1>4. CASE UNCHANGED vars
  BY <1>4 DEF RNext, RInv, vars, pool, where
<1> QED BY <1>1, <1>2, <1>3, <1>4

(* The pool grows under the calls. *)
LEMMA CallsGrow ==
  ASSUME spec \in Specs, RInv, NamesApart, NEW new, NEW b, Grows(types, new, b),
         NEW m, m \in 1..Len(stack) \/ m = 0 \/ m = Len(stack), Len(stack) \in Nat,
         \A i \in 1..m : Calls(stack)[i].kind \in Composites => ~IsPrefix(b, Calls(stack)[i].id)
  PROVE  \A i \in 1..m : CallOk(Calls(stack), i, new)
<1> DEFINE c == Calls(stack)
           n == Len(stack)
<1>1. \A i \in 1..n : CallOk(c, i, types)
  BY DEF RInv, CallsOk
<1>2. \A i \in 1..m : i \in 1..n
  OBVIOUS
<1> HIDE DEF c, n
<1> SUFFICES ASSUME NEW i \in 1..m PROVE CallOk(c, i, new)
  BY DEF c
<1>3. CallOk(c, i, types)
  BY <1>1, <1>2
<1>4. c[i].kind \in Composites => ~IsPrefix(b, c[i].id)
  BY DEF c
<1> QED BY <1>3, <1>4, StillOk

(* A leaf, or a schema that permits null only. *)
LEMMA ParseTypeR ==
  ASSUME NumeralsDiffer, IInv, TInv, RInv, NamesApart, ParseLeaf \/ ParseNull
  PROVE  RNext
<1> DEFINE a == Alloc(arg.hint)
           h == Head(stack)
           n == Len(stack)
           c == Calls(stack)
           leaf == Lifted(a, a.id, Def("leaf", arg.schema, NoDefs), arg.schema.nullable)
           null == Lifted(a, a.id, Def("null", arg.schema, NoDefs), FALSE)
<1>1. /\ UNCHANGED <<dedup, stack>> /\ pc = "parse" /\ pc' = "return" /\ arg.schema.kind # "ref"
      /\ \/ ret' = a.id /\ (types' = leaf.types \/ types' = null.types)
         \/ ret' = NullId /\ types' = WithNull(types) /\ ~arg.hint.named
  BY DEF ParseLeaf, ParseNull, SetPool, Return, where
<1>2. /\ a.id \in Ids /\ PoolOk(a.types, a.counter)
      /\ Keeps(types, a.types, {}) /\ Grows(types, a.types, a.id)
      /\ BuildOk(c, n + 1, a.id, arg.schema, a.types)
      /\ \A i \in 1..n : c[i].kind \in Composites => ~IsPrefix(a.id, c[i].id)
  BY <1>1, NewBuild
<1>3. /\ spec \in Specs /\ stack # <<>> /\ n \in Nat \ {0} /\ c[n] = Call(h)
      /\ CallsOk(stack, types) /\ AllSettled(dedup, types) /\ AtParse(h, arg, types)
  BY <1>1, HeadCall DEF TInv, IInv, RInv
<1>4. n + 1 - 1 = n /\ n \in 1..n /\ CallOk(c, n, types) /\ h.kind = c[n].kind /\ h.id = c[n].id /\ h.key = c[n].key
  BY <1>3 DEF CallsOk, Call
<1> HIDE DEF a
<1>5. /\ Grows(a.types, leaf.types, a.id) /\ a.id \in DOMAIN leaf.types /\ DOMAIN a.types \subseteq DOMAIN leaf.types
      /\ Grows(a.types, null.types, a.id) /\ a.id \in DOMAIN null.types /\ DOMAIN a.types \subseteq DOMAIN null.types
  BY <1>2, LiftedShape
<1> HIDE DEF leaf, null, c, n, h
<1>6. /\ DOMAIN types \subseteq DOMAIN types' /\ (ret' = a.id => a.id \in DOMAIN types' \/ ~arg.hint.named)
      /\ Grows(types, types', a.id)
  <2>1. DOMAIN types \subseteq DOMAIN a.types
    BY <1>2 DEF Keeps
  <2>2. Grows(types, leaf.types, a.id) /\ Grows(types, null.types, a.id)
    BY <1>2, <1>5, GrowsOn
  <2>3. CASE types' = leaf.types \/ types' = null.types
    BY <1>5, <2>1, <2>2, <2>3
  <2>4. CASE types' = WithNull(types) /\ ~arg.hint.named
    BY <2>4, WithNullHas DEF Grows
  <2> QED BY <1>1, <2>3, <2>4
<1>7. CallsOk(stack', types')
  <2>1. \A i \in 1..n : CallOk(c, i, types')
    BY <1>2, <1>3, <1>6, CallsGrow DEF c, n
  <2> QED BY <1>1, <2>1 DEF CallsOk, c, n
<1>8. AllSettled(dedup', types')
  BY <1>1, <1>3, <1>6, SettledUp
<1>9. AtReturn(h, ret', types')
  <2> SUFFICES ASSUME h.kind = "ref" PROVE Settled(ret', h.key, types')
    BY DEF AtReturn
  <2>1. arg.hint.named
    BY <1>3 DEF AtParse, Named, Composites
  <2>2. ret' = a.id /\ a.id \in DOMAIN types'
    BY <1>1, <1>6, <2>1
  <2>3. BaseOf(h.id, h.key)
    BY <1>4 DEF CallOk, RefOk
  <2>4. a.id = h.id \/ NullNumeral(a.id)
    <3> DEFINE m == n + 1
    <3>1. m - 1 = n /\ BuildOk(c, m, a.id, arg.schema, a.types)
      BY <1>2, <1>3
    <3> HIDE DEF m
    <3> QED BY <1>4, <3>1 DEF BuildOk
  <2> QED BY <2>2, <2>3, <2>4 DEF Settled
<1> QED BY <1>1, <1>7, <1>8, <1>9 DEF RNext, h

LEMMA ParseCompositeR ==
  ASSUME NumeralsDiffer, IInv, TInv, RInv, NamesApart, ParseComposite
  PROVE  RNext
<1> DEFINE a == Alloc(arg.hint)
           n == Len(stack)
           c == Calls(stack)
           f == Frame(arg.schema.kind, a.id, arg.schema, NoKey)
<1>1. /\ UNCHANGED dedup /\ pc = "parse" /\ pc' = "subs" /\ arg.schema.kind \in Composites
      /\ types' = a.types /\ stack' = <<f>> \o stack
  BY DEF ParseComposite, SetPool, where
<1>2. arg.schema.kind # "ref" /\ arg.schema.kind # "root"
  BY <1>1 DEF Composites
<1>3. /\ a.id \in Ids /\ Keeps(types, a.types, {}) /\ Grows(types, a.types, a.id)
      /\ BuildOk(c, n + 1, a.id, arg.schema, a.types)
      /\ \A i \in 1..n : c[i].kind \in Composites => ~IsPrefix(a.id, c[i].id)
  BY <1>1, <1>2, NewBuild
<1>4. /\ spec \in Specs /\ stack # <<>> /\ n \in Nat \ {0}
      /\ CallsOk(stack, types) /\ AllSettled(dedup, types)
  BY <1>1, HeadCall DEF TInv, IInv, RInv
<1>5. f.kind = arg.schema.kind /\ f.id = a.id /\ f.schema = arg.schema /\ f.key = NoKey
  BY DEF Frame
<1> HIDE DEF a, f
<1>6. \A i \in 1..n : CallOk(c, i, a.types)
  BY <1>3, <1>4, CallsGrow
<1>7. CallsOk(stack', types')
  <2> DEFINE d == Calls(<<f>> \o stack)
  <2> HIDE DEF c, d, n
  <2>1. ASSUME d[n + 1] = Call(f), \A k \in 1..n : d[k] = c[k] PROVE CallOk(d, n + 1, a.types)
    <3> DEFINE m == n + 1
    <3>0. m \in Nat \ {0, 1} /\ m - 1 = n
      BY <1>4
    <3> HIDE DEF m
    <3>1. \A k \in 1..(m - 1) : c[k] = d[k]
      BY <2>1, <3>0
    <3>2. BuildOk(d, n + 1, a.id, arg.schema, a.types)
      <4>1. BuildOk(c, m, a.id, arg.schema, a.types)
        BY <1>3 DEF m
      <4>2. BuildOk(d, m, a.id, arg.schema, a.types)
        BY <3>0, <3>1, <4>1, BuildOkOn
      <4> QED BY <4>2 DEF m
    <3>3. /\ d[n + 1].kind = arg.schema.kind /\ d[n + 1].id = a.id
          /\ d[n + 1].schema = arg.schema /\ d[n + 1].key = NoKey
      BY <1>5, <2>1 DEF Call
    <3> QED BY <1>2, <1>3, <3>2, <3>3 DEF CallOk
  <2> QED BY <1>1, <1>2, <1>4, <1>5, <1>6, <2>1, PushOk DEF c, d, n
<1>8. AllSettled(dedup', types')
  BY <1>1, <1>3, <1>4, SettledUp DEF Keeps
<1> QED BY <1>1, <1>7, <1>8 DEF RNext

(* What the end of a composite does to the pool. *)
LEMMA CloseShape ==
  ASSUME NumeralsDiffer, IInv, TInv, Close
  PROVE  LET h == Head(stack) IN
         /\ UNCHANGED <<spec, dedup>> /\ pc' = "return" /\ stack' = Tail(stack)
         /\ stack # <<>> /\ h.kind \in Composites /\ h.id \in Ids
         /\ \/ ret' = NoId /\ types' = types
            \/ /\ ret' = h.id /\ Grows(types, types', h.id)
               /\ \A x \in DOMAIN types \union {h.id} : ~PartName(x) => x \in DOMAIN types'
               /\ \A x \in DOMAIN types : x \in DOMAIN types' /\ x # h.id => types'[x] = types[x]
               /\ h.id \in DOMAIN types' => types'[h.id].schema = h.schema
<1> DEFINE h == Head(stack)
           now == [types |-> types, counter |-> counter]
           kind == IF h.kind = "allof" THEN "object" ELSE h.kind
           l == Lifted(now, h.id, Def(kind, h.schema, h.props), h.schema.nullable)
           Goes == /\ ret' = h.id /\ Grows(types, types', h.id)
                   /\ \A x \in DOMAIN types \union {h.id} : ~PartName(x) => x \in DOMAIN types'
                   /\ \A x \in DOMAIN types : x \in DOMAIN types' /\ x # h.id => types'[x] = types[x]
                   /\ h.id \in DOMAIN types' => types'[h.id].schema = h.schema
<1>1. /\ UNCHANGED <<spec, dedup>> /\ pc = "subs" /\ pc' = "return" /\ stack' = Tail(stack)
      /\ \/ ret' = NoId /\ types' = types
         \/ /\ ret' = h.id
            /\ \E props, ts : (ts = WithNull(types) \/ ts = types) /\ types' = Put(ts, h.id, Def("union", h.schema, props))
         \/ ret' = h.id /\ types' = Without(l.types, h.parts)
  BY DEF Close, Return, where, SetPool, pool
<1>2. stack # <<>> /\ h.kind \in Composites
  BY <1>1 DEF IInv
<1>3. h.id \in Ids /\ (\A x \in h.parts : PartName(x)) /\ PoolOk(types, counter)
  BY <1>2, StackRange DEF TInv, FrameOk
<1>4. IsPrefix(h.id, h.id)
  BY <1>3, IdPrefix
<1>5. now.types = types /\ now.counter = counter
  OBVIOUS
<1> HIDE DEF now, h
<1>6. /\ Grows(types, l.types, h.id) /\ h.id \in DOMAIN l.types /\ DOMAIN types \subseteq DOMAIN l.types
      /\ Keeps(types, l.types, {h.id}) /\ l.types[h.id].schema = h.schema
  <2>1. /\ Grows(now.types, l.types, h.id) /\ h.id \in DOMAIN l.types
        /\ DOMAIN now.types \subseteq DOMAIN l.types
    BY <1>3, <1>5, LiftedShape
  <2>2. Keeps(now.types, l.types, {h.id}) /\ MadeFrom(l.types, h.id, h.schema)
    BY <1>3, <1>5, LiftedFacts
  <2> QED BY <1>5, <2>1, <2>2 DEF MadeFrom
<1> HIDE DEF l
<1>7. ASSUME NEW props, NEW ts, ts = WithNull(types) \/ ts = types, ret' = h.id,
             types' = Put(ts, h.id, Def("union", h.schema, props))
      PROVE  Goes
  <2>1. DOMAIN types' = DOMAIN ts \union {h.id} /\ types'[h.id] = Def("union", h.schema, props)
        /\ \A x \in DOMAIN ts : x # h.id => types'[x] = ts[x]
    <3> DEFINE def == Def("union", h.schema, props)
    <3>1. types' = Put(ts, h.id, def)
      BY <1>7
    <3> HIDE DEF def
    <3>2. /\ DOMAIN Put(ts, h.id, def) = DOMAIN ts \union {h.id}
          /\ Put(ts, h.id, def)[h.id] = def
          /\ \A x \in DOMAIN ts : x # h.id => Put(ts, h.id, def)[x] = ts[x]
      BY DEF Put
    <3> QED BY <3>1, <3>2 DEF def
  <2>2. Keeps(types, ts, {}) /\ DOMAIN ts \subseteq DOMAIN types \union {NullId}
    <3>1. Keeps(types, WithNull(types), {}) /\ DOMAIN WithNull(types) = DOMAIN types \union {NullId}
      BY <1>3, WithNullKeeps, WithNullHas
    <3>2. Keeps(types, types, {})
      BY DEF Keeps
    <3> QED BY <1>7, <3>1, <3>2
  <2>3. Grows(types, types', h.id)
    BY <1>4, <2>1, <2>2 DEF Grows, Keeps
  <2>4. types'[h.id].schema = h.schema
    BY <2>1 DEF Def
  <2> QED BY <1>7, <2>1, <2>2, <2>3, <2>4 DEF Keeps
<1>8. ASSUME ret' = h.id, types' = Without(l.types, h.parts)
      PROVE  Goes
  <2>1. DOMAIN types' = DOMAIN l.types \ h.parts /\ \A x \in DOMAIN types' : types'[x] = l.types[x]
    BY <1>8 DEF Without
  <2>2. NullId \in DOMAIN types => NullId \in DOMAIN types'
    BY <1>3, <1>6, <2>1, NullIsNoPart
  <2>3. Grows(types, types', h.id)
    BY <1>6, <2>1, <2>2 DEF Grows
  <2> QED BY <1>3, <1>6, <1>8, <2>1, <2>3 DEF Keeps
<1>9. (ret' = NoId /\ types' = types) \/ Goes
  BY <1>1, <1>7, <1>8
<1> QED BY <1>1, <1>2, <1>3, <1>9 DEF h

LEMMA CloseR ==
  ASSUME NumeralsDiffer, IInv, TInv, RInv, NamesApart, Close
  PROVE  RNext
<1> DEFINE h == Head(stack)
           t == Tail(stack)
           n == Len(stack)
           c == Calls(stack)
<1>1. /\ UNCHANGED dedup /\ pc' = "return" /\ stack' = t
      /\ stack # <<>> /\ h.kind \in Composites /\ h.id \in Ids
      /\ \/ ret' = NoId /\ types' = types
         \/ /\ ret' = h.id /\ Grows(types, types', h.id)
            /\ \A x \in DOMAIN types \union {h.id} : ~PartName(x) => x \in DOMAIN types'
  BY CloseShape
<1>2. /\ spec \in Specs /\ n \in Nat \ {0} /\ c[n] = Call(h)
      /\ CallsOk(stack, types) /\ AllSettled(dedup, types)
      /\ \A i \in 1..n : c[i].kind = "root" <=> i = 1
  BY <1>1, HeadCall DEF TInv, RInv
<1>3. n \in 1..n /\ CallOk(c, n, types) /\ h.kind = c[n].kind /\ h.id = c[n].id
  BY <1>2 DEF CallsOk, Call
<1>4. BuildOk(c, n, h.id, c[n].schema, types)
  BY <1>1, <1>3 DEF CallOk
<1>5. t # <<>> /\ c[n - 1] = Call(Head(t)) /\ n - 1 \in 1..n
  <2>1. n # 1
    BY <1>1, <1>2, <1>3 DEF Composites
  <2>2. t \in Seq(Range(t)) /\ Len(t) = n - 1 /\ (t # <<>> => c[n - 1] = Call(Head(t)))
    BY <1>1, CallsPop DEF IInv, Consistent, WellFormed
  <2> HIDE DEF t, c, n
  <2>3. t # <<>>
    <3>1. Len(t) # 0
      BY <1>2, <2>1, <2>2
    <3> QED BY <3>1
  <2> QED BY <1>2, <2>1, <2>2, <2>3
<1>6. /\ \A i \in 1..(n - 1) : i \in 1..n
      /\ \A i \in 1..(n - 1) : c[i].kind \in Composites => ~IsPrefix(h.id, c[i].id)
  BY <1>2, <1>4 DEF BuildOk
<1>7. \A i \in 1..(n - 1) : CallOk(c, i, types')
  <2>1. CASE types' = types
    BY <1>2, <1>6, <2>1 DEF CallsOk
  <2>2. CASE Grows(types, types', h.id)
    <3> HIDE DEF h
    <3>1. \A i \in 1..(n - 1) : CallOk(c, i, types)
      BY <1>2, <1>6 DEF CallsOk
    <3> HIDE DEF c, n
    <3> QED BY <1>2, <1>6, <2>2, <3>1, StillOk
  <2> QED BY <1>1, <2>1, <2>2
<1>8. CallsOk(stack', types')
  BY <1>1, <1>7, PopOk
<1>9. AllSettled(dedup', types')
  <2>1. \A x \in DOMAIN types : NullNumeral(x) => x \in DOMAIN types'
    BY <1>1, NullIsNoPart
  <2> QED BY <1>1, <1>2, <2>1, SettledUp
<1> DEFINE g == Head(t)
<1>10. g.kind = c[n - 1].kind /\ g.id = c[n - 1].id /\ g.key = c[n - 1].key
  BY <1>5 DEF Call
<1>11. CallOk(c, n - 1, types)
  BY <1>2, <1>5 DEF CallsOk
<1> HIDE DEF c, n, g, h, t
<1>12. AtReturn(g, ret', types')
  <2> SUFFICES ASSUME g.kind = "ref", ret' = h.id,
                      ~PartName(h.id) => h.id \in DOMAIN types'
               PROVE  Settled(h.id, g.key, types')
    BY <1>1 DEF AtReturn
  <2>1. h.id = g.id \/ NullNumeral(h.id)
    BY <1>4, <1>10 DEF BuildOk
  <2>2. BaseOf(g.id, g.key)
    BY <1>10, <1>11 DEF CallOk, RefOk
  <2> QED BY <2>1, <2>2, NullIsNoPart DEF Settled
<1> QED BY <1>1, <1>8, <1>9, <1>12 DEF RNext, g

(* The document in which a schema that has a name is read. *)
LEMMA HeadDocument ==
  ASSUME IInv, TInv, RInv, NamesApart, pc = "parse", Head(stack).key # NoKey
  PROVE  /\ Head(stack).key \in Here /\ current = Head(stack).key[1]
         /\ arg.schema = At(Head(stack).key)
         /\ arg.hint.named /\ BaseOf(arg.hint.base, Head(stack).key)
<1> DEFINE h == Head(stack)
           n == Len(stack)
           c == Calls(stack)
<1>1. /\ n \in Nat \ {0} /\ c[n] = Call(h) /\ CallsOk(stack, types)
      /\ \A i \in 1..n : /\ c[i].kind = "root" <=> i = 1
                         /\ c[i].kind \in Composites => c[i].key = NoKey
  BY HeadCall DEF RInv, IInv
<1>2. /\ n \in 1..n /\ CallOk(c, n, types)
      /\ h.kind = c[n].kind /\ h.key = c[n].key /\ h.id = c[n].id
  BY <1>1 DEF CallsOk, Call
<1>3. h.key \in Here /\ (h.kind = "root" => h.key[1] = Main) /\ h.kind \notin Composites
  BY <1>1, <1>2 DEF CallOk
<1>4. h = stack[1] /\ 1 \in DOMAIN stack /\ DOMAIN stack = 1..n
  BY PopSeq DEF IInv, Consistent, WellFormed
<1>5. current = IF h.kind = "ref" THEN h.key[1] ELSE h.prev
  BY <1>1, <1>4 DEF IInv, Consistent, Documents, Within
<1>6. h.prev = Within(stack, 1 + 1)
  BY <1>4 DEF IInv, Consistent, Documents
<1>7. h.kind = "root" => h.prev = Main
  BY <1>1, <1>2, <1>6 DEF Within
<1>8. AtParse(h, arg, types)
  BY DEF RInv
<1> HIDE DEF c, n, h
<1>9. CASE h.kind = "ref"
  <2>1. arg = [schema |-> At(h.key), hint |-> Named(h.id)]
    BY <1>8, <1>9 DEF AtParse, Composites
  <2>2. BaseOf(h.id, h.key)
    BY <1>2, <1>9 DEF CallOk, RefOk
  <2> QED BY <1>3, <1>5, <1>9, <2>1, <2>2 DEF Named, h
<1>10. CASE h.kind # "ref"
  <2>1. /\ h.kind = "root" /\ h.key = <<Main, arg.hint.base>>
        /\ arg.schema = At(h.key) /\ arg.hint.named
    BY <1>3, <1>8, <1>10 DEF AtParse, h
  <2>2. arg.hint.base \in Ids
    BY DEF TInv
  <2>3. Base(h.key) = arg.hint.base
    BY <2>1, <2>2, NameBase
  <2>4. BaseOf(arg.hint.base, h.key)
    BY <1>3, <2>3, BaseHere
  <2> QED BY <1>3, <1>5, <1>7, <1>10, <2>1, <2>4 DEF h
<1> QED BY <1>9, <1>10

(* A reference to a schema of another document, or inside one. *)
LEMMA WalkAtR ==
  ASSUME IInv, TInv, RInv, NamesApart, pc = "parse", UNCHANGED <<spec, types, dedup>>,
         NEW d, NEW n, WalkAt(d, n), TargetId(d, n, arg.hint) \in Ids,
         Head(stack).key # NoKey => Same(Head(stack).key, <<d, n>>)
  PROVE  RNext
<1> DEFINE id == TargetId(d, n, arg.hint)
           key == <<d, n>>
           h == Head(stack)
           N == Len(stack)
           c == Calls(stack)
           f == Frame("ref", id, arg.schema, key)
<1>1. /\ stack # <<>> /\ N \in Nat \ {0} /\ c[N] = Call(h) /\ CallsOk(stack, types)
      /\ AllSettled(dedup, types) /\ AtParse(h, arg, types)
  BY HeadCall DEF RInv, IInv
<1>2. \/ pc' = "return" /\ ret' \in {id, NoId} /\ stack' = stack
      \/ /\ pc' = "parse" /\ stack' = <<f>> \o stack /\ Has(d, n) /\ id \notin DOMAIN types
         /\ arg' = [schema |-> Schema(d, n), hint |-> Named(id)]
  BY DEF WalkAt, Return, Reject, Parse, Known
(* What the reference is to be called. *)
<1>3. ASSUME key \in DOMAIN dedup PROVE Settled(id, key, types)
  BY <1>1, <1>3 DEF TargetId, AllSettled
<1>4. ASSUME key \notin DOMAIN dedup, arg.hint.named PROVE Settled(id, key, types)
  <2>1. id = arg.hint.base
    BY <1>4 DEF TargetId
  <2>2. h.key # NoKey
    <3>1. CASE h.kind = "ref"
      <4>1. N \in 1..N /\ CallOk(c, N, types) /\ h.kind = c[N].kind /\ h.key = c[N].key
        BY <1>1 DEF CallsOk, Call
      <4>2. h.key \in Here
        BY <3>1, <4>1 DEF CallOk, RefOk
      <4> QED BY <4>2, NamedHere DEF IsNamed
    <3>2. CASE h.kind # "ref"
      <4> HIDE DEF h
      <4> QED BY <1>1, <1>4, <3>2 DEF AtParse, Inline
    <3> QED BY <3>1, <3>2
  <2>3. BaseOf(arg.hint.base, h.key)
    BY <2>2, HeadDocument
  <2> QED BY <2>1, <2>2, <2>3, BaseSame DEF Settled
<1>5. ASSUME key \notin DOMAIN dedup, ~arg.hint.named, key \in Here PROVE Settled(id, key, types)
  <2>1. id = Base(key)
    BY <1>5 DEF TargetId, Base
  <2> QED BY <1>5, <2>1, BaseHere DEF Settled
<1> HIDE DEF id, f
<1>6. CASE pc' = "return" /\ ret' \in {id, NoId} /\ stack' = stack
  <2>1. AtReturn(h, ret', types)
    <3> SUFFICES ASSUME h.kind = "ref", ret' = id PROVE Settled(id, h.key, types)
      BY <1>6 DEF AtReturn
    <3>1. arg.hint.named /\ h.key # NoKey
      <4>1. N \in 1..N /\ CallOk(c, N, types) /\ h.kind = c[N].kind /\ h.key = c[N].key
        BY <1>1 DEF CallsOk, Call
      <4>2. h.key \in Here
        BY <4>1 DEF CallOk, RefOk
      <4>3. h.key # NoKey
        BY <4>2, NamedHere DEF IsNamed
      <4> QED BY <4>3, HeadDocument
    <3>2. Settled(id, key, types)
      BY <1>3, <1>4, <3>1
    <3> QED BY <3>1, <3>2, BaseSame, SameIs
  <2> QED BY <1>6, <2>1, CallsStay
<1>7. CASE /\ pc' = "parse" /\ stack' = <<f>> \o stack /\ Has(d, n) /\ id \notin DOMAIN types
           /\ arg' = [schema |-> Schema(d, n), hint |-> Named(id)]
  <2>1. key \in Here
    BY <1>7, NamedHere
  <2>2. BaseOf(id, key)
    BY <1>3, <1>4, <1>5, <1>7, <2>1 DEF Settled
  <2>3. f.kind = "ref" /\ f.id = id /\ f.key = key
    BY DEF f, Frame
  <2>4. CallsOk(stack', types')
    <3> DEFINE e == Calls(<<f>> \o stack)
    <3> HIDE DEF c, e, N, key, h
    <3>1. ASSUME e[N + 1] = Call(f), \A k \in 1..N : e[k] = c[k] PROVE CallOk(e, N + 1, types)
      <4> DEFINE m == N + 1
      <4>1. m - 1 = N /\ N \in 1..N
        BY <1>1
      <4>2. e[m].kind = "ref" /\ e[m].id = id /\ e[m].key = key
        BY <2>3, <3>1 DEF Call
      <4> HIDE DEF m
      <4>3. e[m - 1].key = h.key
        BY <1>1, <3>1, <4>1 DEF Call
      <4>4. RefOk(e, m)
        BY <2>1, <2>2, <4>2, <4>3 DEF RefOk, h, key
      <4>5. CallOk(e, m, types)
        BY <2>1, <4>2, <4>4 DEF CallOk, Composites, id
      <4> QED BY <4>5 DEF m
    <3>2. \A i \in 1..N : CallOk(c, i, types)
      BY <1>1 DEF CallsOk, c, N
    <3> QED BY <1>1, <1>7, <2>3, <3>1, <3>2, PushOk DEF c, e, N
  <2>5. Head(stack') = f
    BY <1>7, PushSeq DEF IInv, Consistent, WellFormed
  <2>6. AtParse(f, arg', types')
    <3>1. At(key) = Schema(d, n)
      BY DEF At
    <3> QED BY <1>7, <2>3, <3>1 DEF AtParse
  <2> QED BY <1>1, <1>7, <2>4, <2>5, <2>6 DEF RNext
<1> QED BY <1>2, <1>6, <1>7 DEF id, f

LEMMA ReferenceR ==
  ASSUME IInv, TInv, RInv, NamesApart, ParseLocalRef \/ ParseExternalRef
  PROVE  RNext
<1> DEFINE h == Head(stack)
           n == arg.schema.target
           d == IF arg.schema.file = "" THEN current ELSE arg.schema.file
<1>1. /\ pc = "parse" /\ UNCHANGED <<spec, types, dedup>> /\ arg.schema.kind = "ref"
      /\ \/ pc' = "return" /\ ret' = NoId /\ stack' = stack
         \/ WalkAt(d, n) /\ d \in DOMAIN spec.docs
         \/ pc' = "return" /\ ret' = n /\ stack' = stack /\ Has(Main, n) /\ d = Main
  <2>1. CASE ParseLocalRef
    <3>1. d = current /\ pc = "parse" /\ UNCHANGED <<spec, types, dedup>> /\ arg.schema.kind = "ref"
      BY <2>1, Zenon DEF ParseLocalRef, pool
    <3> HIDE DEF d
    <3>2. \/ Reject /\ stack' = stack
          \/ Has(current, n) /\ current = Main /\ Return(n) /\ stack' = stack
          \/ Has(current, n) /\ WalkAt(current, n)
      BY <2>1, Zenon DEF ParseLocalRef
    <3> QED BY <3>1, <3>2 DEF Reject, Return, Has
  <2>2. CASE ParseExternalRef
    <3>1. d = arg.schema.file /\ pc = "parse" /\ UNCHANGED <<spec, types, dedup>> /\ arg.schema.kind = "ref"
      BY <2>2, Zenon DEF ParseExternalRef, pool
    <3>2. \/ Reject /\ stack' = stack
          \/ arg.schema.file \in DOMAIN spec.docs /\ WalkAt(arg.schema.file, n)
      BY <2>2, Zenon DEF ParseExternalRef
    <3> HIDE DEF d
    <3> QED BY <3>1, <3>2 DEF Reject, Return
  <2> QED BY <2>1, <2>2
<1>2. ASSUME h.key # NoKey PROVE Same(h.key, <<d, n>>) /\ h.key \in Here
  <2>1. h.key \in Here /\ current = h.key[1] /\ arg.schema = At(h.key)
    BY <1>1, <1>2, HeadDocument
  <2>2. IsLink(h.key)
    BY <1>1, <2>1, NamedHere DEF IsLink
  <2>3. Target(h.key) = <<d, n>>
    BY <2>1, Zenon DEF Target
  <2> QED BY <2>1, <2>2, <2>3, SameTarget
<1>3. n \in Seq(STRING) /\ spec \in Specs
  BY <1>1, SchemasAssumption DEF TInv
<1> HIDE DEF d, n, h
<1>4. CASE pc' = "return" /\ ret' = NoId /\ stack' = stack
  BY <1>1, <1>4, CallsStay
<1>5. CASE WalkAt(d, n) /\ d \in DOMAIN spec.docs
  <2>1. TargetId(d, n, arg.hint) \in Ids
    <3>1. Prefix(d) \o n \in Ids
      BY <1>3, <1>5, SpecFacts, IdsJoin
    <3> QED BY <1>1, <3>1 DEF TargetId, TInv
  <2> QED BY <1>1, <1>2, <1>5, <2>1, WalkAtR DEF h
<1>6. CASE pc' = "return" /\ ret' = n /\ stack' = stack /\ Has(Main, n) /\ d = Main
  <2>1. <<Main, n>> \in Here /\ n \in Ids
    BY <1>3, <1>6, NamedHere, IdsJoin
  <2>2. BaseOf(n, <<Main, n>>)
    BY <2>1, NameBase, BaseHere
  <2>3. AtReturn(h, ret', types')
    <3> SUFFICES ASSUME h.kind = "ref" PROVE Settled(n, h.key, types')
      BY <1>6 DEF AtReturn
    <3>1. h.key # NoKey
      <4>1. /\ Len(stack) \in Nat \ {0} /\ Calls(stack)[Len(stack)] = Call(h)
            /\ CallsOk(stack, types)
        BY <1>1, HeadCall DEF RInv, IInv, h
      <4>2. CallOk(Calls(stack), Len(stack), types)
        BY <4>1 DEF CallsOk
      <4>3. h.key \in Here
        BY <4>1, <4>2 DEF CallOk, RefOk, Call
      <4> QED BY <4>3, NamedHere DEF IsNamed
    <3>2. Same(h.key, <<Main, n>>)
      BY <1>2, <1>6, <3>1
    <3> QED BY <2>2, <3>2, BaseSame, SameIs DEF Settled
  <2> QED BY <1>1, <1>6, <2>3, CallsStay DEF h
<1> QED BY <1>1, <1>4, <1>5, <1>6

LEMMA RefReturnsR ==
  ASSUME IInv, RInv, NamesApart, RefReturns
  PROVE  RNext
<1> DEFINE h == Head(stack)
           t == Tail(stack)
           g == Head(t)
           n == Len(stack)
           c == Calls(stack)
<1>1. /\ UNCHANGED types /\ pc' = "return" /\ stack' = t /\ pc = "return" /\ h.kind = "ref"
      /\ \/ ret # NoId /\ dedup' = Put(dedup, h.key, ret) /\ ret' = ret
         \/ ret = NoId /\ ret' = h.id /\ dedup' = dedup
  BY DEF RefReturns, pool
<1>2. /\ stack # <<>> /\ n \in Nat \ {0} /\ c[n] = Call(h)
      /\ CallsOk(stack, types) /\ AllSettled(dedup, types) /\ AtReturn(h, ret, types)
      /\ \A i \in 1..n : c[i].kind = "root" <=> i = 1
  BY <1>1, HeadCall DEF RInv, IInv
<1>3. n \in 1..n /\ CallOk(c, n, types) /\ h.kind = c[n].kind /\ h.id = c[n].id /\ h.key = c[n].key
  BY <1>2 DEF CallsOk, Call
<1>4. RefOk(c, n)
  BY <1>1, <1>3 DEF CallOk
<1>5. t # <<>> /\ c[n - 1] = Call(g) /\ n - 1 \in 1..n
  <2>1. n # 1
    BY <1>1, <1>2, <1>3
  <2>2. t \in Seq(Range(t)) /\ Len(t) = n - 1 /\ (t # <<>> => c[n - 1] = Call(g))
    BY <1>2, CallsPop DEF IInv, Consistent, WellFormed
  <2> HIDE DEF t, c, n, g
  <2>3. t # <<>>
    <3>1. Len(t) # 0
      BY <1>2, <2>1, <2>2
    <3> QED BY <3>1
  <2> QED BY <1>2, <2>1, <2>2, <2>3
<1>6. \A i \in 1..(n - 1) : CallOk(c, i, types')
  BY <1>1, <1>2 DEF CallsOk
<1>7. CallsOk(stack', types')
  BY <1>1, <1>2, <1>6, PopOk
<1>8. g.kind = c[n - 1].kind /\ g.key = c[n - 1].key
  BY <1>5 DEF Call
<1>9. CallOk(c, n - 1, types)
  BY <1>2, <1>5 DEF CallsOk
<1>10. ret' = h.id \/ ret' = ret
  BY <1>1
<1> HIDE DEF c, n, g, h, t
<1>11. Settled(ret', h.key, types)
  BY <1>1, <1>2, <1>3, <1>4 DEF AtReturn, RefOk, Settled
<1>12. AllSettled(dedup', types')
  <2>1. CASE ret # NoId /\ dedup' = Put(dedup, h.key, ret) /\ ret' = ret
    BY <1>1, <1>2, <1>11, <2>1 DEF AllSettled, Put
  <2>2. CASE dedup' = dedup
    BY <1>1, <1>2, <2>2
  <2> QED BY <1>1, <2>1, <2>2
<1>13. AtReturn(g, ret', types')
  <2> SUFFICES ASSUME g.kind = "ref" PROVE Settled(ret', g.key, types)
    BY <1>1 DEF AtReturn
  <2>1. g.key # NoKey
    BY <1>8, <1>9, NamedHere DEF CallOk, RefOk, IsNamed
  <2>2. Same(g.key, h.key)
    BY <1>3, <1>4, <1>8, <2>1 DEF RefOk
  <2> QED BY <1>11, <2>2, BaseSame, SameIs
<1> QED BY <1>1, <1>7, <1>12, <1>13 DEF RNext, g

LEMMA StepRInv ==
  ASSUME NumeralsDiffer, IInv, TInv, RInv, [Next]_vars
  PROVE  RInv'
<1>1. spec' = spec
  BY DEF Next, WalkComponent, WalkUse, Finish, RootReturns, ParseLeaf, ParseNull, ParseBad,
         ParseComposite, NextSub, SubReturns, PartReturns, Close, ParseLocalRef,
         ParseExternalRef, RefReturns, vars
<1>2. ASSUME NamesApart PROVE RNext
  BY <1>2, WalkComponentR, WalkUseR, StillR, ParseTypeR, ParseCompositeR, NextSubR, SubReturnsR,
     CloseR, ReferenceR, RefReturnsR DEF Next
<1> QED BY <1>1, <1>2, RInvNext DEF RNext

(* A step replaces no type but the one of the component it is about. *)
LEMMA StepReplaces ==
  ASSUME NumeralsDiffer, IInv, TInv, RInv, NamesApart, Next
  PROVE  \A id \in DOMAIN types : id \in DOMAIN types' => types'[id] = types[id] \/ ByItsComponent(id)
<1>0. PoolOk(types, counter) /\ (pc = "parse" => arg.hint.base \in Ids)
  BY DEF TInv
<1>1. CASE ParseLeaf \/ ParseNull \/ ParseComposite
  <2> DEFINE a == Alloc(arg.hint)
             n == Len(stack)
             leaf == Lifted(a, a.id, Def("leaf", arg.schema, NoDefs), arg.schema.nullable)
             null == Lifted(a, a.id, Def("null", arg.schema, NoDefs), FALSE)
  <2>1. /\ pc = "parse" /\ arg.schema.kind # "ref" /\ spec' = spec
        /\ types' = leaf.types \/ types' = null.types \/ types' = WithNull(types) \/ types' = a.types
    BY <1>1 DEF ParseLeaf, ParseNull, ParseComposite, SetPool, Composites
  <2>2. /\ a.id \in Ids /\ PoolOk(a.types, a.counter) /\ Keeps(types, a.types, {})
        /\ BuildOk(Calls(stack), n + 1, a.id, arg.schema, a.types)
    BY <2>1, NewBuild
  <2> HIDE DEF a, n
  <2>3. /\ Keeps(a.types, leaf.types, {a.id}) /\ MadeFrom(leaf.types, a.id, arg.schema)
        /\ Keeps(a.types, null.types, {a.id}) /\ MadeFrom(null.types, a.id, arg.schema)
    BY <2>2, LiftedFacts
  <2>4. Keeps(types, WithNull(types), {})
    BY <1>0, WithNullKeeps
  <2>5. a.id \in DOMAIN a.types => Has(Main, a.id) /\ arg.schema = Schema(Main, a.id)
    BY <2>2 DEF BuildOk, Own
  <2> HIDE DEF leaf, null
  <2>6. CASE types' = WithNull(types) \/ types' = a.types
    BY <2>2, <2>4, <2>6 DEF Keeps
  <2>7. CASE Keeps(a.types, types', {a.id}) /\ MadeFrom(types', a.id, arg.schema)
    <3> SUFFICES ASSUME NEW id \in DOMAIN types PROVE types'[id] = types[id] \/ ByItsComponent(id)
      OBVIOUS
    <3>1. id \in DOMAIN a.types /\ a.types[id] = types[id]
      BY <2>2 DEF Keeps
    <3>2. CASE id = a.id
      BY <2>1, <2>5, <2>7, <3>1, <3>2 DEF ByItsComponent, MadeFrom
    <3>3. CASE id # a.id
      BY <2>7, <3>1, <3>3 DEF Keeps
    <3> QED BY <3>2, <3>3
  <2> QED BY <2>1, <2>3, <2>6, <2>7
<1>2. CASE Close
  <2> DEFINE h == Head(stack)
             n == Len(stack)
             c == Calls(stack)
  <2>1. /\ stack # <<>> /\ h.kind \in Composites /\ spec' = spec
        /\ \/ types' = types
           \/ /\ \A x \in DOMAIN types : x \in DOMAIN types' /\ x # h.id => types'[x] = types[x]
              /\ h.id \in DOMAIN types' => types'[h.id].schema = h.schema
    BY <1>2, CloseShape
  <2>2. n \in Nat \ {0} /\ c[n] = Call(h) /\ CallsOk(stack, types)
    BY <2>1, HeadCall DEF RInv
  <2>3. CallOk(c, n, types) /\ h.kind = c[n].kind /\ h.id = c[n].id /\ h.schema = c[n].schema
    BY <2>2 DEF CallsOk, Call
  <2> HIDE DEF c, n, h
  <2>4. h.id \in DOMAIN types => Has(Main, h.id) /\ h.schema = Schema(Main, h.id)
    BY <2>1, <2>3 DEF CallOk, BuildOk, Own
  <2> QED BY <2>1, <2>4 DEF ByItsComponent
<1>3. CASE types' = types
  BY <1>3
<1> QED BY <1>1, <1>2, <1>3 DEF Next, WalkComponent, WalkUse, Finish, RootReturns, ParseBad,
         NextSub, SubReturns, PartReturns, ParseLocalRef, ParseExternalRef, RefReturns, pool

(* Where names do not run into each other a type in the pool is replaced by *)
(* nothing but the walk of the component of its name: not by an inline      *)
(* schema, a copy under a nullable union or a schema of another document,   *)
(* whatever order they are walked in.                                       *)
THEOREM OthersKept ==
  ASSUME NumeralsDiffer
  PROVE  Spec => InlineReplacesNothing
<1> DEFINE Inv == IInv /\ TInv /\ RInv
           Kept == NamesApart =>
                     \A id \in DOMAIN types : id \in DOMAIN types' =>
                       types'[id] = types[id] \/ ByItsComponent(id)
<1>1. Init => Inv
  BY InitIInv, InitTInv, InitRInv
<1>2. Inv /\ [Next]_vars => Inv'
  BY StepIInv, StepTInv, StepRInv
<1>3. Inv /\ [Next]_vars => [Kept]_vars
  <2> SUFFICES ASSUME Inv, Next, NamesApart
               PROVE  \A id \in DOMAIN types : id \in DOMAIN types' =>
                        types'[id] = types[id] \/ ByItsComponent(id)
    OBVIOUS
  <2> QED BY StepReplaces
<1> QED BY <1>1, <1>2, <1>3, PTL DEF Spec, InlineReplacesNothing

-----------------------------------------------------------------------------
(* No reference is left dangling. *)

(* The name under which the schema of a key is going to be in the pool.     *)
Proper(k) == IF k \in DOMAIN Claims(spec) THEN Claims(spec)[k] ELSE Base(k)

Tidy == ~failed /\ NamesApart /\ NamesWhatIsThere /\ NamesNoPart

(* What there is, what the calls in progress are going to leave there, and  *)
(* what the walks to come will.                                             *)
Due(s) == {Proper(f.key) : f \in {g \in Range(s) : g.key # NoKey}}
Waiting(td) == {spec.docs[Main][i].name : i \in td}
Promised(ts, s, td) == DOMAIN ts \union Due(s) \union Waiting(td)

(* What the types and the types in the making refer to. *)
ValuesOf(props) == {props[r] : r \in DOMAIN props}
Values(ts, s) ==
  (UNION {ValuesOf(ts[id].props) : id \in DOMAIN ts}) \union (UNION {ValuesOf(f.props) : f \in Range(s)})

(* The id x is the proper one of the schema of a key, or stands in for it:  *)
(* a component that is called `null` gets a numbered id.                    *)
ForKey(x, k, ts) == x = Proper(k) \/ (Proper(k) = NullId /\ NullId \in DOMAIN ts /\ NullNumeral(x))
Meant(x, k, ts) == x = Proper(k) \/ (ForKey(x, k, ts) /\ x \in DOMAIN ts)

Kept(ts, s, td) ==
  /\ NoId \notin DOMAIN ts
  /\ Values(ts, s) \subseteq Promised(ts, s, td)
  /\ Names(Main) \subseteq Promised(ts, s, td)
Referred(d, ts) ==
  /\ DOMAIN Claims(spec) \subseteq DOMAIN d
  /\ \A k \in DOMAIN d : Meant(d[k], k, ts)

(* A call f, and the call g that it was made from: f builds the schema of   *)
(* that key, or the one that a loop over subschemas has come to.            *)
FrameIs(f) ==
  /\ f.kind = "ref" => f.id = Proper(f.key) /\ f.schema.kind = "ref"
  /\ f.kind \in Composites =>
       /\ f.kind = f.schema.kind
       /\ \A j \in DOMAIN f.schema.subs :
            j < f.next /\ Fruitful(f.schema.subs[j]) => f.props # NoDefs \/ f.got
Under(f, g, ts) ==
  /\ g.key # NoKey /\ f.kind \in Composites => f.schema = At(g.key) /\ ForKey(f.id, g.key, ts)
  /\ g.key # NoKey /\ f.kind = "ref" => f.key[1] # Main /\ Proper(f.key) = Proper(g.key)
  /\ g.kind \in Composites => g.next \in DOMAIN g.schema.subs /\ f.schema = g.schema.subs[g.next].schema
Linked(s, ts) ==
  \A i \in DOMAIN s : FrameIs(s[i]) /\ (i + 1 \in DOMAIN s => Under(s[i], s[i + 1], ts))

(* The parts that an allOf is going to remove belong to nobody else. *)
Parts(ts, s) ==
  /\ \A f \in Range(s) : \A p \in f.parts :
       f.kind \in Composites /\ p \in DOMAIN ts /\ Synthetic(f.id, p) /\ p \notin Values(ts, s)
  /\ \A i, j \in DOMAIN s : i # j => s[i].parts \cap s[j].parts = {}

Asked(h, a) ==
  h.kind \in Composites => h.next \in DOMAIN h.schema.subs /\ a.schema = h.schema.subs[h.next].schema
Arrived(h, t, ts) ==
  \/ Proper(h.key) \in DOMAIN ts
  \/ h.key[1] = Main /\ \E g \in Range(t) : g.key # NoKey /\ Proper(g.key) = Proper(h.key)
Answers(h, x, r, ts) == Fruitful(x) => r # NoId /\ (x.part => r \in DOMAIN ts /\ ts[r].kind = "object")
Answered(s, r, ts, td) ==
  LET h == Head(s) IN
  /\ r # NoId => r \in Promised(ts, s, td)
  /\ \A f \in Range(s) : r \notin f.parts
  /\ h.key # NoKey => r # NoId /\ Meant(r, h.key, ts) /\ Arrived(h, Tail(s), ts)
  /\ h.kind \in Composites =>
       /\ Synthetic(h.id, r) => r \notin Values(ts, s)
       /\ Answers(h, h.schema.subs[h.next], r, ts)

Steady(ts, s, td) == Kept(ts, s, td) /\ Linked(s, ts) /\ Parts(ts, s)
VInv ==
  Tidy =>
    /\ Steady(types, stack, todo) /\ Referred(dedup, types)
    /\ pc = "parse" => Asked(Head(stack), arg)
    /\ pc = "return" => Answered(stack, ret, types, todo)

(* All of this is about one description. *)
VNext ==
  /\ Steady(types', stack', todo') /\ Referred(dedup', types')
  /\ pc' = "parse" => Asked(Head(stack'), arg')
  /\ pc' = "return" => Answered(stack', ret', types', todo')

LEMMA VInvNext ==
  ASSUME spec' = spec, ~failed' => ~failed,
         Tidy /\ ~failed' => VNext
  PROVE  VInv'
<1>1. /\ NamesApart' <=> NamesApart
      /\ NamesWhatIsThere' <=> NamesWhatIsThere
      /\ NamesNoPart' <=> NamesNoPart
      /\ \A d : Names(d)' = Names(d)
      /\ \A d, n : Has(d, n)' <=> Has(d, n)
      /\ \A d, n : Schema(d, n)' = Schema(d, n)
      /\ Claims(spec)' = Claims(spec)
      /\ \A k : Base(k)' = Base(k)
      /\ \A td : Waiting(td)' = Waiting(td)
  <2>1. NamesApart' <=> NamesApart
    BY DEF NamesApart, Names
  <2>2. NamesWhatIsThere' <=> NamesWhatIsThere
    BY DEF NamesWhatIsThere, StandsFor
  <2> QED BY <2>1, <2>2 DEF NamesNoPart, Names, Has, Schema, Base, Waiting
<1>2. Tidy' <=> NamesApart /\ NamesWhatIsThere /\ NamesNoPart /\ ~failed'
  BY <1>1 DEF Tidy
<1>3. /\ \A k : Proper(k)' = Proper(k)
      /\ \A k : At(k)' = At(k)
  BY <1>1 DEF Proper, At
<1>4. /\ \A s : Due(s)' = Due(s)
      /\ \A x, k, ts : ForKey(x, k, ts)' <=> ForKey(x, k, ts)
      /\ \A f : FrameIs(f)' <=> FrameIs(f)
      /\ \A h, t, ts : Arrived(h, t, ts)' <=> Arrived(h, t, ts)
  BY <1>3 DEF Due, ForKey, FrameIs, Arrived
<1>5. /\ \A x, k, ts : Meant(x, k, ts)' <=> Meant(x, k, ts)
      /\ \A f, g, ts : Under(f, g, ts)' <=> Under(f, g, ts)
      /\ \A ts, s, td : Promised(ts, s, td)' = Promised(ts, s, td)
  BY <1>1, <1>3, <1>4 DEF Meant, Under, Promised
<1>6. /\ \A ts, s, td : Kept(ts, s, td)' <=> Kept(ts, s, td)
      /\ \A s, ts : Linked(s, ts)' <=> Linked(s, ts)
      /\ \A s, r, ts, td : Answered(s, r, ts, td)' <=> Answered(s, r, ts, td)
      /\ \A d, ts : Referred(d, ts)' <=> Referred(d, ts)
  BY <1>1, <1>4, <1>5 DEF Kept, Linked, Answered, Referred
<1>7. /\ Steady(types, stack, todo)' <=> Steady(types', stack', todo')
      /\ Referred(dedup, types)' <=> Referred(dedup', types')
      /\ Answered(stack, ret, types, todo)' <=> Answered(stack', ret', types', todo')
      /\ Asked(Head(stack), arg)' <=> Asked(Head(stack'), arg')
  BY <1>6 DEF Steady, Parts, Asked
<1> QED BY <1>1, <1>2, <1>7 DEF VInv, VNext, Tidy

-----------------------------------------------------------------------------
(* Names and roots. *)

(* A claim is made by a component that is a reference. *)
LEMMA ClaimIs ==
  ASSUME spec \in Specs, NEW k \in DOMAIN Claims(spec)
  PROVE  \E l \in Here : /\ l = <<Main, Claims(spec)[k]>> /\ l[1] = Main /\ l[2] = Claims(spec)[k]
                         /\ Base(l) = Claims(spec)[k]
                         /\ At(l).kind = "ref" /\ At(l).file = k[1] /\ At(l).target = k[2]
                         /\ k[1] \in DOMAIN spec.docs
<1> DEFINE main == spec.docs[Main]
           claims(i) == main[i].schema.kind = "ref" /\ main[i].schema.file \in DOMAIN spec.docs
           key(i) == <<main[i].schema.file, main[i].schema.target>>
           claimed == {i \in DOMAIN main : claims(i)}
           first == Min({i \in claimed : key(i) = k})
<1>1. k \in {key(i) : i \in claimed} /\ Claims(spec)[k] = main[first].name
  BY DEF Claims
<1>2. Main \in DOMAIN spec.docs /\ DOMAIN main \subseteq Nat
  BY SpecFacts
<1>3. first \in {i \in claimed : key(i) = k}
  <2> DEFINE S == {i \in claimed : key(i) = k}
  <2>1. S # {} /\ S \subseteq Nat
    BY <1>1, <1>2
  <2> HIDE DEF S
  <2> QED BY <2>1, MinIn DEF S
<1>4. PICK i \in DOMAIN main : claims(i) /\ key(i) = k /\ main[first] = main[i]
  BY <1>3
<1> DEFINE l == <<Main, main[i].name>>
<1>5. l \in Here /\ At(l) = main[i].schema
  BY <1>2, SchemaIs, NamedHere DEF At
<1>6. Base(l) = main[i].name
  BY <1>2, SpecFacts, NameBase
<1>7. k[1] = main[i].schema.file /\ k[2] = main[i].schema.target
  BY <1>4
<1> QED BY <1>1, <1>4, <1>5, <1>6, <1>7

(* The proper id of what is here, or claimed, is a root. *)
LEMMA ProperRoot ==
  ASSUME spec \in Specs, NEW k, k \in Here \/ k \in DOMAIN Claims(spec)
  PROVE  Proper(k) \in Roots
<1>1. CASE k \in DOMAIN Claims(spec)
  <2>1. PICK l \in Here : Base(l) = Claims(spec)[k]
    BY <1>1, ClaimIs
  <2> QED BY <1>1, <2>1 DEF Proper, Roots
<1>2. CASE k \notin DOMAIN Claims(spec)
  BY <1>2 DEF Proper, Roots
<1> QED BY <1>1, <1>2

LEMMA RootNotEmpty ==
  ASSUME spec \in Specs, NamesApart
  PROVE  /\ NoId \notin Roots /\ NullId \in Roots
         /\ \A q \in Roots, x \in Ids : IsPrefix(q, x) => x # NoId
<1>1. NullId \in Roots /\ Roots \subseteq Ids
  BY RootsApart DEF Roots
<1>2. NoId \in Ids /\ \A x \in Ids : IsPrefix(NoId, x)
  <2>1. NoId \in Ids
    BY IdsJoin DEF NoId
  <2>2. \A x \in Ids : NoId \o x = x
    BY DEF Ids, NoId
  <2> QED BY <2>1, <2>2, IdJoin
<1>3. NullId # NoId
  BY DEF NullId, NoId
<1>4. NoId \notin Roots
  BY <1>1, <1>2, <1>3, RootsApart
<1>5. ASSUME NEW q \in Roots, NEW x \in Ids, IsPrefix(q, x), x = NoId PROVE FALSE
  BY <1>1, <1>2, <1>4, <1>5, IdPrefix
<1> QED BY <1>1, <1>4, <1>5

(* What an orderly description says of the schema of a key. *)
LEMMA Orderly ==
  ASSUME spec \in Specs, NamesWhatIsThere, NEW k \in Here
  PROVE  /\ k[1] # Main => Solid(At(k)) /\ At(k).kind # "ref"
         /\ k[1] = Main => Proper(k) = k[2]
         /\ k[1] = Main /\ At(k).kind # "ref" => Solid(At(k))
         /\ k[1] = Main /\ At(k).kind = "ref" =>
              LET l == <<At(k).file, At(k).target>> IN
              /\ At(k).file \notin {"", Main}
              /\ At(k).file \in DOMAIN spec.docs => l \in DOMAIN Claims(spec) /\ Proper(l) = k[2]
<1>0. PICK d \in DOMAIN spec.docs : \E n : k = <<d, n>> /\ k[1] = d /\ k[2] = n /\ Has(d, n)
  BY NamedHere DEF Here
<1>1. PICK n : k = <<d, n>> /\ k[1] = d /\ k[2] = n /\ Has(d, n)
  BY <1>0
<1>2. PICK i \in DOMAIN spec.docs[d] : spec.docs[d][i].name = n /\ spec.docs[d][i].schema = Schema(d, n)
  BY <1>1, HasFacts
<1> DEFINE x == spec.docs[d][i]
<1>3. x \in Range(spec.docs[d]) /\ x.schema = At(k) /\ x.name = n
  BY <1>1, <1>2 DEF Range, At
<1>4. Solid(x.schema) \/ (d = Main /\ StandsFor(x))
  BY <1>3 DEF NamesWhatIsThere
<1>5. Solid(x.schema) => x.schema.kind # "ref"
  BY DEF Solid, Composites
<1>6. StandsFor(x) => x.schema.kind = "ref" /\ x.schema.file \notin {"", Main}
  BY DEF StandsFor
<1>7. \A l \in DOMAIN Claims(spec) : l[1] # Main
  <2> SUFFICES ASSUME NEW l \in DOMAIN Claims(spec), l[1] = Main PROVE FALSE
    OBVIOUS
  <2>1. PICK m \in Here : m[1] = Main /\ At(m).kind = "ref" /\ At(m).file = Main
    BY ClaimIs
  <2>0. PICK e \in DOMAIN spec.docs : \E o : m = <<e, o>> /\ m[1] = e /\ m[2] = o /\ Has(e, o)
    BY NamedHere DEF Here
  <2>2. PICK o : m = <<e, o>> /\ m[1] = e /\ m[2] = o /\ Has(e, o)
    BY <2>0
  <2>3. PICK j \in DOMAIN spec.docs[e] : spec.docs[e][j].schema = Schema(e, o)
    BY <2>2, HasFacts
  <2> DEFINE y == spec.docs[e][j]
  <2>4. y \in Range(spec.docs[e]) /\ y.schema = At(m)
    BY <2>2, <2>3 DEF Range, At
  <2>5. Solid(y.schema) \/ StandsFor(y)
    BY <2>4 DEF NamesWhatIsThere
  <2> QED BY <2>1, <2>4, <2>5 DEF Solid, StandsFor, Composites
<1>8. d = Main => Proper(k) = n
  <2> SUFFICES ASSUME d = Main PROVE Proper(k) = n
    OBVIOUS
  <2>1. n \in Ids
    BY <1>1, <1>2, SpecFacts
  <2> QED BY <1>1, <1>7, <2>1, NameBase DEF Proper
<1>9. ASSUME d = Main, StandsFor(x), x.schema.file \in DOMAIN spec.docs
      PROVE  LET l == <<x.schema.file, x.schema.target>> IN l \in DOMAIN Claims(spec) /\ Proper(l) = n
  <2> DEFINE l == <<x.schema.file, x.schema.target>>
  <2>1. l \in DOMAIN Claims(spec)
    BY <1>6, <1>9 DEF Claims
  <2>2. PICK m \in Here : /\ m[1] = Main /\ m[2] = Claims(spec)[l]
                          /\ At(m).kind = "ref" /\ At(m).file = l[1] /\ At(m).target = l[2]
    BY <2>1, ClaimIs
  <2>3. PICK o : m = <<Main, o>> /\ m[2] = o /\ Has(Main, o)
    <3>1. m = <<m[1], m[2]>> /\ IsNamed(m)
      BY NamedHere
    <3>2. m = <<Main, m[2]>> /\ Has(Main, m[2])
      BY ONLY <2>2, <3>1 DEF IsNamed
    <3> QED BY <3>2
  <2>4. PICK j \in DOMAIN spec.docs[Main] : spec.docs[Main][j].name = o /\ spec.docs[Main][j].schema = Schema(Main, o)
    BY <2>3, HasFacts
  <2> DEFINE y == spec.docs[Main][j]
  <2>5. y \in Range(spec.docs[Main]) /\ y.schema = At(m) /\ y.name = o
    BY <2>3, <2>4 DEF Range, At
  <2>6. y = x
    <3>1. y.schema.kind = "ref" /\ y.schema.file = x.schema.file /\ y.schema.target = x.schema.target
      BY <2>2, <2>5
    <3> HIDE DEF x, y
    <3> QED BY <1>9, <2>5, <3>1 DEF StandsFor
  <2> QED BY <1>3, <2>1, <2>2, <2>3, <2>5, <2>6 DEF Proper
<1> HIDE DEF x
<1> QED BY <1>1, <1>3, <1>4, <1>5, <1>6, <1>8, <1>9

(* An id that the parser made from a root. *)
Grounded(id) == id \in Ids /\ \E q \in Roots : IsPrefix(q, id)

LEMMA PartNotRoot ==
  ASSUME spec \in Specs, NamesApart, NEW id, Grounded(id), NEW x, Synthetic(id, x)
  PROVE  PartName(x) /\ x \notin Roots /\ ~NullNumeral(x) /\ x # NullId /\ x # id
<1>1. PartName(x)
  BY DEF Synthetic, PartName
<1>2. PICK k \in DOMAIN x : SubSeq(x, 1, k - 1) = id
  BY DEF Synthetic
<1>3. PICK q \in Roots : IsPrefix(q, id)
  BY DEF Grounded
<1>4. Roots \subseteq Ids /\ id \in Ids /\ \A p, r \in Roots : IsPrefix(p, r) => p = r
  BY RootsApart DEF Grounded
<1>5. ASSUME x \in Ids PROVE IsPrefix(id, x) /\ x # id
  <2> DEFINE P == STRING \union Words \union {ToString(j) : j \in Nat}
  <2>1. x \in Seq(P) /\ id \in Seq(P) /\ k \in 1..Len(x) /\ Len(x) \in Nat
    BY <1>4, <1>5 DEF Ids
  <2> HIDE DEF P
  <2>2. Len(id) = k - 1 /\ \A i \in 1..(k - 1) : id[i] = x[i]
    BY <1>2, <2>1, SubSeqProperties
  <2>3. Len(id) <= Len(x) /\ Len(id) # Len(x)
    BY <2>1, <2>2
  <2> QED BY <2>1, <2>2, <2>3, PrefixIs
<1>6. x \notin Roots
  <2> SUFFICES ASSUME x \in Roots PROVE FALSE
    OBVIOUS
  <2>1. x \in Ids /\ IsPrefix(id, x) /\ x # id
    BY <1>4, <1>5
  <2>2. IsPrefix(q, x)
    BY <1>3, <1>4, <2>1, IdPrefix
  <2>3. q = x
    BY <1>4, <2>2
  <2> QED BY <1>3, <1>4, <2>1, <2>3, IdPrefix
<1> QED BY <1>1, <1>4, <1>5, <1>6, NullIsNoPart DEF Roots

(* Names, proper ids and their stand-ins are no parts. *)
LEMMA MeantNoPart ==
  ASSUME spec \in Specs, NamesApart, NEW id, Grounded(id), NEW x, NEW k, NEW ts,
         k \in Here \/ k \in DOMAIN Claims(spec), ForKey(x, k, ts)
  PROVE  ~Synthetic(id, x)
BY ProperRoot, PartNotRoot DEF ForKey

LEMMA NamesAreRoots ==
  ASSUME spec \in Specs
  PROVE  Names(Main) \subseteq Roots
<1> SUFFICES ASSUME NEW n \in Names(Main) PROVE n \in Roots
  OBVIOUS
<1>1. PICK i \in DOMAIN spec.docs[Main] : spec.docs[Main][i].name = n
  BY DEF Names, Range
<1>2. <<Main, n>> \in Here /\ n \in Ids
  BY <1>1, SpecFacts, SchemaIs
<1>3. Base(<<Main, n>>) = n
  BY <1>2, NameBase
<1> QED BY <1>2, <1>3 DEF Roots

-----------------------------------------------------------------------------
(* What becomes of a steady state when a call is made or returns, when the  *)
(* pool grows and when it loses parts.                                      *)

LEMMA ValuesIs ==
  ASSUME NEW ts, NEW s, NEW x
  PROVE  x \in Values(ts, s) <=> \/ \E id \in DOMAIN ts : x \in ValuesOf(ts[id].props)
                                 \/ \E g \in Range(s) : x \in ValuesOf(g.props)
<1> DEFINE A == {ValuesOf(ts[id].props) : id \in DOMAIN ts}
           B == {ValuesOf(g.props) : g \in Range(s)}
<1>1. x \in Values(ts, s) <=> x \in UNION A \/ x \in UNION B
  BY DEF Values
<1>2. x \in UNION A <=> \E id \in DOMAIN ts : x \in ValuesOf(ts[id].props)
  BY Zenon
<1>3. x \in UNION B <=> \E g \in Range(s) : x \in ValuesOf(g.props)
  BY Zenon
<1> HIDE DEF A, B
<1> QED BY <1>1, <1>2, <1>3

(* The stack s is f and the frames of t. *)
Joined(s, f, t) == Range(s) = {f} \union Range(t)

LEMMA RangeParts ==
  ASSUME NEW ts, NEW s, NEW t, NEW f, Joined(s, f, t)
  PROVE  /\ Values(ts, s) = Values(ts, t) \union ValuesOf(f.props)
         /\ Due(t) \subseteq Due(s) /\ \A x \in Due(s) : x \in Due(t) \/ (f.key # NoKey /\ x = Proper(f.key))
         /\ f.key # NoKey => Proper(f.key) \in Due(s)
<1>1. \A x : x \in Values(ts, s) <=> x \in Values(ts, t) \/ x \in ValuesOf(f.props)
  <2>1. \A x : (\E g \in Range(s) : x \in ValuesOf(g.props))
                <=> (\E g \in Range(t) : x \in ValuesOf(g.props)) \/ x \in ValuesOf(f.props)
    BY DEF Joined
  <2> QED BY <2>1, ValuesIs
<1>2. \A x : x \in Due(s) <=> \E g \in Range(s) : g.key # NoKey /\ x = Proper(g.key)
  BY DEF Due
<1>3. \A x : x \in Due(t) <=> \E g \in Range(t) : g.key # NoKey /\ x = Proper(g.key)
  BY DEF Due
<1>4. Values(ts, s) = Values(ts, t) \union ValuesOf(f.props)
  BY <1>1
<1>5. \A x \in Due(s) : x \in Due(t) \/ (f.key # NoKey /\ x = Proper(f.key))
  BY <1>2, <1>3 DEF Joined
<1>6. Due(t) \subseteq Due(s) /\ (f.key # NoKey => Proper(f.key) \in Due(s))
  BY <1>2, <1>3 DEF Joined
<1> QED BY <1>4, <1>5, <1>6

LEMMA PushSteady ==
  ASSUME NEW ts, NEW s, s \in Seq(Range(s)), NEW td, NEW td2, Steady(ts, s, td),
         NEW f, f.props = NoDefs, f.parts = {}, FrameIs(f), s # <<>> => Under(f, Head(s), ts),
         Waiting(td) \subseteq Waiting(td2) \union Due(<<f>> \o s)
  PROVE  Steady(ts, <<f>> \o s, td2)
<1> DEFINE t == <<f>> \o s
<1>1. /\ t[1] = f /\ \A i \in DOMAIN s : t[i + 1] = s[i]
      /\ Len(s) \in Nat /\ DOMAIN s = 1..Len(s) /\ DOMAIN t = 1..(Len(s) + 1)
      /\ Range(t) = {f} \union Range(s) /\ (s # <<>> => Head(s) = s[1])
  BY PushSeq
<1>2. Kept(ts, s, td) /\ Linked(s, ts) /\ Parts(ts, s)
  BY DEF Steady
<1> HIDE DEF t
<1>3. Values(ts, t) = Values(ts, s) /\ Due(s) \subseteq Due(t)
  <2>1. ValuesOf(f.props) = {}
    BY DEF ValuesOf, NoDefs
  <2>2. Joined(t, f, s)
    BY <1>1 DEF Joined
  <2>3. Values(ts, t) = Values(ts, s) \union ValuesOf(f.props) /\ Due(s) \subseteq Due(t)
    BY <2>2, RangeParts
  <2> QED BY <2>1, <2>3
<1>4. Kept(ts, t, td2)
  BY <1>2, <1>3 DEF Kept, Promised, t
<1>5. \A i \in DOMAIN t : i = 1 \/ (i - 1 \in DOMAIN s /\ t[i] = s[i - 1])
  <2> SUFFICES ASSUME NEW i \in DOMAIN t, i # 1 PROVE i - 1 \in DOMAIN s /\ t[i] = s[i - 1]
    OBVIOUS
  <2>1. i - 1 \in DOMAIN s /\ (i - 1) + 1 = i
    BY <1>1
  <2> QED BY <1>1, <2>1
<1>6. Linked(t, ts)
  <2> SUFFICES ASSUME NEW i \in DOMAIN t
               PROVE  FrameIs(t[i]) /\ (i + 1 \in DOMAIN t => Under(t[i], t[i + 1], ts))
    BY DEF Linked
  <2>1. CASE i = 1
    <3>1. 1 + 1 \in DOMAIN t => s # <<>> /\ 1 \in DOMAIN s
      BY <1>1
    <3>2. 1 + 1 \in DOMAIN t => t[1 + 1] = Head(s)
      BY <1>1, <3>1
    <3> QED BY <1>1, <2>1, <3>1, <3>2
  <2>2. CASE i # 1
    <3> DEFINE j == i - 1
    <3>1. j \in DOMAIN s /\ t[i] = s[j]
      BY <1>5, <2>2
    <3>2. i + 1 \in DOMAIN t => j + 1 \in DOMAIN s /\ (j + 1) + 1 = i + 1
      BY <1>1, <3>1
    <3> HIDE DEF j
    <3>3. i + 1 \in DOMAIN t => t[i + 1] = s[j + 1]
      BY <1>1, <3>2
    <3> QED BY <1>2, <3>1, <3>2, <3>3 DEF Linked
  <2> QED BY <2>1, <2>2
<1>7. Parts(ts, t)
  <2>1. \A g \in Range(t) : \A p \in g.parts :
          g.kind \in Composites /\ p \in DOMAIN ts /\ Synthetic(g.id, p) /\ p \notin Values(ts, t)
    BY <1>1, <1>2, <1>3 DEF Parts
  <2>2. ASSUME NEW i \in DOMAIN t, NEW j \in DOMAIN t, i # j PROVE t[i].parts \cap t[j].parts = {}
    <3>1. CASE i = 1 \/ j = 1
      BY <1>1, <3>1
    <3>2. CASE i # 1 /\ j # 1
      <4>1. /\ i - 1 \in DOMAIN s /\ t[i] = s[i - 1]
            /\ j - 1 \in DOMAIN s /\ t[j] = s[j - 1]
        BY <1>5, <3>2
      <4>2. i - 1 # j - 1
        BY <1>1, <2>2
      <4> QED BY <1>2, <4>1, <4>2 DEF Parts
    <3> QED BY <3>1, <3>2
  <2> QED BY <2>1, <2>2 DEF Parts
<1> QED BY <1>4, <1>6, <1>7 DEF Steady, t

(* What holds below the innermost call. *)
LEMMA BelowHead ==
  ASSUME NEW ts, NEW s, s \in Seq(Range(s)), s # <<>>, Linked(s, ts), Parts(ts, s)
  PROVE  LET h == Head(s)
             t == Tail(s)
         IN /\ t \in Seq(Range(t)) /\ Range(s) = {h} \union Range(t)
            /\ Linked(t, ts) /\ FrameIs(h) /\ (t # <<>> => Under(h, Head(t), ts))
            /\ \A i, j \in DOMAIN t : i # j => t[i].parts \cap t[j].parts = {}
            /\ \A g \in Range(t) : h.parts \cap g.parts = {}
<1> DEFINE h == Head(s)
           t == Tail(s)
<1>1. /\ t \in Seq(Range(t)) /\ Len(s) \in Nat \ {0} /\ DOMAIN s = 1..Len(s) /\ h = s[1]
      /\ DOMAIN t = 1..(Len(s) - 1) /\ \A i \in DOMAIN t : t[i] = s[i + 1]
      /\ Range(s) = {h} \union Range(t) /\ Len(t) = Len(s) - 1
  BY PopSeq
<1> HIDE DEF h, t
<1>2. 1 \in DOMAIN s /\ \A i \in DOMAIN t : i + 1 \in DOMAIN s /\ i + 1 # 1 /\ i \in Nat
  BY <1>1
<1>3. Linked(t, ts)
  <2> SUFFICES ASSUME NEW i \in DOMAIN t
               PROVE  FrameIs(t[i]) /\ (i + 1 \in DOMAIN t => Under(t[i], t[i + 1], ts))
    BY DEF Linked
  <2> DEFINE j == i + 1
  <2>1. j \in DOMAIN s /\ t[i] = s[j]
    BY <1>1, <1>2
  <2>2. j \in DOMAIN t => j + 1 \in DOMAIN s /\ t[j] = s[j + 1]
    <3> HIDE DEF j
    <3> QED BY <1>1, <1>2
  <2> HIDE DEF j
  <2>3. FrameIs(s[j]) /\ (j + 1 \in DOMAIN s => Under(s[j], s[j + 1], ts))
    BY <2>1 DEF Linked
  <2> QED BY <2>1, <2>2, <2>3 DEF j
<1>4. FrameIs(h)
  BY <1>1, <1>2 DEF Linked
<1>5. t # <<>> => Under(h, Head(t), ts)
  <2> SUFFICES ASSUME t # <<>> PROVE Under(h, Head(t), ts)
    OBVIOUS
  <2>1. Head(t) = t[1] /\ Len(t) \in Nat \ {0} /\ DOMAIN t = 1..Len(t)
    BY <1>1, PopSeq
  <2>2. 1 \in DOMAIN t
    BY <2>1
  <2>3. 1 + 1 \in DOMAIN s /\ t[1] = s[1 + 1]
    BY <1>1, <1>2, <2>2
  <2> QED BY <1>1, <1>2, <2>1, <2>3 DEF Linked
<1>6. ASSUME NEW i \in DOMAIN t, NEW j \in DOMAIN t, i # j PROVE t[i].parts \cap t[j].parts = {}
  <2>1. i + 1 # j + 1
    BY <1>2, <1>6
  <2> QED BY <1>1, <1>2, <2>1 DEF Parts
<1>7. ASSUME NEW g \in Range(t) PROVE h.parts \cap g.parts = {}
  <2>1. PICK i \in DOMAIN t : g = t[i]
    BY DEF Range
  <2> QED BY <1>1, <1>2, <2>1 DEF Parts
<1> QED BY <1>1, <1>3, <1>4, <1>5, <1>6, <1>7 DEF h, t

LEMMA PopSteady ==
  ASSUME NEW ts, NEW s, s \in Seq(Range(s)), s # <<>>, NEW td, Steady(ts, s, td),
         Head(s).key # NoKey => Proper(Head(s).key) \in DOMAIN ts \union Due(Tail(s))
  PROVE  Steady(ts, Tail(s), td)
<1> DEFINE h == Head(s)
           t == Tail(s)
<1>1. Kept(ts, s, td) /\ Linked(s, ts) /\ Parts(ts, s)
  BY DEF Steady
<1>2. /\ Range(s) = {h} \union Range(t) /\ Linked(t, ts)
      /\ \A i, j \in DOMAIN t : i # j => t[i].parts \cap t[j].parts = {}
  BY <1>1, BelowHead
<1>3. /\ Values(ts, s) = Values(ts, t) \union ValuesOf(h.props)
      /\ \A x \in Due(s) : x \in Due(t) \/ (h.key # NoKey /\ x = Proper(h.key))
  BY <1>2, RangeParts DEF Joined
<1> HIDE DEF h, t
<1>4. Kept(ts, t, td)
  BY <1>1, <1>3 DEF Kept, Promised, h, t
<1>5. Parts(ts, t)
  BY <1>1, <1>2, <1>3 DEF Parts
<1> QED BY <1>2, <1>4, <1>5 DEF Steady, t

(* The frames of composites carry no key and an id with a root. *)
AllGrounded(s) == \A f \in Range(s) : f.kind \in Composites => f.key = NoKey /\ Grounded(f.id)

LEMMA PartIs ==
  ASSUME spec \in Specs, NamesApart, NEW ts, NEW s, AllGrounded(s), Parts(ts, s),
         NEW f \in Range(s), NEW p \in f.parts
  PROVE  p \notin Roots /\ ~NullNumeral(p) /\ p # NullId /\ p # f.id
BY PartNotRoot DEF Parts, AllGrounded

LEMMA GrowSteady ==
  ASSUME spec \in Specs, NamesApart, NEW ts, NEW s, AllGrounded(s), NEW td, Steady(ts, s, td),
         NEW new, NEW N, DOMAIN ts \subseteq DOMAIN new, NoId \notin DOMAIN new,
         Values(new, s) \subseteq Values(ts, s) \union N, N \subseteq DOMAIN new,
         N \cap DOMAIN ts \subseteq {NullId}
  PROVE  Steady(new, s, td)
<1>1. Kept(ts, s, td) /\ Linked(s, ts) /\ Parts(ts, s)
  BY DEF Steady
<1>2. Kept(new, s, td)
  BY <1>1 DEF Kept, Promised
<1>3. Linked(s, new)
  BY <1>1 DEF Linked, Under, ForKey
<1>4. Parts(new, s)
  BY <1>1, PartIs DEF Parts
<1> QED BY <1>2, <1>3, <1>4 DEF Steady

LEMMA RemoveSteady ==
  ASSUME spec \in Specs, NamesApart, NEW ts, NEW s, s \in Seq(Range(s)), s # <<>>,
         AllGrounded(s), NEW td, Steady(ts, s, td), Head(s).kind \in Composites
  PROVE  Steady(Without(ts, Head(s).parts), Tail(s), td)
<1> DEFINE h == Head(s)
           t == Tail(s)
           new == Without(ts, h.parts)
<1>1. Kept(ts, s, td) /\ Linked(s, ts) /\ Parts(ts, s)
  BY DEF Steady
<1>2. /\ Range(s) = {h} \union Range(t) /\ Linked(t, ts)
      /\ \A i, j \in DOMAIN t : i # j => t[i].parts \cap t[j].parts = {}
      /\ \A g \in Range(t) : h.parts \cap g.parts = {}
  BY <1>1, BelowHead
<1>3. h.key = NoKey
  BY <1>2 DEF AllGrounded
<1>4. /\ Values(ts, s) = Values(ts, t) \union ValuesOf(h.props)
      /\ Due(s) \subseteq Due(t)
  BY <1>2, <1>3, RangeParts DEF Joined
<1>5. DOMAIN new = DOMAIN ts \ h.parts /\ \A id \in DOMAIN new : new[id] = ts[id]
  BY DEF Without
<1>6. \A p \in h.parts : p \notin Roots /\ p # NullId /\ p \notin Values(ts, s)
  BY <1>1, <1>2, PartIs DEF Parts
<1> HIDE DEF h, t, new
<1>7. Values(new, t) \subseteq Values(ts, s)
  <2>1. Values(new, t) \subseteq Values(ts, t)
    BY <1>5 DEF Values
  <2> QED BY <1>4, <2>1
<1>8. Kept(new, t, td)
  BY <1>1, <1>4, <1>5, <1>6, <1>7, NamesAreRoots DEF Kept, Promised
<1>9. Linked(t, new)
  <2>1. NullId \in DOMAIN ts => NullId \in DOMAIN new
    BY <1>5, <1>6
  <2> QED BY <1>2, <2>1 DEF Linked, Under, ForKey
<1>10. Parts(new, t)
  <2> SUFFICES ASSUME NEW g \in Range(t), NEW p \in g.parts
               PROVE  g.kind \in Composites /\ p \in DOMAIN new /\ Synthetic(g.id, p) /\ p \notin Values(new, t)
    BY <1>2 DEF Parts
  <2>1. g \in Range(s) /\ p \notin h.parts
    BY <1>2
  <2> QED BY <1>1, <1>5, <1>7, <2>1 DEF Parts
<1> QED BY <1>8, <1>9, <1>10 DEF Steady, h, t, new

(* The innermost call takes values N and parts M. *)
LEMMA SwapSteady ==
  ASSUME NEW ts, NEW s, s \in Seq(Range(s)), s # <<>>, NEW td, Steady(ts, s, td), NEW f,
         f.kind = Head(s).kind, f.id = Head(s).id, f.schema = Head(s).schema, f.key = Head(s).key,
         FrameIs(f), NEW N, NEW M,
         ValuesOf(f.props) \subseteq Values(ts, s) \union N, N \subseteq Promised(ts, s, td),
         \A g \in Range(s) : N \cap g.parts = {},
         f.parts = Head(s).parts \union M, M # {} => f.kind \in Composites,
         \A p \in M : /\ p \in DOMAIN ts /\ Synthetic(f.id, p) /\ p \notin Values(ts, s) \union N
                      /\ \A g \in Range(s) : p \notin g.parts
  PROVE  Steady(ts, <<f>> \o Tail(s), td)
<1> DEFINE h == Head(s)
           t == Tail(s)
           u == <<f>> \o t
<1>1. Kept(ts, s, td) /\ Linked(s, ts) /\ Parts(ts, s)
  BY DEF Steady
<1>2. /\ t \in Seq(Range(t)) /\ Range(s) = {h} \union Range(t)
      /\ Linked(t, ts) /\ (t # <<>> => Under(h, Head(t), ts))
      /\ \A i, j \in DOMAIN t : i # j => t[i].parts \cap t[j].parts = {}
      /\ \A g \in Range(t) : h.parts \cap g.parts = {}
  BY <1>1, BelowHead
<1> HIDE DEF h, t
<1>3. /\ u[1] = f /\ \A i \in DOMAIN t : u[i + 1] = t[i]
      /\ Len(t) \in Nat /\ DOMAIN t = 1..Len(t) /\ DOMAIN u = 1..(Len(t) + 1)
      /\ Range(u) = {f} \union Range(t) /\ (t # <<>> => Head(t) = t[1])
  BY <1>2, PushSeq
<1> HIDE DEF u
<1>r. Joined(s, h, t) /\ Joined(u, f, t)
  BY <1>2, <1>3 DEF Joined
<1>v. /\ Values(ts, s) = Values(ts, t) \union ValuesOf(h.props)
      /\ \A x \in Due(s) : x \in Due(t) \/ (h.key # NoKey /\ x = Proper(h.key))
  BY ONLY <1>r, RangeParts
<1>w. /\ Values(ts, u) = Values(ts, t) \union ValuesOf(f.props)
      /\ Due(t) \subseteq Due(u) /\ (f.key # NoKey => Proper(f.key) \in Due(u))
  BY ONLY <1>r, RangeParts
<1>4. Values(ts, u) \subseteq Values(ts, s) \union N
  <2>1. Values(ts, t) \subseteq Values(ts, s)
    BY <1>v
  <2>2. ValuesOf(f.props) \subseteq Values(ts, s) \union N
    OBVIOUS
  <2> QED BY ONLY <1>w, <2>1, <2>2
<1>5. Due(s) \subseteq Due(u)
  BY <1>v, <1>w DEF h
<1>6. Kept(ts, u, td)
  <2>1. Promised(ts, s, td) \subseteq Promised(ts, u, td)
    BY <1>5 DEF Promised
  <2> QED BY <1>1, <1>4, <2>1 DEF Kept
<1>7. \A i \in DOMAIN u : i = 1 \/ (i - 1 \in DOMAIN t /\ u[i] = t[i - 1])
  <2> SUFFICES ASSUME NEW i \in DOMAIN u, i # 1 PROVE i - 1 \in DOMAIN t /\ u[i] = t[i - 1]
    OBVIOUS
  <2>1. i - 1 \in DOMAIN t /\ (i - 1) + 1 = i
    BY <1>3
  <2> QED BY <1>3, <2>1
<1>8. Linked(u, ts)
  <2> SUFFICES ASSUME NEW i \in DOMAIN u
               PROVE  FrameIs(u[i]) /\ (i + 1 \in DOMAIN u => Under(u[i], u[i + 1], ts))
    BY DEF Linked
  <2>1. CASE i = 1
    <3>1. 1 + 1 \in DOMAIN u => t # <<>> /\ 1 \in DOMAIN t
      BY <1>3
    <3>2. 1 + 1 \in DOMAIN u => u[1 + 1] = Head(t)
      BY <1>3, <3>1
    <3>3. t # <<>> => Under(f, Head(t), ts)
      BY <1>2 DEF Under, h
    <3> QED BY <1>3, <2>1, <3>1, <3>2, <3>3
  <2>2. CASE i # 1
    <3> DEFINE j == i - 1
    <3>1. j \in DOMAIN t /\ u[i] = t[j]
      BY <1>7, <2>2
    <3>2. i + 1 \in DOMAIN u => j + 1 \in DOMAIN t /\ (j + 1) + 1 = i + 1
      BY <1>3, <3>1
    <3> HIDE DEF j
    <3>3. i + 1 \in DOMAIN u => u[i + 1] = t[j + 1]
      BY <1>3, <3>2
    <3> QED BY <1>2, <3>1, <3>2, <3>3 DEF Linked
  <2> QED BY <2>1, <2>2
<1>9. Parts(ts, u)
  <2>1. ASSUME NEW g \in Range(u), NEW p \in g.parts
        PROVE  g.kind \in Composites /\ p \in DOMAIN ts /\ Synthetic(g.id, p) /\ p \notin Values(ts, u)
    <3>1. CASE p \in M /\ g = f
      BY <1>4, <3>1
    <3>2. CASE g \in Range(t) \/ (g = f /\ p \in h.parts)
      <4>1. \E k \in Range(s) : k.id = g.id /\ k.kind = g.kind /\ p \in k.parts
        BY <1>2, <2>1, <3>2 DEF h
      <4>2. p \notin N
        BY <4>1
      <4> QED BY <1>1, <1>4, <4>1, <4>2 DEF Parts
    <3> QED BY <1>3, <2>1, <3>1, <3>2 DEF h
  <2>2. \A g \in Range(t) : f.parts \cap g.parts = {}
    BY <1>2 DEF h
  <2>3. \A i \in DOMAIN t : t[i] \in Range(t)
    BY DEF Range
  <2>4. ASSUME NEW i \in DOMAIN u, NEW j \in DOMAIN u, i # j PROVE u[i].parts \cap u[j].parts = {}
    <3>1. CASE i = 1
      <4>1. j - 1 \in DOMAIN t /\ u[j] = t[j - 1]
        BY <1>7, <2>4, <3>1
      <4> QED BY <1>3, <2>2, <2>3, <3>1, <4>1
    <3>2. CASE j = 1
      <4>1. i - 1 \in DOMAIN t /\ u[i] = t[i - 1]
        BY <1>7, <2>4, <3>2
      <4> QED BY <1>3, <2>2, <2>3, <3>2, <4>1
    <3>3. CASE i # 1 /\ j # 1
      <4>1. /\ i - 1 \in DOMAIN t /\ u[i] = t[i - 1]
            /\ j - 1 \in DOMAIN t /\ u[j] = t[j - 1]
        BY <1>7, <3>3
      <4>2. i - 1 # j - 1
        BY <1>3, <2>4
      <4> QED BY <1>2, <4>1, <4>2
    <3> QED BY <3>1, <3>2, <3>3
  <2> QED BY <2>1, <2>4 DEF Parts
<1> QED BY <1>6, <1>8, <1>9 DEF Steady, t, u

-----------------------------------------------------------------------------
(* The state between two steps. *)
Now == IInv /\ TInv /\ RInv /\ VInv /\ Tidy

LEMMA NowHas ==
  ASSUME Now
  PROVE  /\ spec \in Specs /\ NamesApart /\ NamesWhatIsThere /\ NamesNoPart
         /\ Steady(types, stack, todo) /\ Kept(types, stack, todo) /\ Linked(stack, types)
         /\ Parts(types, stack) /\ Referred(dedup, types)
         /\ pc = "parse" => Asked(Head(stack), arg)
         /\ pc = "return" => Answered(stack, ret, types, todo)
         /\ stack \in Seq(Range(stack))
         /\ \A f \in Range(stack) : FrameOk(f)
BY DEF Now, VInv, Tidy, Steady, TInv, IInv, Consistent, WellFormed

LEMMA Frames ==
  ASSUME Now
  PROVE  /\ AllGrounded(stack)
         /\ \A f \in Range(stack) : /\ f.key = NoKey \/ f.key \in Here
                                    /\ f.kind = "ref" => f.key \in Here
                                    /\ f.kind = "root" /\ f.key # NoKey => f.key[1] = Main
                                    /\ f.kind \in Composites => f.id \notin DOMAIN types \/ f.id \in Roots
<1> DEFINE n == Len(stack)
           c == Calls(stack)
<1>1. CallsOk(stack, types) /\ spec \in Specs
  BY NowHas DEF Now, RInv, Tidy
<1>2. n \in Nat /\ DOMAIN stack = 1..n
  BY NowHas
<1> SUFFICES ASSUME NEW f \in Range(stack)
             PROVE  /\ f.kind \in Composites => f.key = NoKey /\ Grounded(f.id)
                    /\ f.key = NoKey \/ f.key \in Here
                    /\ f.kind = "ref" => f.key \in Here
                    /\ f.kind = "root" /\ f.key # NoKey => f.key[1] = Main
                    /\ f.kind \in Composites => f.id \notin DOMAIN types \/ f.id \in Roots
  BY DEF AllGrounded
<1>3. PICK i \in 1..n : f = stack[i]
  BY <1>2 DEF Range
<1> DEFINE k == n + 1 - i
<1>4. k \in 1..n /\ n + 1 - k = i
  BY <1>2
<1>5. c[k] = Call(f)
  BY <1>3, <1>4 DEF Calls
<1>6. CallOk(c, k, types)
  BY <1>1, <1>4 DEF CallsOk
<1> HIDE DEF k, c, n
<1>7. f.kind = c[k].kind /\ f.key = c[k].key /\ f.id = c[k].id /\ f.schema = c[k].schema
  BY <1>5 DEF Call
<1>8. f.kind \in Composites => f.key = NoKey
  BY <1>3, <1>2 DEF Now, IInv, Consistent, WellFormed, n
<1>9. f.kind \in Composites => BuildOk(c, k, f.id, f.schema, types) /\ f.id \in Ids
  BY <1>6, <1>7 DEF CallOk
<1>10. f.kind \in Composites => Grounded(f.id)
  BY <1>9 DEF BuildOk, Rooted, Grounded
<1>11. f.kind \in Composites => f.id \notin DOMAIN types \/ f.id \in Roots
  <2>1. \A id, m, x : Own(c, m, id, x) => id \in Roots
    <3> SUFFICES ASSUME NEW id, Has(Main, id) PROVE id \in Roots
      BY DEF Own
    <3>1. id \in Names(Main)
      BY DEF Has, Names, Range
    <3> QED BY <1>1, <3>1, NamesAreRoots
  <2> QED BY <1>9, <2>1 DEF BuildOk
<1> QED BY <1>6, <1>7, <1>8, <1>10, <1>11 DEF CallOk, RefOk

(* Whoever asks for the schema of a key asks for it under its proper name.  *)
LEMMA HeadAsks ==
  ASSUME Now, pc = "parse"
  PROVE  LET h == Head(stack) IN
         /\ stack # <<>> /\ h \in Range(stack) /\ AtParse(h, arg, types) /\ FrameIs(h)
         /\ h.key # NoKey => /\ h.key \in Here /\ arg.schema = At(h.key)
                             /\ arg.hint.named /\ arg.hint.base = Proper(h.key)
         /\ arg.hint.named => h.key # NoKey
         /\ h.kind \in Composites => h.key = NoKey /\ Grounded(h.id)
         /\ h.kind # "root" => ~(h.kind = "ref" /\ h.key = NoKey)
<1> DEFINE h == Head(stack)
<1>1. stack # <<>> /\ AtParse(h, arg, types)
  BY DEF Now, IInv, RInv, Tidy
<1>2. h \in Range(stack) /\ FrameIs(h)
  <2>1. Linked(stack, types) /\ Parts(types, stack) /\ stack \in Seq(Range(stack))
    BY NowHas
  <2> QED BY <1>1, <2>1, BelowHead
<1>3. /\ h.kind \in Composites => h.key = NoKey /\ Grounded(h.id)
      /\ h.kind = "ref" => h.key \in Here /\ h.key # NoKey
  BY <1>2, Frames, NamedHere DEF AllGrounded, IsNamed
<1> HIDE DEF h
<1>4. ASSUME h.key # NoKey
      PROVE  h.key \in Here /\ arg.schema = At(h.key) /\ arg.hint.named /\ arg.hint.base = Proper(h.key)
  <2>1. h.key \in Here
    BY <1>2, <1>4, Frames
  <2>2. CASE h.kind = "ref"
    BY <1>1, <1>2, <2>1, <2>2 DEF AtParse, FrameIs, Named, Composites
  <2>3. CASE h.kind = "root"
    <3>1. h.key = <<Main, arg.hint.base>> /\ arg.schema = At(h.key) /\ arg.hint.named
      BY <1>1, <1>4, <2>3 DEF AtParse, Composites
    <3>2. Proper(h.key) = h.key[2]
      BY <2>1, <3>1, NowHas, Orderly
    <3> QED BY <1>1, <2>1, <3>1, <3>2
  <2> QED BY <1>1, <1>3, <1>4, <2>2, <2>3 DEF AtParse
<1>5. arg.hint.named => h.key # NoKey
  BY <1>1, <1>3 DEF AtParse, Inline
<1> QED BY <1>1, <1>2, <1>3, <1>4, <1>5 DEF h

LEMMA RootCalled ==
  ASSUME Now, pc = "root", UNCHANGED <<spec, types, dedup>>, NEW s, NEW key, NEW hint,
         stack' = <<Frame("root", NoId, s, key)>>, pc' = "parse", arg' = [schema |-> s, hint |-> hint],
         Waiting(todo) \subseteq Waiting(todo') \union Due(stack')
  PROVE  VNext
<1> DEFINE f == Frame("root", NoId, s, key)
<1>1. stack = <<>> /\ Steady(types, stack, todo) /\ Referred(dedup, types) /\ stack \in Seq(Range(stack))
  BY NowHas DEF Now, IInv
<1>2. stack' = <<f>> \o stack
  BY <1>1
<1>3. f.kind = "root" /\ f.props = NoDefs /\ f.parts = {}
  BY DEF Frame
<1> HIDE DEF f
<1>4. FrameIs(f)
  BY <1>3 DEF FrameIs, Composites
<1>5. Steady(types, <<f>> \o stack, todo')
  BY <1>1, <1>2, <1>3, <1>4, PushSteady
<1>6. Head(stack') = f
  BY <1>1, <1>2, PushSeq
<1>7. Asked(Head(stack'), arg')
  BY <1>3, <1>6 DEF Asked, Composites
<1> QED BY <1>1, <1>2, <1>5, <1>7 DEF VNext

LEMMA WalkComponentV ==
  ASSUME Now, WalkComponent
  PROVE  VNext
<1> DEFINE i == NextComponent
           c == spec.docs[Main][i]
           key == <<Main, c.name>>
           f == Frame("root", NoId, c.schema, key)
<1>1. /\ pc = "root" /\ todo # {} /\ UNCHANGED <<spec, types, dedup>> /\ todo' = todo \ {i}
      /\ stack' = <<f>> /\ pc' = "parse" /\ arg' = [schema |-> c.schema, hint |-> Named(c.name)]
  BY DEF WalkComponent, pool, Parse
<1>2. i \in DOMAIN spec.docs[Main] /\ spec \in Specs
  BY <1>1, ChosenComponent DEF Now, TInv
<1>3. key \in Here /\ Proper(key) = c.name
  <2>1. key \in Here
    BY <1>2, SpecFacts, SchemaIs
  <2>2. Proper(key) = key[2]
    BY <2>1, NowHas, Orderly
  <2> QED BY <2>1, <2>2
<1>4. f.key = key /\ key # NoKey
  BY DEF Frame, NoKey
<1>5. c.name \in Due(stack')
  <2>1. f \in Range(stack')
    BY <1>1 DEF Range
  <2> HIDE DEF f, key, c
  <2> QED BY <1>3, <1>4, <2>1 DEF Due
<1>6. Waiting(todo) \subseteq Waiting(todo') \union Due(stack')
  BY <1>1, <1>5 DEF Waiting
<1> QED BY <1>1, <1>6, RootCalled

LEMMA WalkUseV ==
  ASSUME Now, WalkUse
  PROVE  VNext
<1> DEFINE s == spec.uses[used + 1]
           hint == Inline(<<"op">>, <<"request", "body">>)
<1>1. /\ pc = "root" /\ UNCHANGED <<spec, types, dedup, todo>>
      /\ stack' = <<Frame("root", NoId, s, NoKey)>> /\ pc' = "parse"
      /\ arg' = [schema |-> s, hint |-> hint]
  BY DEF WalkUse, pool, where, Parse
<1> QED BY <1>1, RootCalled

LEMMA RootReturnsV ==
  ASSUME Now, RootReturns
  PROVE  VNext
<1> DEFINE h == Head(stack)
           t == Tail(stack)
<1>1. /\ pc = "return" /\ h.kind = "root" /\ UNCHANGED <<types, dedup, todo>> /\ pc' = "root" /\ stack' = <<>>
  BY DEF RootReturns, pool, where, roots
<1>2. /\ stack # <<>> /\ stack \in Seq(Range(stack)) /\ Steady(types, stack, todo)
      /\ Answered(stack, ret, types, todo) /\ Referred(dedup, types)
  BY <1>1, NowHas DEF Now, IInv
<1>3. t = <<>>
  <2>1. /\ Len(stack) \in Nat \ {0} /\ h = stack[1] /\ Len(t) = Len(stack) - 1
        /\ t \in Seq(Range(t)) /\ DOMAIN stack = 1..Len(stack)
    BY ONLY <1>2, PopSeq
  <2> HIDE DEF t
  <2>2. 1 = Len(stack)
    <3>1. 1 \in DOMAIN stack
      BY <2>1
    <3> QED BY <1>1, <2>1, <3>1 DEF Now, IInv, Consistent, WellFormed
  <2>3. Len(t) = 0 /\ t \in Seq(Range(t))
    <3> DEFINE m == Len(stack)
               l == Len(t)
    <3>1. l = m - 1 /\ m = 1
      BY <2>1, <2>2
    <3> HIDE DEF m, l
    <3>2. l = 0
      BY ONLY <3>1
    <3> QED BY <2>1, <3>2 DEF l
  <2>4. ASSUME t # <<>> PROVE FALSE
    <3>1. Len(t) \in Nat \ {0}
      BY ONLY <2>3, <2>4, EmptySeq
    <3> QED BY ONLY <2>3, <3>1
  <2> QED BY <2>4
<1>4. h.key # NoKey => Proper(h.key) \in DOMAIN types
  <2>1. Range(t) = {}
    BY <1>3 DEF Range
  <2> QED BY <1>2, <2>1 DEF Answered, Arrived
<1>5. Steady(types, t, todo)
  BY <1>2, <1>4, PopSteady
<1> QED BY <1>1, <1>2, <1>3, <1>5 DEF VNext

LEMMA NextSubV ==
  ASSUME Now, NextSub
  PROVE  VNext
<1> DEFINE h == Head(stack)
<1>1. /\ pc = "subs" /\ h.next <= Len(h.schema.subs) /\ pc' = "parse"
      /\ arg' = [schema |-> h.schema.subs[h.next].schema, hint |-> Inline(h.id, h.schema.subs[h.next].role)]
      /\ UNCHANGED <<types, dedup, todo, stack>>
  BY DEF NextSub, Parse, pool, where, roots
<1>2. stack # <<>> /\ h.kind \in Composites
  BY <1>1 DEF Now, IInv
<1>3. h \in Range(stack)
  BY <1>2, NowHas, BelowHead
<1>4. h.schema \in Schemas /\ h.next \in Nat \ {0}
  BY <1>2, <1>3, NowHas DEF FrameOk
<1>5. h.schema.subs \in Seq([role : Seq(STRING) \ {<<>>}, part : BOOLEAN, schema : Schemas])
  BY <1>4, SchemasAssumption
<1>6. h.next \in DOMAIN h.schema.subs
  <2> DEFINE subs == h.schema.subs
             next == h.next
  <2>1. DOMAIN subs = 1..Len(subs) /\ Len(subs) \in Nat
    BY <1>5
  <2> HIDE DEF subs, next
  <2>2. next \in DOMAIN subs
    BY <1>1, <1>4, <2>1 DEF subs, next
  <2> QED BY <2>2 DEF subs, next
<1>7. Asked(h, arg')
  BY <1>1, <1>6 DEF Asked
<1> QED BY <1>1, <1>7, NowHas DEF VNext

LEMMA StillV ==
  ASSUME Now, Finish \/ UNCHANGED vars
  PROVE  VNext
<1>1. /\ UNCHANGED <<types, stack, todo, dedup, arg, ret>>
      /\ pc' = pc \/ pc' = "done"
  BY DEF Finish, vars, pool, where, roots
<1> QED BY <1>1, NowHas DEF VNext

(* The loop over subschemas goes on. *)
LEMMA LoopFrame ==
  ASSUME NEW h, FrameIs(h), h.kind \in Composites, h.next \in Nat, h.schema.subs \in Seq(Range(h.schema.subs)),
         NEW f, f.kind = h.kind, f.schema = h.schema, f.next = h.next + 1,
         h.props # NoDefs \/ h.got => f.props # NoDefs \/ f.got,
         Fruitful(h.schema.subs[h.next]) => f.props # NoDefs \/ f.got
  PROVE  FrameIs(f)
<1>1. ASSUME NEW j \in DOMAIN f.schema.subs, j < f.next, Fruitful(f.schema.subs[j])
      PROVE  f.props # NoDefs \/ f.got
  <2> DEFINE n == h.next
  <2>1. j \in Nat /\ n \in Nat /\ j < n + 1
    BY <1>1
  <2> HIDE DEF n
  <2>2. j < n \/ j = n
    BY ONLY <2>1
  <2>3. CASE j < n
    BY <1>1, <2>3 DEF FrameIs, n
  <2>4. CASE j = n
    BY <1>1, <2>4 DEF n
  <2> QED BY <2>2, <2>3, <2>4
<1> QED BY <1>1 DEF FrameIs, Composites

LEMMA LoopHas ==
  ASSUME Now, pc = "return", Head(stack).kind \in Composites
  PROVE  LET h == Head(stack) IN
         /\ stack # <<>> /\ h \in Range(stack) /\ FrameIs(h) /\ Answered(stack, ret, types, todo)
         /\ h.next \in Nat /\ h.schema.subs \in Seq(Range(h.schema.subs))
         /\ {"props", "next", "got", "parts", "kind", "id", "key", "schema"} \subseteq DOMAIN h
<1> DEFINE h == Head(stack)
<1>1. stack # <<>> /\ Answered(stack, ret, types, todo)
  BY NowHas DEF Now, IInv
<1>2. h \in Range(stack) /\ FrameIs(h)
  <2>1. Linked(stack, types) /\ Parts(types, stack) /\ stack \in Seq(Range(stack))
    BY NowHas
  <2> QED BY <1>1, <2>1, BelowHead
<1>3. h.schema \in Schemas /\ h.next \in Nat \ {0} /\ FrameOk(h)
  BY <1>2, NowHas DEF FrameOk
<1>4. h.schema.subs \in Seq([role : Seq(STRING) \ {<<>>}, part : BOOLEAN, schema : Schemas])
  BY <1>3, SchemasAssumption
<1>5. h.schema.subs \in Seq(Range(h.schema.subs))
  <2> DEFINE subs == h.schema.subs
             S == [role : Seq(STRING) \ {<<>>}, part : BOOLEAN, schema : Schemas]
  <2> HIDE DEF subs, S
  <2>1. subs \in Seq(S)
    BY <1>4 DEF subs, S
  <2>2. subs \in [1..Len(subs) -> S] /\ Len(subs) \in Nat
    BY ONLY <2>1
  <2>3. subs \in [1..Len(subs) -> Range(subs)]
    BY <2>2 DEF Range
  <2>4. subs \in Seq(Range(subs))
    BY ONLY <2>2, <2>3
  <2> QED BY <2>4 DEF subs
<1> QED BY <1>1, <1>2, <1>3, <1>5 DEF FrameOk

LEMMA SubReturnsV ==
  ASSUME Now, SubReturns
  PROVE  VNext
<1> DEFINE h == Head(stack)
           sub == h.schema.subs[h.next]
           f == IF ret = NoId THEN Advanced(h)
                ELSE [Advanced(h) EXCEPT !.props = Put(@, sub.role, ret)]
<1>1. /\ pc = "return" /\ h.kind \in Composites /\ stack' = <<f>> \o Tail(stack) /\ pc' = "subs"
      /\ UNCHANGED <<types, dedup, todo>>
  BY DEF SubReturns, Replace, pool, where, roots
<1>2. /\ stack # <<>> /\ h \in Range(stack) /\ FrameIs(h) /\ Answered(stack, ret, types, todo)
      /\ h.next \in Nat /\ h.schema.subs \in Seq(Range(h.schema.subs))
      /\ {"props", "next", "got", "parts", "kind", "id", "key", "schema"} \subseteq DOMAIN h
  BY <1>1, LoopHas
<1> DEFINE N == {ret} \ {NoId}
<1>3. /\ f.kind = h.kind /\ f.id = h.id /\ f.schema = h.schema /\ f.key = h.key
      /\ f.next = h.next + 1 /\ f.parts = h.parts /\ f.got = h.got
      /\ f.props = IF ret = NoId THEN h.props ELSE Put(h.props, sub.role, ret)
  <2> HIDE DEF h, sub
  <2> QED BY <1>2 DEF Advanced
<1> HIDE DEF f
<1>4. ret # NoId => f.props # NoDefs
  <2> HIDE DEF h, sub
  <2>1. ret # NoId => sub.role \in DOMAIN f.props
    BY <1>3 DEF Put
  <2> QED BY <2>1 DEF NoDefs
<1>5. FrameIs(f)
  <2>1. Fruitful(sub) => ret # NoId
    BY <1>1, <1>2 DEF Answered, Answers
  <2> HIDE DEF h
  <2> QED BY <1>1, <1>2, <1>3, <1>4, <2>1, LoopFrame
<1>6. ValuesOf(f.props) \subseteq Values(types, stack) \union N
  <2>1. ValuesOf(h.props) \subseteq Values(types, stack)
    BY <1>2, ValuesIs
  <2>2. ret # NoId => ValuesOf(Put(h.props, sub.role, ret)) \subseteq ValuesOf(h.props) \union {ret}
    BY DEF ValuesOf, Put
  <2> QED BY <1>3, <2>1, <2>2
<1>7. N \subseteq Promised(types, stack, todo) /\ \A g \in Range(stack) : N \cap g.parts = {}
  BY <1>2 DEF Answered
<1>8. Steady(types, <<f>> \o Tail(stack), todo)
  <2>1. Steady(types, stack, todo) /\ stack \in Seq(Range(stack))
    BY NowHas
  <2> DEFINE M == {}
  <2>2. f.parts = h.parts \union M /\ M = {}
    BY <1>3
  <2> HIDE DEF N, M
  <2> QED BY <1>2, <1>3, <1>5, <1>6, <1>7, <2>1, <2>2, SwapSteady
<1> QED BY <1>1, <1>8, NowHas DEF VNext

LEMMA PartReturnsV ==
  ASSUME Now, PartReturns, ~failed'
  PROVE  VNext
<1> DEFINE h == Head(stack)
           sub == h.schema.subs[h.next]
           found == ret # NoId /\ ret \in DOMAIN types
           whole == [Advanced(h) EXCEPT
                       !.props = Over(types[ret].props, @),
                       !.got = TRUE,
                       !.parts = IF Synthetic(h.id, ret) THEN @ \union {ret} ELSE @]
           f == IF found THEN whole ELSE Advanced(h)
<1>1. /\ pc = "return" /\ h.kind = "allof" /\ h.kind \in Composites /\ sub.part
      /\ stack' = <<f>> \o Tail(stack) /\ pc' = "subs"
      /\ UNCHANGED <<types, dedup, todo>>
  BY DEF PartReturns, Replace, pool, where, roots, Composites
<1>2. /\ stack # <<>> /\ h \in Range(stack) /\ FrameIs(h) /\ Answered(stack, ret, types, todo)
      /\ h.next \in Nat /\ h.schema.subs \in Seq(Range(h.schema.subs))
      /\ {"props", "next", "got", "parts", "kind", "id", "key", "schema"} \subseteq DOMAIN h
  BY <1>1, LoopHas
<1> DEFINE M == IF found /\ Synthetic(h.id, ret) THEN {ret} ELSE {}
<1>3. /\ f.kind = h.kind /\ f.id = h.id /\ f.schema = h.schema /\ f.key = h.key
      /\ f.next = h.next + 1 /\ f.parts = h.parts \union M
      /\ found => f.got /\ f.props = Over(types[ret].props, h.props)
      /\ ~found => f.got = h.got /\ f.props = h.props
  <2> HIDE DEF h, sub
  <2> QED BY <1>2 DEF Advanced
<1> HIDE DEF f
<1>4. FrameIs(f)
  <2>1. Fruitful(sub) => found
    BY <1>1, <1>2 DEF Answered, Answers
  <2> HIDE DEF h, found
  <2> QED BY <1>1, <1>2, <1>3, <2>1, LoopFrame
<1>5. ValuesOf(f.props) \subseteq Values(types, stack)
  <2>1. ValuesOf(h.props) \subseteq Values(types, stack)
    BY <1>2, ValuesIs
  <2>2. found => ValuesOf(types[ret].props) \subseteq Values(types, stack)
    BY ValuesIs
  <2>3. \A p, q : ValuesOf(Over(p, q)) \subseteq ValuesOf(p) \union ValuesOf(q)
    BY DEF ValuesOf, Over
  <2> QED BY <1>3, <2>1, <2>2, <2>3
<1>6. \A p \in M : /\ p \in DOMAIN types /\ Synthetic(f.id, p) /\ p \notin Values(types, stack)
                   /\ \A g \in Range(stack) : p \notin g.parts
  BY <1>1, <1>2, <1>3 DEF Answered
<1>7. Steady(types, <<f>> \o Tail(stack), todo)
  <2>1. Steady(types, stack, todo) /\ stack \in Seq(Range(stack))
    BY NowHas
  <2> DEFINE N == {}
  <2>2. N \subseteq Promised(types, stack, todo) /\ (\A g \in Range(stack) : N \cap g.parts = {})
        /\ ValuesOf(f.props) \subseteq Values(types, stack) \union N
        /\ \A p \in M : p \notin Values(types, stack) \union N
    BY <1>5, <1>6
  <2> HIDE DEF N, M
  <2> QED BY <1>1, <1>2, <1>3, <1>4, <1>6, <2>1, <2>2, SwapSteady
<1> QED BY <1>1, <1>7, NowHas DEF VNext

-----------------------------------------------------------------------------
(* What goes into the pool. *)

(* The pool new has what ts has, and beyond it types that refer to N. *)
More(ts, new, N) ==
  /\ DOMAIN ts \subseteq DOMAIN new
  /\ \A id \in DOMAIN new : \A v \in ValuesOf(new[id].props) :
       v \in N \/ (id \in DOMAIN ts /\ v \in ValuesOf(ts[id].props))

LEMMA PutMore ==
  ASSUME NEW ts, NEW id, NEW kind, NEW schema, NEW props
  PROVE  More(ts, Put(ts, id, Def(kind, schema, props)), ValuesOf(props))
<1> DEFINE def == Def(kind, schema, props)
           new == Put(ts, id, def)
<1>1. DOMAIN new = DOMAIN ts \union {id} /\ new[id] = def /\ \A x \in DOMAIN ts : x # id => new[x] = ts[x]
  BY DEF Put
<1>2. def.props = props
  BY DEF Def
<1> HIDE DEF new, def
<1> QED BY <1>1, <1>2 DEF More, new, def

LEMMA WithNullMore ==
  ASSUME NEW ts
  PROVE  More(ts, WithNull(ts), {})
<1>1. CASE NullId \in DOMAIN ts
  BY <1>1 DEF WithNull, More
<1>2. CASE NullId \notin DOMAIN ts
  <2>1. More(ts, Put(ts, NullId, Def("null", NullSchema, NoDefs)), ValuesOf(NoDefs))
    BY PutMore
  <2>2. ValuesOf(NoDefs) = {}
    BY DEF ValuesOf, NoDefs
  <2> QED BY <1>2, <2>1, <2>2 DEF WithNull
<1> QED BY <1>1, <1>2

LEMMA MoreMore ==
  ASSUME NEW ts, NEW one, NEW two, NEW M, NEW N, More(ts, one, M), More(one, two, N)
  PROVE  More(ts, two, M \union N)
BY DEF More

LEMMA LiftedMore ==
  ASSUME NumeralsDiffer, NEW s, PoolOk(s.types, s.counter),
         NEW id \in Ids, NEW kind, NEW schema, NEW props, NEW nullable
  PROVE  LET l == Lifted(s, id, Def(kind, schema, props), nullable) IN
         /\ ~nullable => l.types[id].kind = kind
         /\ \E N : /\ N \subseteq DOMAIN l.types /\ N \cap (DOMAIN s.types \union {id}) \subseteq {NullId}
                   /\ More(s.types, l.types, N \union ValuesOf(props))
<1> DEFINE def == Def(kind, schema, props)
           l == Lifted(s, id, def, nullable)
<1>1. CASE ~nullable
  <2>1. l.types = Put(s.types, id, def)
    BY <1>1 DEF Lifted
  <2>2. l.types[id] = def /\ def.kind = kind
    <3> DEFINE new == Put(s.types, id, def)
    <3>1. new[id] = def
      BY DEF Put
    <3>2. def.kind = kind
      BY DEF Def
    <3> HIDE DEF def, new
    <3> QED BY <2>1, <3>1, <3>2 DEF new
  <2> HIDE DEF l
  <2>3. More(s.types, l.types, {} \union ValuesOf(props))
    <3>1. More(s.types, l.types, ValuesOf(props))
      BY <2>1, PutMore
    <3>2. {} \union ValuesOf(props) = ValuesOf(props)
      OBVIOUS
    <3> QED BY <3>1, <3>2
  <2>4. {} \subseteq DOMAIN l.types /\ {} \cap (DOMAIN s.types \union {id}) \subseteq {NullId}
    OBVIOUS
  <2> QED BY <1>1, <2>2, <2>3, <2>4 DEF l
<1>2. CASE nullable
  <2> DEFINE inner == Append(id, "nonnull")
             u == UniqueId(inner, s.types, s.counter)
             either == Put(Put(NoDefs, <<"nonnull">>, u.id), <<"null">>, NullId)
             whole == Def("union", def.schema, either)
             one == Put(s.types, u.id, def)
             two == WithNull(one)
             three == Put(two, id, whole)
             N == {u.id, NullId}
  <2>1. l.types = three
    BY <1>2 DEF Lifted
  <2>2. u.id \notin DOMAIN s.types /\ u.id # id
    <3>1. inner \in Ids /\ IsPrefix(id, inner) /\ inner # id
      <4>1. "nonnull" \in Words
        BY DEF Words
      <4> QED BY <4>1, IdsJoin, IdJoin
    <3> HIDE DEF inner
    <3>2. /\ u.id \in Ids /\ u.id \notin DOMAIN s.types
          /\ u.id = inner \/ \E k \in Nat : u.id = Append(inner, ToString(k))
      BY <3>1, Fresh
    <3>3. IsPrefix(inner, u.id)
      BY <3>1, <3>2, Numbered
    <3> HIDE DEF u
    <3>4. u.id = id => FALSE
      BY <3>1, <3>3, IdPrefix
    <3> QED BY <3>2, <3>4
  <2>3. ValuesOf(either) \subseteq N
    BY DEF ValuesOf, Put, NoDefs
  <2>4. More(s.types, one, ValuesOf(props))
    BY PutMore
  <2>5. More(one, two, {}) /\ DOMAIN two = DOMAIN one \union {NullId}
    BY WithNullMore, WithNullHas
  <2>6. More(two, three, ValuesOf(either))
    BY PutMore
  <2>7. /\ DOMAIN one = DOMAIN s.types \union {u.id}
        /\ DOMAIN three = DOMAIN two \union {id}
    BY DEF Put
  <2> HIDE DEF inner, u, either, whole, one, two, three, l
  <2>8. More(s.types, three, (ValuesOf(props) \union {}) \union ValuesOf(either))
    BY <2>4, <2>5, <2>6, MoreMore
  <2>9. More(s.types, three, N \union ValuesOf(props))
    BY <2>3, <2>8 DEF More
  <2>10. N \subseteq DOMAIN three /\ N \cap (DOMAIN s.types \union {id}) \subseteq {NullId}
    BY <2>2, <2>5, <2>7
  <2> QED BY <1>2, <2>1, <2>9, <2>10 DEF l
<1> QED BY <1>1, <1>2

LEMMA NoIdStaysOut ==
  ASSUME spec \in Specs, NamesApart, NEW ts, NoId \notin DOMAIN ts, NEW b, Grounded(b), NEW new, Grows(ts, new, b)
  PROVE  NoId \notin DOMAIN new
<1> SUFFICES ASSUME NoId \in DOMAIN new PROVE FALSE
  OBVIOUS
<1>1. NoId = NullId \/ IsPrefix(b, NoId)
  BY DEF Grows
<1>2. NoId # NullId /\ NoId \in Ids
  <2>1. <<>> \in Ids
    BY IdsJoin
  <2> QED BY <2>1 DEF NullId, NoId
<1>3. PICK q \in Roots : IsPrefix(q, b)
  BY DEF Grounded
<1>4. q \in Ids /\ b \in Ids
  BY RootsApart DEF Grounded
<1>5. IsPrefix(q, NoId)
  BY <1>1, <1>2, <1>3, <1>4, IdPrefix
<1> QED BY <1>2, <1>5, RootNotEmpty

LEMMA MoreSteady ==
  ASSUME spec \in Specs, NamesApart, NEW ts, NEW s, AllGrounded(s), NEW td, Steady(ts, s, td),
         NEW new, NEW N, NEW P, More(ts, new, N \union P), NoId \notin DOMAIN new,
         P \subseteq Values(ts, s), N \subseteq DOMAIN new, N \cap DOMAIN ts \subseteq {NullId}
  PROVE  Steady(new, s, td) /\ Values(new, s) \subseteq Values(ts, s) \union N
<1>1. ASSUME NEW x \in Values(new, s) PROVE x \in Values(ts, s) \union N
  <2>1. CASE \E g \in Range(s) : x \in ValuesOf(g.props)
    BY <2>1, ValuesIs
  <2>2. CASE \E id \in DOMAIN new : x \in ValuesOf(new[id].props)
    <3>1. x \in N \union P \/ \E id \in DOMAIN ts : x \in ValuesOf(ts[id].props)
      BY <2>2 DEF More
    <3> QED BY <3>1, ValuesIs
  <2> QED BY <1>1, <2>1, <2>2, ValuesIs
<1>2. Values(new, s) \subseteq Values(ts, s) \union N /\ DOMAIN ts \subseteq DOMAIN new
  BY <1>1 DEF More
<1> QED BY <1>2, GrowSteady

(* An id that is neither in the pool nor a root is nobody's value. *)
LEMMA StrangeValue ==
  ASSUME Now, NEW x, x \notin DOMAIN types, x \notin Roots
  PROVE  x \notin Values(types, stack)
<1>1. Values(types, stack) \subseteq Promised(types, stack, todo) /\ spec \in Specs
  BY NowHas DEF Kept
<1>2. x \notin Due(stack)
  <2> SUFFICES ASSUME NEW f \in Range(stack), f.key # NoKey, x = Proper(f.key) PROVE FALSE
    BY DEF Due
  <2>1. f.key \in Here
    BY Frames
  <2> QED BY <1>1, <2>1, ProperRoot
<1>3. x \notin Waiting(todo)
  <2> SUFFICES ASSUME NEW i \in todo, x = spec.docs[Main][i].name PROVE FALSE
    BY DEF Waiting
  <2>1. i \in DOMAIN spec.docs[Main]
    BY DEF Now, TInv
  <2>2. x \in Names(Main)
    BY <2>1 DEF Names, Range
  <2> QED BY <1>1, <2>2, NamesAreRoots
<1> QED BY <1>1, <1>2, <1>3 DEF Promised

LEMMA ReferredOn ==
  ASSUME NEW d, NEW old, NEW new, Referred(d, old),
         NullId \in DOMAIN old => NullId \in DOMAIN new,
         \A x \in DOMAIN old : NullNumeral(x) => x \in DOMAIN new
  PROVE  Referred(d, new)
BY DEF Referred, Meant, ForKey

LEMMA AllocAt ==
  ASSUME NumeralsDiffer, Now, pc = "parse", arg.schema.kind # "ref"
  PROVE  LET a == Alloc(arg.hint)
             h == Head(stack)
         IN /\ a.id \in Ids /\ Grounded(a.id) /\ PoolOk(a.types, a.counter) /\ a.id # NoId
            /\ DOMAIN types \subseteq DOMAIN a.types /\ NoId \notin DOMAIN a.types
            /\ Steady(a.types, stack, todo) /\ Values(a.types, stack) \subseteq Values(types, stack)
            /\ h.key # NoKey => /\ ForKey(a.id, h.key, a.types)
                                /\ Proper(h.key) = a.id \/ (Proper(h.key) = NullId /\ NullId \in DOMAIN a.types)
            /\ \A f \in Range(stack) : a.id \notin f.parts
            /\ h.kind \in Composites => a.id \notin DOMAIN a.types
<1> DEFINE a == Alloc(arg.hint)
           h == Head(stack)
           n == Len(stack)
           c == Calls(stack)
<1>1. /\ spec \in Specs /\ NamesApart /\ Steady(types, stack, todo) /\ Kept(types, stack, todo)
      /\ Parts(types, stack) /\ AllGrounded(stack) /\ arg.hint.base \in Ids /\ PoolOk(types, counter)
  BY NowHas, Frames DEF Now, TInv
<1>2. /\ a.id \in Ids /\ PoolOk(a.types, a.counter) /\ Grows(types, a.types, a.id)
      /\ BuildOk(c, n + 1, a.id, arg.schema, a.types)
  BY <1>1, NewBuild DEF Now
<1>3. Grounded(a.id)
  <2> HIDE DEF a, c, n
  <2> QED BY <1>2 DEF BuildOk, Rooted, Grounded
<1>4. /\ arg.hint.named /\ arg.hint.base # NullId => a.id = arg.hint.base /\ a.types = types
      /\ arg.hint.named /\ arg.hint.base = NullId =>
           a.types = WithNull(types) /\ NullNumeral(a.id) /\ a.id \notin DOMAIN types
      /\ ~arg.hint.named => a.types = types /\ a.id \notin DOMAIN types
  BY <1>1, AllocShape
<1>5. /\ h.key # NoKey => h.key \in Here /\ arg.hint.named /\ arg.hint.base = Proper(h.key)
      /\ arg.hint.named => h.key # NoKey
      /\ h.kind \in Composites => h.key = NoKey
  BY HeadAsks
<1> HIDE DEF a, h, c, n
<1>6. a.id # NoId
  BY <1>1, <1>3, RootNotEmpty DEF Grounded
<1>7. More(types, a.types, {})
  <2>1. \A ts : More(ts, ts, {})
    BY DEF More
  <2> QED BY <1>4, <2>1, WithNullMore
<1>8. NoId \notin DOMAIN a.types
  BY <1>1, <1>2, <1>3, NoIdStaysOut DEF Kept
<1>9. Steady(a.types, stack, todo) /\ Values(a.types, stack) \subseteq Values(types, stack)
  <2> DEFINE N == {}
             P == {}
  <2>1. /\ More(types, a.types, N \union P) /\ P \subseteq Values(types, stack)
        /\ N \subseteq DOMAIN a.types /\ N \cap DOMAIN types \subseteq {NullId} /\ N = {}
    <3>1. N \union P = {}
      OBVIOUS
    <3> QED BY <1>7, <3>1
  <2> HIDE DEF N, P
  <2>2. Steady(a.types, stack, todo) /\ Values(a.types, stack) \subseteq Values(types, stack) \union N
    BY <1>1, <1>8, <2>1, MoreSteady
  <2> QED BY <2>1, <2>2
<1>10. DOMAIN types \subseteq DOMAIN a.types
  BY <1>7 DEF More
<1>11. ASSUME h.key # NoKey
       PROVE  /\ ForKey(a.id, h.key, a.types)
              /\ Proper(h.key) = a.id \/ (Proper(h.key) = NullId /\ NullId \in DOMAIN a.types)
  <2>1. NullId \in DOMAIN WithNull(types)
    BY WithNullHas
  <2> QED BY <1>4, <1>5, <1>11, <2>1 DEF ForKey
<1>12. a.id \in DOMAIN types => a.id \in Roots
  <2> SUFFICES ASSUME a.id \in DOMAIN types PROVE a.id \in Roots
    OBVIOUS
  <2>1. h.key \in Here /\ a.id = Proper(h.key)
    BY <1>4, <1>5
  <2> QED BY <1>1, <2>1, ProperRoot
<1>13. \A f \in Range(stack) : a.id \notin f.parts
  <2> SUFFICES ASSUME NEW f \in Range(stack), a.id \in f.parts PROVE FALSE
    OBVIOUS
  <2>1. a.id \in DOMAIN types
    BY <1>1 DEF Parts
  <2>2. a.id \notin Roots
    BY <1>1, PartIs
  <2> QED BY <1>12, <2>1, <2>2
<1>14. h.kind \in Composites => a.id \notin DOMAIN a.types
  BY <1>4, <1>5
<1> QED BY <1>2, <1>3, <1>6, <1>8, <1>9, <1>10, <1>11, <1>13, <1>14 DEF a, h

(* A type is pushed and its id returned. *)
LEMMA TypeReturns ==
  ASSUME NumeralsDiffer, Now, pc = "parse", arg.schema.kind \in {"leaf", "null"},
         UNCHANGED <<spec, stack, todo, dedup>>, pc' = "return",
         ret' = Alloc(arg.hint).id, NEW kind, NEW nullable,
         types' = Lifted(Alloc(arg.hint), Alloc(arg.hint).id, Def(kind, arg.schema, NoDefs), nullable).types
  PROVE  VNext
<1> DEFINE a == Alloc(arg.hint)
           h == Head(stack)
           l == Lifted(a, a.id, Def(kind, arg.schema, NoDefs), nullable)
<1>1. /\ a.id \in Ids /\ Grounded(a.id) /\ PoolOk(a.types, a.counter) /\ a.id # NoId
      /\ DOMAIN types \subseteq DOMAIN a.types /\ NoId \notin DOMAIN a.types
      /\ Steady(a.types, stack, todo) /\ Values(a.types, stack) \subseteq Values(types, stack)
      /\ h.key # NoKey => /\ ForKey(a.id, h.key, a.types)
                          /\ Proper(h.key) = a.id \/ (Proper(h.key) = NullId /\ NullId \in DOMAIN a.types)
      /\ \A f \in Range(stack) : a.id \notin f.parts
      /\ h.kind \in Composites => a.id \notin DOMAIN a.types
  BY AllocAt
<1>2. /\ spec \in Specs /\ NamesApart /\ AllGrounded(stack) /\ Referred(dedup, types)
      /\ Asked(h, arg) /\ h \in Range(stack)
  BY NowHas, Frames, HeadAsks
<1>3. types' = l.types /\ ret' = a.id
  OBVIOUS
<1> HIDE DEF a
<1>4. Grows(a.types, l.types, a.id) /\ a.id \in DOMAIN l.types /\ DOMAIN a.types \subseteq DOMAIN l.types
  BY <1>1, LiftedShape
<1>5. PICK N : /\ N \subseteq DOMAIN l.types /\ N \cap (DOMAIN a.types \union {a.id}) \subseteq {NullId}
               /\ More(a.types, l.types, N \union ValuesOf(NoDefs))
  BY <1>1, LiftedMore
<1> HIDE DEF l, h
<1>6. Steady(types', stack, todo) /\ Values(types', stack) \subseteq Values(a.types, stack) \union N
  <2> DEFINE P == ValuesOf(NoDefs)
  <2>1. P = {} /\ P \subseteq Values(a.types, stack)
    BY DEF ValuesOf, NoDefs
  <2>2. NoId \notin DOMAIN l.types
    BY <1>1, <1>2, <1>4, NoIdStaysOut
  <2>3. N \cap DOMAIN a.types \subseteq {NullId}
    BY <1>5
  <2> HIDE DEF P
  <2>4. More(a.types, l.types, N \union P)
    BY <1>5 DEF P
  <2>5. Steady(a.types, stack, todo) /\ N \subseteq DOMAIN l.types /\ spec \in Specs /\ NamesApart /\ AllGrounded(stack)
    BY <1>1, <1>2, <1>5
  <2>6. Steady(l.types, stack, todo) /\ Values(l.types, stack) \subseteq Values(a.types, stack) \union N
    BY ONLY <2>1, <2>2, <2>3, <2>4, <2>5, MoreSteady
  <2> QED BY <1>3, <2>6
<1>7. Referred(dedup, types')
  BY <1>1, <1>2, <1>3, <1>4, ReferredOn
<1>8. Answered(stack, a.id, types', todo)
  <2>1. a.id \in Promised(types', stack, todo)
    BY <1>3, <1>4 DEF Promised
  <2>2. ASSUME h.key # NoKey PROVE Meant(a.id, h.key, types') /\ Arrived(h, Tail(stack), types')
    BY <1>1, <1>3, <1>4, <2>2 DEF Meant, ForKey, Arrived
  <2>3. ASSUME h.kind \in Composites, Synthetic(h.id, a.id) PROVE a.id \notin Values(types', stack)
    <3>1. a.id \notin Roots /\ a.id # NullId
      BY <1>2, <2>3, PartNotRoot DEF AllGrounded
    <3>2. a.id \notin Values(types, stack)
      BY <1>1, <2>3, <3>1, StrangeValue
    <3> QED BY <1>1, <1>5, <1>6, <3>1, <3>2
  <2>4. ASSUME h.kind \in Composites PROVE Answers(h, h.schema.subs[h.next], a.id, types')
    BY <1>1, <1>2, <2>4 DEF Asked, Answers, Fruitful
  <2> QED BY <1>1, <2>1, <2>2, <2>3, <2>4 DEF Answered, h
<1> QED BY <1>3, <1>6, <1>7, <1>8 DEF VNext

LEMMA ParseLeafV ==
  ASSUME NumeralsDiffer, Now, ParseLeaf
  PROVE  VNext
<1>1. /\ pc = "parse" /\ arg.schema.kind = "leaf" /\ UNCHANGED <<spec, stack, todo, dedup>>
      /\ pc' = "return" /\ ret' = Alloc(arg.hint).id
      /\ types' = Lifted(Alloc(arg.hint), Alloc(arg.hint).id, Def("leaf", arg.schema, NoDefs), arg.schema.nullable).types
  BY DEF ParseLeaf, SetPool, Return, where, roots
<1> QED BY <1>1, TypeReturns

LEMMA ParseNullV ==
  ASSUME NumeralsDiffer, Now, ParseNull
  PROVE  VNext
<1> DEFINE h == Head(stack)
<1>1. /\ pc = "parse" /\ arg.schema.kind = "null" /\ UNCHANGED <<spec, stack, todo, dedup>> /\ pc' = "return"
      /\ \/ /\ ret' = Alloc(arg.hint).id
            /\ types' = Lifted(Alloc(arg.hint), Alloc(arg.hint).id, Def("null", arg.schema, NoDefs), FALSE).types
         \/ ~arg.hint.named /\ ret' = NullId /\ types' = WithNull(types)
  BY DEF ParseNull, SetPool, Return, where, roots
<1>2. CASE /\ ret' = Alloc(arg.hint).id
           /\ types' = Lifted(Alloc(arg.hint), Alloc(arg.hint).id, Def("null", arg.schema, NoDefs), FALSE).types
  BY <1>1, <1>2, TypeReturns
<1>3. CASE ~arg.hint.named /\ ret' = NullId /\ types' = WithNull(types)
  <2>1. /\ spec \in Specs /\ NamesApart /\ AllGrounded(stack) /\ Referred(dedup, types)
        /\ Asked(h, arg) /\ h \in Range(stack) /\ Steady(types, stack, todo) /\ NoId \notin DOMAIN types
        /\ Parts(types, stack)
    BY <1>1, NowHas, Frames, HeadAsks DEF Kept
  <2>2. h.key = NoKey
    BY <1>1, <1>3, HeadAsks
  <2>3. DOMAIN types' = DOMAIN types \union {NullId} /\ More(types, types', {})
    BY <1>3, WithNullHas, WithNullMore
  <2>4. NoId # NullId
    BY DEF NoId, NullId
  <2>5. Steady(types', stack, todo)
    <3> DEFINE N == {}
               P == {}
    <3>1. /\ More(types, types', N \union P) /\ P \subseteq Values(types, stack)
          /\ N \subseteq DOMAIN types' /\ N \cap DOMAIN types \subseteq {NullId}
      <4>1. N \union P = {}
        OBVIOUS
      <4> QED BY <2>3, <4>1
    <3>2. NoId \notin DOMAIN types'
      BY <2>1, <2>3, <2>4
    <3> HIDE DEF N, P, h
    <3> QED BY <2>1, <3>1, <3>2, MoreSteady
  <2>6. Referred(dedup, types')
    BY <2>1, <2>3, ReferredOn
  <2> HIDE DEF h
  <2>7. NullId \in Promised(types', stack, todo)
    BY <2>3 DEF Promised
  <2>8. \A f \in Range(stack) : NullId \notin f.parts
    BY <2>1, PartIs
  <2>9. ASSUME h.kind \in Composites
        PROVE  ~Synthetic(h.id, NullId) /\ Answers(h, h.schema.subs[h.next], NullId, types')
    <3>1. ~Synthetic(h.id, NullId)
      BY <2>1, <2>9, PartNotRoot DEF AllGrounded
    <3>2. Answers(h, h.schema.subs[h.next], NullId, types')
      BY <1>1, <2>1, <2>4, <2>9 DEF Asked, Answers, Fruitful
    <3> QED BY <3>1, <3>2
  <2>10. Answered(stack, NullId, types', todo)
    BY <2>2, <2>7, <2>8, <2>9 DEF Answered, h
  <2> QED BY <1>1, <1>3, <2>5, <2>6, <2>10 DEF VNext
<1> QED BY <1>1, <1>2, <1>3

LEMMA ParseCompositeV ==
  ASSUME NumeralsDiffer, Now, ParseComposite
  PROVE  VNext
<1> DEFINE a == Alloc(arg.hint)
           h == Head(stack)
           f == Frame(arg.schema.kind, a.id, arg.schema, NoKey)
<1>1. /\ pc = "parse" /\ arg.schema.kind \in Composites /\ UNCHANGED <<spec, todo, dedup>>
      /\ types' = a.types /\ stack' = <<f>> \o stack /\ pc' = "subs"
  BY DEF ParseComposite, SetPool, where, roots
<1>2. /\ DOMAIN types \subseteq DOMAIN a.types /\ Steady(a.types, stack, todo)
      /\ h.key # NoKey => ForKey(a.id, h.key, a.types)
  <2>1. arg.schema.kind # "ref"
    BY <1>1 DEF Composites
  <2> QED BY <1>1, <2>1, AllocAt
<1>3. /\ Referred(dedup, types) /\ Asked(h, arg) /\ stack \in Seq(Range(stack))
      /\ h.key # NoKey => arg.schema = At(h.key)
      /\ h.kind \in Composites => h.key = NoKey
  BY <1>1, NowHas, HeadAsks
<1>4. /\ f.kind = arg.schema.kind /\ f.schema = arg.schema /\ f.id = a.id /\ f.next = 1
      /\ f.props = NoDefs /\ f.parts = {} /\ f.kind \in Composites
  BY <1>1 DEF Frame
<1>5. arg.schema.subs \in Seq([role : Seq(STRING) \ {<<>>}, part : BOOLEAN, schema : Schemas])
  BY <1>1, SchemasAssumption DEF Now, TInv
<1> HIDE DEF f, a, h
<1>6. FrameIs(f)
  <2>1. \A j \in DOMAIN arg.schema.subs : ~(j < 1)
    <3> DEFINE subs == arg.schema.subs
    <3>1. DOMAIN subs = 1..Len(subs) /\ Len(subs) \in Nat
      BY <1>5
    <3> HIDE DEF subs
    <3>2. \A j \in DOMAIN subs : ~(j < 1)
      BY <3>1
    <3> QED BY <3>2 DEF subs
  <2> QED BY <1>4, <2>1 DEF FrameIs, Composites
<1>7. Under(f, h, a.types)
  BY <1>2, <1>3, <1>4 DEF Under, Asked, Composites
<1>8. Steady(a.types, <<f>> \o stack, todo)
  BY <1>2, <1>3, <1>4, <1>6, <1>7, PushSteady DEF h
<1>9. Referred(dedup, a.types)
  BY <1>2, <1>3, ReferredOn
<1> QED BY <1>1, <1>8, <1>9 DEF VNext

-----------------------------------------------------------------------------
(* Returns from composites. *)

LEMMA CalledFrom ==
  ASSUME IInv, stack # <<>>, Head(stack).kind # "root"
  PROVE  Tail(stack) # <<>>
<1> DEFINE h == Head(stack)
           t == Tail(stack)
<1>1. stack \in Seq(Range(stack))
  BY DEF IInv, Consistent, WellFormed
<1>2. /\ Len(stack) \in Nat \ {0} /\ h = stack[1] /\ Len(t) = Len(stack) - 1
      /\ DOMAIN stack = 1..Len(stack)
  BY <1>1, PopSeq
<1> HIDE DEF t, h
<1>3. 1 # Len(stack)
  <2>1. 1 \in DOMAIN stack
    BY <1>2
  <2> QED BY <1>2, <2>1 DEF IInv, Consistent, WellFormed, h
<1>4. Len(t) # 0
  <2> DEFINE m == Len(stack)
             l == Len(t)
  <2>1. l = m - 1 /\ m # 1 /\ m \in Nat \ {0}
    BY <1>2, <1>3
  <2> HIDE DEF m, l
  <2>2. l # 0
    BY ONLY <2>1
  <2> QED BY <2>2 DEF l
<1>5. t # <<>>
  BY <1>4
<1> QED BY <1>5 DEF t

LEMMA HeadHas ==
  ASSUME Now, stack # <<>>
  PROVE  LET h == Head(stack)
             t == Tail(stack)
         IN /\ h \in Range(stack) /\ FrameIs(h) /\ FrameOk(h)
            /\ t \in Seq(Range(t)) /\ Range(stack) = {h} \union Range(t)
            /\ h.kind # "root" => Head(t) \in Range(t) /\ Under(h, Head(t), types)
<1> DEFINE h == Head(stack)
           t == Tail(stack)
<1>1. stack \in Seq(Range(stack)) /\ Linked(stack, types) /\ Parts(types, stack)
  BY NowHas
<1>2. /\ t \in Seq(Range(t)) /\ Range(stack) = {h} \union Range(t)
      /\ FrameIs(h) /\ (t # <<>> => Under(h, Head(t), types))
  BY <1>1, BelowHead
<1>3. h \in Range(stack) /\ FrameOk(h)
  BY <1>2, NowHas
<1>4. h.kind # "root" => t # <<>>
  BY CalledFrom DEF Now
<1> HIDE DEF t, h
<1>5. t # <<>> => Head(t) \in Range(t)
  BY <1>2, PopSeq
<1> QED BY <1>2, <1>3, <1>4, <1>5 DEF h, t

(* A composite is done, and its type is in the pool. *)
LEMMA CompositeAnswers ==
  ASSUME Now, stack # <<>>, Head(stack).kind \in Composites,
         NEW new, NEW N, Head(stack).id \in DOMAIN new, NullId \in DOMAIN types => NullId \in DOMAIN new,
         Values(new, Tail(stack)) \subseteq Values(types, stack) \union N, N \cap {Head(stack).id} \subseteq {NullId},
         Head(stack).kind = "object" /\ ~Head(stack).schema.nullable => new[Head(stack).id].kind = "object"
  PROVE  Answered(Tail(stack), Head(stack).id, new, todo)
<1> DEFINE h == Head(stack)
           t == Tail(stack)
           g == Head(t)
<1>1. /\ h \in Range(stack) /\ FrameIs(h) /\ Range(stack) = {h} \union Range(t)
      /\ g \in Range(t) /\ Under(h, g, types)
  BY HeadHas DEF Composites
<1>2. /\ spec \in Specs /\ NamesApart /\ AllGrounded(stack) /\ Parts(types, stack)
      /\ Grounded(h.id) /\ (h.id \notin DOMAIN types \/ h.id \in Roots)
  BY <1>1, NowHas, Frames DEF AllGrounded
<1>3. h.id # NoId
  BY <1>2, RootNotEmpty DEF Grounded
<1> HIDE DEF h, g, t
<1>4. h.id \in Promised(new, t, todo)
  BY DEF Promised, h
<1>5. \A f \in Range(t) : h.id \notin f.parts
  <2> SUFFICES ASSUME NEW f \in Range(t), h.id \in f.parts PROVE FALSE
    OBVIOUS
  <2>1. h.id \in DOMAIN types /\ h.id \notin Roots
    BY <1>1, <1>2, PartIs DEF Parts
  <2> QED BY <1>2, <2>1
<1>6. ASSUME g.key # NoKey PROVE Meant(h.id, g.key, new) /\ Arrived(g, Tail(t), new)
  <2>1. ForKey(h.id, g.key, types) /\ h.id \in DOMAIN new
    BY <1>1, <1>6 DEF Under, h
  <2> QED BY <2>1 DEF ForKey, Meant, Arrived
<1>7. ASSUME g.kind \in Composites, Synthetic(g.id, h.id) PROVE h.id \notin Values(new, t)
  <2>1. h.id \notin Roots /\ h.id # NullId
    BY <1>1, <1>2, <1>7, PartNotRoot DEF AllGrounded
  <2>2. h.id \notin Values(types, stack)
    BY <1>2, <2>1, StrangeValue
  <2> QED BY <2>1, <2>2 DEF h, t
<1>8. ASSUME g.kind \in Composites PROVE Answers(g, g.schema.subs[g.next], h.id, new)
  <2>1. h.schema = g.schema.subs[g.next].schema /\ h.kind = h.schema.kind
    BY <1>1, <1>8 DEF Under, FrameIs, h
  <2> QED BY <1>3, <2>1 DEF Answers, Fruitful, h
<1>9. Answered(t, h.id, new, todo)
  BY <1>3, <1>4, <1>5, <1>6, <1>7, <1>8 DEF Answered, g
<1> QED BY <1>9 DEF h, t

(* A composite that comes to nothing is not one that has a name. *)
LEMMA FruitlessAnswers ==
  ASSUME Now, stack # <<>>, Head(stack).kind \in Composites, Fruitless(Head(stack)),
         Head(stack).next > Len(Head(stack).schema.subs)
  PROVE  Answered(Tail(stack), NoId, types, todo)
<1> DEFINE h == Head(stack)
           t == Tail(stack)
           g == Head(t)
<1>1. /\ h \in Range(stack) /\ FrameIs(h) /\ FrameOk(h) /\ Range(stack) = {h} \union Range(t)
      /\ g \in Range(t) /\ Under(h, g, types)
  BY HeadHas DEF Composites
<1>2. /\ spec \in Specs /\ NamesApart /\ NamesWhatIsThere /\ AllGrounded(stack) /\ Parts(types, stack)
      /\ NoId \notin DOMAIN types /\ NoId \notin Roots
  BY <1>1, NowHas, Frames, RootNotEmpty DEF Kept
<1>3. /\ h.kind = h.schema.kind /\ h.kind \in Composites /\ h.kind # "object"
      /\ h.props = NoDefs /\ ~h.got /\ h.next > Len(h.schema.subs)
      /\ \A j \in DOMAIN h.schema.subs : ~(j < h.next /\ Fruitful(h.schema.subs[j]))
  BY <1>1 DEF FrameIs, Fruitless
<1>4. h.schema.subs \in Seq([role : Seq(STRING) \ {<<>>}, part : BOOLEAN, schema : Schemas]) /\ h.next \in Nat
  BY <1>1, <1>3, SchemasAssumption DEF FrameOk
<1>5. \A x \in Range(h.schema.subs) : ~Fruitful(x)
  <2> DEFINE subs == h.schema.subs
             next == h.next
  <2>1. DOMAIN subs = 1..Len(subs) /\ Len(subs) \in Nat /\ next \in Nat /\ next > Len(subs)
    BY <1>3, <1>4
  <2>2. \A j \in DOMAIN subs : ~(j < next /\ Fruitful(subs[j]))
    BY <1>3
  <2> HIDE DEF subs, next
  <2>3. \A j \in DOMAIN subs : j < next
    BY <2>1
  <2>4. \A x \in Range(subs) : ~Fruitful(x)
    BY <2>2, <2>3 DEF Range
  <2> QED BY <2>4 DEF subs
<1> HIDE DEF h, g, t
<1>6. \A f \in Range(t) : NoId \notin f.parts
  BY <1>1, <1>2 DEF Parts
<1>7. g.key = NoKey
  <2> SUFFICES ASSUME g.key # NoKey PROVE FALSE
    OBVIOUS
  <2>1. h.schema = At(g.key)
    BY <1>1, <1>3 DEF Under
  <2>2. g.key \in Here
    BY <1>1, Frames
  <2>3. At(g.key).kind # "ref"
    BY <1>3, <2>1 DEF Composites
  <2>4. Solid(At(g.key))
    BY <1>2, <2>2, <2>3, Orderly
  <2> QED BY <1>3, <1>5, <2>1, <2>4 DEF Solid, Composites
<1>8. ~Synthetic(g.id, NoId)
  BY DEF Synthetic, NoId
<1>9. ASSUME g.kind \in Composites PROVE ~Fruitful(g.schema.subs[g.next])
  <2>1. h.schema = g.schema.subs[g.next].schema
    BY <1>1, <1>9 DEF Under
  <2> QED BY <1>3, <2>1 DEF Fruitful, Composites
<1>10. Answered(t, NoId, types, todo)
  BY <1>6, <1>7, <1>8, <1>9 DEF Answered, Answers, g
<1> QED BY <1>10 DEF t

(* What closing a composite makes of the pool, with the call still there.   *)
LEMMA CloseUnion ==
  ASSUME Now, stack # <<>>, Head(stack).kind \in Composites, NEW nullable,
         LET h == Head(stack)
             props == IF nullable THEN Put(h.props, <<"null">>, NullId) ELSE h.props
             ts == IF nullable THEN WithNull(types) ELSE types
         IN types' = Put(ts, h.id, Def("union", h.schema, props))
  PROVE  /\ Steady(types', Tail(stack), todo) /\ Head(stack).id \in DOMAIN types' /\ DOMAIN types \subseteq DOMAIN types'
         /\ Values(types', Tail(stack)) \subseteq Values(types, stack) \union {NullId}
<1> DEFINE h == Head(stack)
           t == Tail(stack)
           props == IF nullable THEN Put(h.props, <<"null">>, NullId) ELSE h.props
           ts == IF nullable THEN WithNull(types) ELSE types
           new == Put(ts, h.id, Def("union", h.schema, props))
           N == IF nullable THEN {NullId} ELSE {}
           P == ValuesOf(h.props)
<1>1. /\ h \in Range(stack) /\ h.key = NoKey /\ Grounded(h.id)
      /\ Joined(stack, h, t) /\ spec \in Specs /\ NamesApart /\ AllGrounded(stack)
      /\ Steady(types, stack, todo) /\ NoId \notin DOMAIN types /\ stack \in Seq(Range(stack))
  BY HeadHas, NowHas, Frames DEF Kept, Joined, AllGrounded
<1>2. h.id # NoId /\ NullId # NoId
  BY <1>1, RootNotEmpty DEF Grounded
<1>3. DOMAIN ts = DOMAIN types \union N /\ More(types, ts, {})
  <2>1. More(types, types, {})
    BY DEF More
  <2> QED BY <2>1, WithNullHas, WithNullMore
<1>4. ValuesOf(props) \subseteq N \union P
  BY DEF ValuesOf, Put
<1>5. More(ts, new, ValuesOf(props))
  BY PutMore
<1>6. DOMAIN new = DOMAIN ts \union {h.id}
  BY DEF Put
<1>7. P \subseteq Values(types, stack)
  BY <1>1, ValuesIs
<1>8. N \subseteq {NullId} /\ types' = new
  OBVIOUS
<1> HIDE DEF h, t, props, ts, new, N, P
<1>9. More(types, new, N \union P)
  <2>1. More(types, new, {} \union ValuesOf(props))
    BY <1>3, <1>5, MoreMore
  <2> QED BY <1>4, <2>1 DEF More
<1>10. /\ NoId \notin DOMAIN new /\ N \subseteq DOMAIN new /\ N \cap DOMAIN types \subseteq {NullId}
       /\ DOMAIN types \subseteq DOMAIN new /\ h.id \in DOMAIN new
  BY <1>1, <1>2, <1>3, <1>6, <1>8
<1>11. Steady(new, stack, todo) /\ Values(new, stack) \subseteq Values(types, stack) \union N
  BY <1>1, <1>7, <1>9, <1>10, MoreSteady
<1>12. Steady(new, t, todo)
  BY <1>1, <1>11, PopSteady DEF h, t
<1>13. Values(new, t) \subseteq Values(types, stack) \union N
  BY <1>1, <1>11, RangeParts
<1> QED BY <1>8, <1>10, <1>12, <1>13 DEF h, t

LEMMA CloseLifted ==
  ASSUME NumeralsDiffer, Now, stack # <<>>, Head(stack).kind \in Composites, NEW kind, NEW nullable,
         LET h == Head(stack)
             now == [types |-> types, counter |-> counter]
         IN types' = Without(Lifted(now, h.id, Def(kind, h.schema, h.props), nullable).types, h.parts)
  PROVE  /\ Steady(types', Tail(stack), todo) /\ Head(stack).id \in DOMAIN types'
         /\ \A x \in DOMAIN types : x = NullId \/ NullNumeral(x) => x \in DOMAIN types'
         /\ ~nullable => types'[Head(stack).id].kind = kind
         /\ \E N : /\ N \cap {Head(stack).id} \subseteq {NullId}
                   /\ Values(types', Tail(stack)) \subseteq Values(types, stack) \union N
<1> DEFINE h == Head(stack)
           t == Tail(stack)
           now == [types |-> types, counter |-> counter]
           l == Lifted(now, h.id, Def(kind, h.schema, h.props), nullable)
           new == Without(l.types, h.parts)
           P == ValuesOf(h.props)
<1>1. /\ h \in Range(stack) /\ h.key = NoKey /\ Grounded(h.id) /\ h.id \in Ids
      /\ Joined(stack, h, t) /\ spec \in Specs /\ NamesApart /\ AllGrounded(stack)
      /\ Steady(types, stack, todo) /\ NoId \notin DOMAIN types /\ stack \in Seq(Range(stack))
      /\ Parts(types, stack)
  BY HeadHas, NowHas, Frames DEF Kept, Joined, AllGrounded, Grounded
<1>2. PoolOk(now.types, now.counter) /\ now.types = types
  BY DEF Now, TInv
<1> HIDE DEF now
<1>3. Grows(types, l.types, h.id) /\ h.id \in DOMAIN l.types /\ DOMAIN types \subseteq DOMAIN l.types
  BY <1>1, <1>2, LiftedShape
<1>4. (~nullable => l.types[h.id].kind = kind)
      /\ \E N : /\ N \subseteq DOMAIN l.types /\ N \cap (DOMAIN types \union {h.id}) \subseteq {NullId}
                /\ More(types, l.types, N \union P)
  <2> HIDE DEF h
  <2>1. /\ ~nullable => l.types[h.id].kind = kind
        /\ \E N : /\ N \subseteq DOMAIN l.types /\ N \cap (DOMAIN now.types \union {h.id}) \subseteq {NullId}
                  /\ More(now.types, l.types, N \union ValuesOf(h.props))
    BY <1>1, <1>2, LiftedMore
  <2> HIDE DEF l
  <2> QED BY <1>2, <2>1
<1>5. PICK N : /\ N \subseteq DOMAIN l.types /\ N \cap (DOMAIN types \union {h.id}) \subseteq {NullId}
               /\ More(types, l.types, N \union P)
  BY <1>4
<1>6. P \subseteq Values(types, stack)
  BY <1>1, ValuesIs
<1>7. /\ types' = new /\ DOMAIN new = DOMAIN l.types \ h.parts
      /\ \A x \in DOMAIN new : new[x] = l.types[x]
  BY DEF Without, now
<1>8. \A p \in h.parts : ~NullNumeral(p) /\ p # NullId /\ p # h.id
  BY <1>1, PartIs
<1> DEFINE ts == l.types
<1> HIDE DEF h, t, l, new, P, ts
<1>9. NoId \notin DOMAIN ts
  BY <1>1, <1>3, NoIdStaysOut DEF ts
<1>10. Steady(ts, stack, todo) /\ Values(ts, stack) \subseteq Values(types, stack) \union N
  <2>1. N \subseteq DOMAIN ts /\ N \cap DOMAIN types \subseteq {NullId} /\ More(types, ts, N \union P)
    BY <1>5 DEF ts
  <2> QED BY <1>1, <1>6, <1>9, <2>1, MoreSteady
<1>11. Steady(new, t, todo)
  <2>1. Steady(Without(ts, Head(stack).parts), Tail(stack), todo)
    BY <1>1, <1>10, RemoveSteady
  <2> QED BY <2>1 DEF new, ts, t, h
<1>12. Values(new, t) \subseteq Values(ts, stack)
  <2>1. Values(ts, t) \subseteq Values(ts, stack)
    BY <1>1, RangeParts
  <2>2. ASSUME NEW x \in Values(new, t) PROVE x \in Values(ts, t)
    <3>1. \/ \E id \in DOMAIN new : x \in ValuesOf(new[id].props)
          \/ \E g \in Range(t) : x \in ValuesOf(g.props)
      BY ValuesIs
    <3>2. \/ \E id \in DOMAIN ts : x \in ValuesOf(ts[id].props)
          \/ \E g \in Range(t) : x \in ValuesOf(g.props)
      BY <1>7, <3>1 DEF ts
    <3> QED BY <3>2, ValuesIs
  <2> QED BY <2>1, <2>2
<1>13. h.id \in DOMAIN new /\ \A x \in DOMAIN types : x = NullId \/ NullNumeral(x) => x \in DOMAIN new
  BY <1>3, <1>7, <1>8
<1>14. ~nullable => new[h.id].kind = kind
  BY <1>4, <1>7, <1>13
<1>15. N \cap {h.id} \subseteq {NullId} /\ Values(new, t) \subseteq Values(types, stack) \union N
  BY <1>5, <1>10, <1>12
<1> QED BY <1>7, <1>11, <1>13, <1>14, <1>15 DEF h, t

LEMMA CloseV ==
  ASSUME NumeralsDiffer, Now, Close
  PROVE  VNext
<1> DEFINE h == Head(stack)
           t == Tail(stack)
           nullable == h.schema.nullable
           now == [types |-> types, counter |-> counter]
           props == IF nullable THEN Put(h.props, <<"null">>, NullId) ELSE h.props
           ts == IF nullable THEN WithNull(types) ELSE types
           kind == IF h.kind = "allof" THEN "object" ELSE h.kind
           l == Lifted(now, h.id, Def(kind, h.schema, h.props), nullable)
<1>1. /\ pc = "subs" /\ UNCHANGED <<dedup, todo>> /\ pc' = "return" /\ stack' = t
      /\ h.next > Len(h.schema.subs)
      /\ \/ Fruitless(h) /\ ret' = NoId /\ types' = types
         \/ /\ h.kind = "union" /\ ret' = h.id
            /\ types' = Put(ts, h.id, Def("union", h.schema, props))
         \/ h.kind # "union" /\ ret' = h.id /\ types' = Without(l.types, h.parts)
  BY DEF Close, Return, SetPool, where, roots, pool
<1>2. stack # <<>> /\ h.kind \in Composites /\ Referred(dedup, types)
  BY <1>1, NowHas DEF Now, IInv
<1>3. CASE Fruitless(h) /\ ret' = NoId /\ types' = types
  <2>1. Answered(t, NoId, types, todo)
    BY <1>1, <1>2, <1>3, FruitlessAnswers
  <2>2. Steady(types, t, todo)
    <3>1. h.key = NoKey /\ Steady(types, stack, todo) /\ stack \in Seq(Range(stack))
      BY <1>2, NowHas, HeadHas, Frames DEF AllGrounded
    <3> QED BY <1>2, <3>1, PopSteady
  <2> QED BY <1>1, <1>2, <1>3, <2>1, <2>2 DEF VNext
<1>4. CASE /\ h.kind = "union" /\ ret' = h.id
           /\ types' = Put(ts, h.id, Def("union", h.schema, props))
  <2>1. /\ Steady(types', t, todo) /\ h.id \in DOMAIN types' /\ DOMAIN types \subseteq DOMAIN types'
        /\ Values(types', t) \subseteq Values(types, stack) \union {NullId}
    BY <1>2, <1>4, CloseUnion
  <2> HIDE DEF t, h
  <2>2. Answered(t, h.id, types', todo)
    <3> DEFINE N == {NullId}
    <3>1. N \cap {h.id} \subseteq {NullId} /\ Values(types', t) \subseteq Values(types, stack) \union N
      BY <2>1
    <3> HIDE DEF N
    <3> QED BY <1>2, <1>4, <2>1, <3>1, CompositeAnswers DEF t, h
  <2>3. Referred(dedup, types')
    BY <1>2, <2>1, ReferredOn
  <2> QED BY <1>1, <1>4, <2>1, <2>2, <2>3 DEF VNext
<1>5. CASE h.kind # "union" /\ ret' = h.id /\ types' = Without(l.types, h.parts)
  <2>1. /\ Steady(types', t, todo) /\ h.id \in DOMAIN types'
        /\ \A x \in DOMAIN types : x = NullId \/ NullNumeral(x) => x \in DOMAIN types'
        /\ ~nullable => types'[h.id].kind = kind
        /\ \E N : /\ N \cap {h.id} \subseteq {NullId}
                  /\ Values(types', t) \subseteq Values(types, stack) \union N
    <3> HIDE DEF kind, nullable
    <3> QED BY <1>2, <1>5, CloseLifted
  <2>2. PICK N : /\ N \cap {h.id} \subseteq {NullId}
                 /\ Values(types', t) \subseteq Values(types, stack) \union N
    BY <2>1
  <2>3. h.kind = "object" => kind = "object"
    OBVIOUS
  <2> HIDE DEF t, h, kind
  <2>4. Answered(t, h.id, types', todo)
    BY <1>2, <2>1, <2>2, <2>3, CompositeAnswers DEF t, h
  <2>5. Referred(dedup, types')
    BY <1>2, <2>1, ReferredOn
  <2> QED BY <1>1, <1>5, <2>1, <2>4, <2>5 DEF VNext
<1> QED BY <1>1, <1>3, <1>4, <1>5

-----------------------------------------------------------------------------
(* References. *)

(* The document's prefix makes no part of a name that is none. *)
LEMMA PrefixNoPart ==
  ASSUME NEW d, NEW n \in Seq(STRING), ~PartName(n)
  PROVE  ~PartName(Prefix(d) \o n)
<1> DEFINE x == Prefix(d) \o n
<1> SUFFICES ASSUME NEW k \in DOMAIN x, IsPart(x, k) PROVE FALSE
  BY DEF PartName
<1>1. CASE d = Main
  <2>1. x = n
    BY <1>1 DEF Prefix
  <2> QED BY <2>1 DEF PartName
<1>2. CASE d # Main
  <2> DEFINE e == ""
  <2>1. x = <<d, e>> \o n
    BY <1>2, Zenon DEF Prefix
  <2>a. e # "part" /\ e # "allof"
    BY Zenon
  <2> HIDE DEF e
  <2>2. /\ x[2] = e /\ Len(n) \in Nat /\ DOMAIN x = 1..(Len(n) + 2)
        /\ DOMAIN n = 1..Len(n) /\ \A i \in DOMAIN n : x[i + 2] = n[i]
    <3> DEFINE S == STRING \union {d, e}
               p == <<d, e>>
    <3>1. p \in Seq(S) /\ Len(p) = 2 /\ p[2] = e /\ x = p \o n
      BY <2>1, <2>a
    <3>2. n \in Seq(S)
      BY SeqMonotonic
    <3> HIDE DEF S, p, x
    <3>3. /\ x \in Seq(S) /\ Len(x) = Len(p) + Len(n)
          /\ \A i \in 1..(Len(p) + Len(n)) : x[i] = IF i <= Len(p) THEN p[i] ELSE n[i - Len(p)]
      BY <3>1, <3>2, ConcatProperties
    <3>4. Len(n) \in Nat /\ DOMAIN n = 1..Len(n) /\ DOMAIN x = 1..Len(x)
      BY <3>2, <3>3
    <3>5. DOMAIN x = 1..(Len(n) + 2) /\ \A i \in 1..(Len(n) + 2) : x[i] = IF i <= 2 THEN p[i] ELSE n[i - 2]
      <4> DEFINE m == Len(n)
      <4>1. m \in Nat /\ 2 + m = m + 2
        BY <3>4
      <4> HIDE DEF m
      <4> QED BY <3>1, <3>3, <3>4, <4>1 DEF m
    <3>6. x[2] = e
      BY <3>1, <3>4, <3>5
    <3>7. ASSUME NEW i \in DOMAIN n PROVE x[i + 2] = n[i]
      <4>1. i + 2 \in 1..(Len(n) + 2) /\ ~(i + 2 <= 2) /\ (i + 2) - 2 = i
        BY <3>4
      <4> QED BY <3>5, <4>1
    <3> QED BY <3>4, <3>5, <3>6, <3>7
  <2> HIDE DEF x
  <2>3. k \in 1..(Len(n) + 2) /\ k + 1 \in 1..(Len(n) + 2) /\ k + 2 \in 1..(Len(n) + 2)
        /\ x[k] = "allof" /\ x[k + 1] = "part"
    <3> DEFINE D == DOMAIN x
    <3>1. {k, k + 1, k + 2} \subseteq D /\ x[k] = "allof" /\ x[k + 1] = "part"
      BY DEF IsPart
    <3>2. D = 1..(Len(n) + 2)
      BY <2>2
    <3> HIDE DEF D
    <3> QED BY <3>1, <3>2
  <2>4. k # 1 /\ k # 2
    <3>1. k = 1 => k + 1 = 2
      OBVIOUS
    <3> QED BY <2>2, <2>3, <2>a, <3>1
  <2> DEFINE j == k - 2
  <2>5. /\ j \in 1..Len(n) /\ j + 1 \in 1..Len(n) /\ j + 2 \in 1..Len(n)
        /\ j + 2 = k /\ (j + 1) + 2 = k + 1
    BY <2>2, <2>3, <2>4
  <2> HIDE DEF j
  <2>6. n[j] = "allof" /\ n[j + 1] = "part"
    BY <2>2, <2>3, <2>5
  <2>7. IsPart(n, j)
    BY <2>2, <2>5, <2>6 DEF IsPart
  <2> QED BY <2>2, <2>5, <2>7 DEF PartName
<1> QED BY <1>1, <1>2

(* The id of a reference's target is the one that is meant. *)
LEMMA TargetIs ==
  ASSUME Now, pc = "parse", arg.schema.kind = "ref", NEW d \in DOMAIN spec.docs, NEW n,
         n = arg.schema.target, d = IF arg.schema.file = "" THEN current ELSE arg.schema.file,
         arg.schema.file = "" => Has(d, n)
  PROVE  LET id == TargetId(d, n, arg.hint)
             key == <<d, n>>
             h == Head(stack)
         IN /\ Meant(id, key, types)
            /\ \A g : Grounded(g) => ~Synthetic(g, id)
            /\ h.key # NoKey => /\ h.key \in Here /\ h.key[1] = Main /\ d # Main
                                /\ Proper(key) = Proper(h.key)
            /\ key \in Here \/ key \in DOMAIN Claims(spec) => Proper(key) \in Roots
            /\ key \notin Here /\ key \notin DOMAIN Claims(spec) => ~PartName(id)
<1> DEFINE id == TargetId(d, n, arg.hint)
           key == <<d, n>>
           h == Head(stack)
<1>1. /\ spec \in Specs /\ NamesApart /\ NamesWhatIsThere /\ NamesNoPart /\ Referred(dedup, types)
      /\ arg.schema \in Schemas
  BY NowHas DEF Now, TInv
<1>2. n \in Seq(STRING) /\ key[1] = d /\ key[2] = n
  BY <1>1, SchemasAssumption
<1>3. ASSUME h.key # NoKey
      PROVE  /\ h.key \in Here /\ h.key[1] = Main /\ d # Main
             /\ key \in DOMAIN Claims(spec) /\ Proper(key) = Proper(h.key)
  <2>1. h.key \in Here /\ arg.schema = At(h.key)
    BY <1>3, HeadAsks
  <2>2. /\ h.key[1] = Main /\ Proper(h.key) = h.key[2]
        /\ arg.schema.file \notin {"", Main}
        /\ arg.schema.file \in DOMAIN spec.docs =>
             /\ <<arg.schema.file, arg.schema.target>> \in DOMAIN Claims(spec)
             /\ Proper(<<arg.schema.file, arg.schema.target>>) = h.key[2]
    BY <1>1, <2>1, Orderly
  <2>3. d = arg.schema.file
    BY <2>2
  <2> QED BY <2>1, <2>2, <2>3
<1>4. arg.hint.named => h.key # NoKey
  BY HeadAsks
<1>5. DOMAIN Claims(spec) \subseteq DOMAIN dedup /\ \A k \in DOMAIN dedup : Meant(dedup[k], k, types)
  BY <1>1 DEF Referred
<1> HIDE DEF h
<1>6. key \notin DOMAIN dedup => id = Base(key) /\ Proper(key) = Base(key)
  <2> SUFFICES ASSUME key \notin DOMAIN dedup PROVE id = Base(key) /\ Proper(key) = Base(key)
    OBVIOUS
  <2>1. key \notin DOMAIN Claims(spec) /\ ~arg.hint.named
    BY <1>3, <1>4, <1>5
  <2> QED BY <1>2, <2>1 DEF Proper, TargetId, Base
<1>7. Meant(id, key, types)
  <2>1. key \in DOMAIN dedup => id = dedup[key]
    BY DEF TargetId
  <2> QED BY <1>5, <1>6, <2>1 DEF Meant
<1>8. key \in Here \/ key \in DOMAIN Claims(spec) => Proper(key) \in Roots
  BY <1>1, ProperRoot
<1>9. ASSUME key \notin Here, key \notin DOMAIN Claims(spec) PROVE ~PartName(id)
  <2>1. ~Has(d, n) /\ arg.schema.file # ""
    BY <1>9, NamedHere
  <2>2. ~PartName(n)
    BY <1>1, <2>1 DEF NamesNoPart
  <2>3. Proper(key) = Prefix(d) \o n
    BY <1>2, <1>9 DEF Proper, Base
  <2>4. ~PartName(Proper(key))
    BY <1>2, <2>2, <2>3, PrefixNoPart
  <2>5. id = Proper(key) \/ NullNumeral(id)
    BY <1>7 DEF Meant, ForKey
  <2> QED BY <2>4, <2>5, NullIsNoPart
<1>10. ASSUME NEW g, Grounded(g) PROVE ~Synthetic(g, id)
  <2>1. CASE key \in Here \/ key \in DOMAIN Claims(spec)
    <3>1. ForKey(id, key, types)
      BY <1>7 DEF Meant, ForKey
    <3> QED BY <1>1, <1>10, <2>1, <3>1, MeantNoPart
  <2>2. CASE key \notin Here /\ key \notin DOMAIN Claims(spec)
    <3>1. ~PartName(id)
      BY <1>9, <2>2
    <3> QED BY <1>1, <1>10, <3>1, PartNotRoot
  <2> QED BY <2>1, <2>2
<1> QED BY <1>3, <1>7, <1>8, <1>9, <1>10 DEF h

LEMMA WalkAtV ==
  ASSUME Now, ~failed', pc = "parse", arg.schema.kind = "ref", UNCHANGED <<spec, types, dedup, todo>>,
         NEW d \in DOMAIN spec.docs, NEW n, WalkAt(d, n),
         n = arg.schema.target, d = IF arg.schema.file = "" THEN current ELSE arg.schema.file,
         arg.schema.file = "" => Has(d, n)
  PROVE  VNext
<1> DEFINE id == TargetId(d, n, arg.hint)
           key == <<d, n>>
           h == Head(stack)
           t == Tail(stack)
           f == Frame("ref", id, arg.schema, key)
<1>1. \/ pc' = "return" /\ ret' = id /\ stack' = stack /\ Known(id, key)
      \/ /\ pc' = "parse" /\ stack' = <<f>> \o stack /\ Has(d, n) /\ ~Known(id, key)
         /\ arg' = [schema |-> Schema(d, n), hint |-> Named(id)]
  BY DEF WalkAt, Return, Reject, Parse
<1>2. /\ Meant(id, key, types)
      /\ \A g : Grounded(g) => ~Synthetic(g, id)
      /\ h.key # NoKey => /\ h.key \in Here /\ h.key[1] = Main /\ d # Main
                          /\ Proper(key) = Proper(h.key)
      /\ key \in Here \/ key \in DOMAIN Claims(spec) => Proper(key) \in Roots
  BY TargetIs
<1>3. /\ spec \in Specs /\ NamesApart /\ AllGrounded(stack) /\ Parts(types, stack)
      /\ Steady(types, stack, todo) /\ Referred(dedup, types) /\ NoId \notin DOMAIN types
      /\ Asked(h, arg) /\ stack # <<>> /\ h \in Range(stack) /\ stack \in Seq(Range(stack))
      /\ h.kind \in Composites => h.key = NoKey
      /\ h.key # NoKey => arg.schema = At(h.key)
  BY NowHas, Frames, HeadAsks DEF Kept
<1>4. Range(stack) = {h} \union Range(t)
  BY <1>3, HeadHas
<1>5. f.kind = "ref" /\ f.id = id /\ f.schema = arg.schema /\ f.key = key /\ f.props = NoDefs /\ f.parts = {}
  BY DEF Frame
<1>6. key # NoKey /\ key[1] = d
  BY DEF NoKey
<1> HIDE DEF id, key, h, t, f
<1>7. CASE pc' = "return" /\ ret' = id /\ stack' = stack /\ Known(id, key)
  <2>1. id \in DOMAIN types \/ \E g \in Range(stack) : g.key = key
    <3>1. walking \subseteq {g.key : g \in Range(stack)}
      BY DEF Now, IInv, Consistent, Progress
    <3> QED BY <1>7, <3>1 DEF Known
  <2>2. (\E g \in Range(stack) : g.key = key) => key \in Here
    BY <1>6, Frames
  <2>3. id # NoId
    <3>1. CASE id \in DOMAIN types
      BY <1>3, <3>1
    <3>2. CASE id \notin DOMAIN types
      <4>1. id = Proper(key) /\ Proper(key) \in Roots
        BY <1>2, <2>1, <2>2, <3>2 DEF Meant
      <4> QED BY <1>3, <4>1, RootNotEmpty
    <3> QED BY <3>1, <3>2
  <2>4. id \in Promised(types, stack, todo)
    <3>1. CASE id \in DOMAIN types
      BY <3>1 DEF Promised
    <3>2. CASE id \notin DOMAIN types
      <4>1. PICK g \in Range(stack) : g.key = key
        BY <2>1, <3>2
      <4>2. id = Proper(g.key) /\ g.key # NoKey
        BY <1>2, <1>6, <3>2, <4>1 DEF Meant
      <4>3. id \in Due(stack)
        BY <4>2 DEF Due
      <4> QED BY <4>3 DEF Promised
    <3> QED BY <3>1, <3>2
  <2>5. \A g \in Range(stack) : id \notin g.parts
    BY <1>2, <1>3 DEF Parts, AllGrounded
  <2>6. ASSUME h.key # NoKey PROVE Meant(id, h.key, types) /\ Arrived(h, t, types)
    <3>1. Meant(id, h.key, types)
      BY <1>2, <2>6 DEF Meant, ForKey
    <3>2. CASE id \in DOMAIN types
      <4>1. Proper(h.key) \in DOMAIN types
        BY <3>1, <3>2 DEF Meant, ForKey
      <4> QED BY <3>1, <4>1 DEF Arrived
    <3>3. CASE \E g \in Range(stack) : g.key = key
      <4>1. PICK g \in Range(stack) : g.key = key
        BY <3>3
      <4>2. g # h
        BY <1>2, <1>6, <2>6, <4>1
      <4>3. g \in Range(t) /\ g.key # NoKey /\ Proper(g.key) = Proper(h.key)
        BY <1>2, <1>4, <1>6, <2>6, <4>1, <4>2
      <4> QED BY <1>2, <2>6, <3>1, <4>3 DEF Arrived
    <3> QED BY <2>1, <3>1, <3>2, <3>3
  <2>7. ASSUME h.kind \in Composites
        PROVE  ~Synthetic(h.id, id) /\ Answers(h, h.schema.subs[h.next], id, types)
    <3>1. ~Synthetic(h.id, id)
      BY <1>2, <1>3, <2>7 DEF AllGrounded
    <3>2. Answers(h, h.schema.subs[h.next], id, types)
      BY <1>3, <2>3, <2>7 DEF Asked, Answers, Fruitful
    <3> QED BY <3>1, <3>2
  <2>8. Answered(stack, id, types, todo)
    BY <2>3, <2>4, <2>5, <2>6, <2>7 DEF Answered, h, t
  <2> QED BY <1>3, <1>7, <2>8 DEF VNext
<1>8. CASE /\ pc' = "parse" /\ stack' = <<f>> \o stack /\ Has(d, n) /\ ~Known(id, key)
           /\ arg' = [schema |-> Schema(d, n), hint |-> Named(id)]
  <2>1. id = Proper(key)
    BY <1>2, <1>8 DEF Known, Meant
  <2>2. FrameIs(f)
    BY <1>5, <2>1 DEF FrameIs, Composites
  <2>3. Under(f, h, types)
    BY <1>2, <1>3, <1>5, <1>6 DEF Under, Asked, Composites
  <2>4. Steady(types, <<f>> \o stack, todo)
    BY <1>3, <1>5, <2>2, <2>3, PushSteady DEF h
  <2>5. Head(stack') = f
    BY <1>3, <1>8, PushSeq
  <2>6. Asked(Head(stack'), arg')
    BY <1>5, <2>5 DEF Asked, Composites
  <2> QED BY <1>3, <1>8, <2>4, <2>6 DEF VNext
<1> QED BY <1>1, <1>7, <1>8 DEF id, key, f

LEMMA ReferenceV ==
  ASSUME Now, ~failed', ParseLocalRef \/ ParseExternalRef
  PROVE  VNext
<1> DEFINE h == Head(stack)
           n == arg.schema.target
           d == IF arg.schema.file = "" THEN current ELSE arg.schema.file
<1>1. /\ pc = "parse" /\ UNCHANGED <<spec, types, dedup, todo>> /\ arg.schema.kind = "ref"
      /\ \/ WalkAt(d, n) /\ d \in DOMAIN spec.docs /\ (arg.schema.file = "" => Has(d, n))
         \/ /\ pc' = "return" /\ ret' = n /\ stack' = stack /\ Has(Main, n)
            /\ arg.schema.file = "" /\ current = Main
  <2>1. CASE ParseLocalRef
    <3>1. d = current /\ pc = "parse" /\ UNCHANGED <<spec, types, dedup, todo>> /\ arg.schema.kind = "ref"
          /\ arg.schema.file = ""
      BY <2>1, Zenon DEF ParseLocalRef, pool, roots
    <3> HIDE DEF d
    <3>2. \/ Reject
          \/ Has(current, n) /\ current = Main /\ Return(n) /\ stack' = stack
          \/ Has(current, n) /\ WalkAt(current, n)
      BY <2>1, Zenon DEF ParseLocalRef
    <3>3. ~Reject
      BY DEF Reject
    <3> QED BY <3>1, <3>2, <3>3 DEF Return, Has
  <2>2. CASE ParseExternalRef
    <3>1. /\ d = arg.schema.file /\ pc = "parse" /\ UNCHANGED <<spec, types, dedup, todo>>
          /\ arg.schema.kind = "ref" /\ ~(arg.schema.file = "")
      BY <2>2, Zenon DEF ParseExternalRef, pool, roots
    <3>2. \/ Reject
          \/ arg.schema.file \in DOMAIN spec.docs /\ WalkAt(arg.schema.file, n)
      BY <2>2, Zenon DEF ParseExternalRef
    <3>3. ~Reject
      BY DEF Reject
    <3> HIDE DEF d
    <3> QED BY <3>1, <3>2, <3>3
  <2> QED BY <2>1, <2>2
<1>2. CASE WalkAt(d, n) /\ d \in DOMAIN spec.docs /\ (arg.schema.file = "" => Has(d, n))
  BY <1>1, <1>2, WalkAtV
<1>3. CASE /\ pc' = "return" /\ ret' = n /\ stack' = stack /\ Has(Main, n)
           /\ arg.schema.file = "" /\ current = Main
  <2>1. /\ spec \in Specs /\ NamesApart /\ NamesWhatIsThere /\ AllGrounded(stack) /\ Parts(types, stack)
        /\ Steady(types, stack, todo) /\ Referred(dedup, types) /\ Kept(types, stack, todo)
        /\ Asked(h, arg) /\ stack # <<>> /\ h \in Range(stack)
        /\ h.kind \in Composites => h.key = NoKey
        /\ h.key # NoKey => h.key \in Here /\ arg.schema = At(h.key)
    BY <1>1, NowHas, Frames, HeadAsks
  <2>2. n \in Names(Main) /\ n \in Roots /\ n # NoId
    <3>1. n \in Names(Main)
      BY <1>3 DEF Has, Names, Range
    <3> QED BY <2>1, <3>1, NamesAreRoots, RootNotEmpty
  <2> HIDE DEF h
  <2>3. h.key = NoKey
    <3> SUFFICES ASSUME h.key # NoKey PROVE FALSE
      OBVIOUS
    <3>1. current = h.key[1]
      BY <1>1, <2>1, HeadDocument DEF Now, h
    <3> QED BY <1>1, <1>3, <2>1, <3>1, Orderly
  <2>4. \A g \in Range(stack) : n \notin g.parts
    BY <2>1, <2>2, PartIs
  <2>5. ASSUME h.kind \in Composites
        PROVE  ~Synthetic(h.id, n) /\ Answers(h, h.schema.subs[h.next], n, types)
    <3>1. ~Synthetic(h.id, n)
      BY <2>1, <2>2, <2>5, PartNotRoot DEF AllGrounded
    <3>2. Answers(h, h.schema.subs[h.next], n, types)
      BY <1>1, <2>1, <2>2, <2>5 DEF Asked, Answers, Fruitful
    <3> QED BY <3>1, <3>2
  <2>6. n \in Promised(types, stack, todo)
    BY <2>1, <2>2 DEF Kept
  <2>7. Answered(stack, n, types, todo)
    BY <2>3, <2>4, <2>5, <2>6 DEF Answered, h
  <2> QED BY <1>1, <1>3, <2>1, <2>7 DEF VNext
<1> QED BY <1>1, <1>2, <1>3

LEMMA RefReturnsV ==
  ASSUME Now, RefReturns
  PROVE  VNext
<1> DEFINE h == Head(stack)
           t == Tail(stack)
           g == Head(t)
<1>1. /\ UNCHANGED <<types, todo>> /\ pc' = "return" /\ stack' = t /\ pc = "return" /\ h.kind = "ref"
      /\ \/ ret # NoId /\ dedup' = Put(dedup, h.key, ret) /\ ret' = ret
         \/ ret = NoId
  BY DEF RefReturns, pool, roots
<1>2. /\ spec \in Specs /\ NamesApart /\ AllGrounded(stack) /\ Steady(types, stack, todo)
      /\ Referred(dedup, types) /\ Answered(stack, ret, types, todo)
      /\ stack # <<>> /\ stack \in Seq(Range(stack))
  BY <1>1, NowHas, Frames DEF Now, IInv
<1>3. /\ h \in Range(stack) /\ FrameIs(h) /\ Range(stack) = {h} \union Range(t)
      /\ g \in Range(t) /\ Under(h, g, types)
  BY <1>1, <1>2, HeadHas
<1>4. h.key \in Here /\ h.key # NoKey
  BY <1>1, <1>3, Frames, NamedHere DEF IsNamed
<1>5. /\ ret # NoId /\ Meant(ret, h.key, types) /\ Arrived(h, t, types)
      /\ ret \in Promised(types, stack, todo) /\ \A f \in Range(stack) : ret \notin f.parts
  BY <1>2, <1>4 DEF Answered
<1> HIDE DEF h, t, g
<1>6. Referred(dedup', types)
  <2>1. dedup' = Put(dedup, h.key, ret)
    BY <1>1, <1>5
  <2> QED BY <1>2, <1>5, <2>1 DEF Referred, Put
<1>7. Proper(h.key) \in DOMAIN types \union Due(t)
  BY <1>5 DEF Arrived, Due
<1>8. Steady(types, t, todo)
  BY <1>2, <1>7, PopSteady DEF h, t
<1>9. ret \in Promised(types, t, todo)
  <2>1. \A x \in Due(stack) : x \in Due(t) \/ x = Proper(h.key)
    BY <1>3, RangeParts DEF Joined
  <2> QED BY <1>5, <1>7, <2>1 DEF Promised
<1>10. ASSUME g.key # NoKey PROVE Meant(ret, g.key, types) /\ Arrived(g, Tail(t), types)
  <2>1. h.key[1] # Main /\ Proper(h.key) = Proper(g.key)
    BY <1>1, <1>3, <1>10 DEF Under
  <2> QED BY <1>5, <2>1 DEF Meant, ForKey, Arrived
<1>11. ASSUME g.kind \in Composites
       PROVE  ~Synthetic(g.id, ret) /\ Answers(g, g.schema.subs[g.next], ret, types)
  <2>1. ~Synthetic(g.id, ret)
    <3>1. Grounded(g.id)
      BY <1>2, <1>3, <1>11 DEF AllGrounded
    <3>2. ForKey(ret, h.key, types)
      BY <1>5 DEF Meant, ForKey
    <3> QED BY <1>2, <1>4, <3>1, <3>2, MeantNoPart
  <2>2. h.schema = g.schema.subs[g.next].schema /\ h.schema.kind = "ref"
    BY <1>1, <1>3, <1>11 DEF Under, FrameIs
  <2> QED BY <1>5, <2>1, <2>2 DEF Answers, Fruitful
<1>12. Answered(t, ret, types, todo)
  BY <1>3, <1>5, <1>9, <1>10, <1>11 DEF Answered, g
<1>13. ret' = ret
  BY <1>1, <1>5
<1> QED BY <1>1, <1>6, <1>8, <1>12, <1>13 DEF VNext

LEMMA InitVInv ==
  ASSUME Init
  PROVE  VInv
<1>1. /\ spec \in Specs /\ types = NoDefs /\ dedup = Claims(spec) /\ stack = <<>> /\ pc = "root"
      /\ todo = DOMAIN spec.docs[Main]
  BY DEF Init
<1>2. DOMAIN types = {} /\ Range(stack) = {} /\ DOMAIN stack = {}
  BY <1>1 DEF NoDefs, Range
<1>3. Names(Main) \subseteq Waiting(todo)
  BY <1>1 DEF Names, Waiting, Range
<1>4. Values(types, stack) = {}
  BY <1>2 DEF Values
<1>5. Kept(types, stack, todo)
  BY <1>2, <1>3, <1>4 DEF Kept, Promised
<1>6. Linked(stack, types) /\ Parts(types, stack)
  BY <1>2 DEF Linked, Parts
<1>7. Referred(dedup, types)
  BY <1>1 DEF Referred, Meant, Proper
<1> QED BY <1>1, <1>5, <1>6, <1>7 DEF VInv, Steady

(* A step that leaves the walk without a failure is not one that rejects. *)
LEMMA StepVInv ==
  ASSUME NumeralsDiffer, IInv, TInv, RInv, VInv, [Next]_vars
  PROVE  VInv'
<1>1. spec' = spec
  BY DEF Next, WalkComponent, WalkUse, Finish, RootReturns, ParseLeaf, ParseNull, ParseBad,
         ParseComposite, NextSub, SubReturns, PartReturns, Close, ParseLocalRef,
         ParseExternalRef, RefReturns, vars
<1>2. ~failed' => ~failed
  BY DEF IInv, Next, WalkComponent, WalkUse, Finish, RootReturns, ParseLeaf, ParseNull, ParseBad,
         ParseComposite, NextSub, SubReturns, PartReturns, Close, ParseLocalRef,
         ParseExternalRef, RefReturns, vars, Reject, WalkAt, where
<1>3. ASSUME Tidy, ~failed' PROVE VNext
  <2>1. Now
    BY <1>3 DEF Now
  <2>2. ~ParseBad
    BY <1>3 DEF ParseBad, Reject
  <2> QED BY <1>3, <2>1, <2>2, WalkComponentV, WalkUseV, RootReturnsV, NextSubV, StillV, SubReturnsV,
             PartReturnsV, ParseLeafV, ParseNullV, ParseCompositeV, CloseV, ReferenceV, RefReturnsV
          DEF Next
<1> QED BY <1>1, <1>2, <1>3, VInvNext

(* When the walk is over without a failure, no type of the pool refers to   *)
(* one that is not there: whatever is not there yet when a reference to it  *)
(* is answered is being walked or has yet to be, and no part that an allOf  *)
(* removes is referred to by anything else. This is for every description   *)
(* whose names do not run into each other, that gives every name a schema   *)
(* that makes a type, and whose external references name no inline part.    *)
THEOREM ReferencesResolve ==
  ASSUME NumeralsDiffer
  PROVE  Spec => []RefsResolve
<1> DEFINE Inv == IInv /\ TInv /\ RInv /\ VInv /\ DoneInv
<1>1. Init => Inv
  <2> SUFFICES ASSUME Init PROVE Inv
    OBVIOUS
  <2>1. DoneInv
    BY DEF Init, DoneInv
  <2> QED BY <2>1, InitIInv, InitTInv, InitRInv, InitVInv
<1>2. Inv /\ [Next]_vars => Inv'
  <2> SUFFICES ASSUME Inv, [Next]_vars PROVE Inv'
    OBVIOUS
  <2>1. IInv' /\ TInv'
    BY StepIInv, StepTInv
  <2>2. RInv' /\ VInv'
    BY StepRInv, StepVInv
  <2>3. DoneInv'
    BY StepDoneInv
  <2> QED BY <2>1, <2>2, <2>3
<1>3. Inv => RefsResolve
  <2> SUFFICES ASSUME Inv, pc = "done", Tidy, NEW id \in DOMAIN types, NEW r \in DOMAIN types[id].props
               PROVE  types[id].props[r] \in DOMAIN types
    BY DEF RefsResolve, Tidy
  <2>1. stack = <<>> /\ todo = {} /\ Kept(types, stack, todo)
    BY DEF IInv, DoneInv, VInv, Steady
  <2>2. Due(stack) = {} /\ Waiting(todo) = {}
    BY <2>1 DEF Due, Waiting, Range
  <2>3. types[id].props[r] \in Values(types, stack)
    BY DEF Values, ValuesOf
  <2> QED BY <2>1, <2>2, <2>3 DEF Kept, Promised
<1> HIDE DEF Inv
<1> QED BY <1>1, <1>2, <1>3, PTL DEF Spec
-----------------------------------------------------------------------------
(* The tags of a discriminated union.                                       *)

(* The entries of a mapping are the explicit ones for variants, and the     *)
(* variants that none of them is for, each with its id as its tag.          *)
LEMMA MappingIs ==
  ASSUME NEW Labels, NEW variants \in Seq(Labels), NEW explicit \in Seq(Labels \X Labels)
  PROVE  LET kept == {e \in Range(explicit) : e[2] \in Range(variants)}
             plain == {v \in Range(variants) : \A e \in Range(explicit) : e[2] # v}
         IN /\ Mapping(variants, explicit) \in Seq(Labels \X Labels)
            /\ Range(Mapping(variants, explicit)) = kept \union {<<v, v>> : v \in plain}
<1> DEFINE kept == {e \in Range(explicit) : e[2] \in Range(variants)}
           plain == {v \in Range(variants) : \A e \in Range(explicit) : e[2] # v}
           m == Len(explicit)
           n == Len(variants)
           valid == FlattenSeq([k \in DOMAIN explicit |->
                      IF explicit[k][2] \in Range(variants) THEN <<explicit[k]>> ELSE <<>>])
           mapped(i) == (\E e \in Range(valid) : e[2] = variants[i])
                        \/ \E j \in 1..(i - 1) : variants[j] = variants[i]
           rest == FlattenSeq([i \in DOMAIN variants |->
                     IF mapped(i) THEN <<>> ELSE << <<variants[i], variants[i]>> >>])
<1>0. Mapping(variants, explicit) = valid \o rest
  BY DEF Mapping
<1>1. m \in Nat /\ DOMAIN explicit = 1..m /\ n \in Nat /\ DOMAIN variants = 1..n
      /\ \A k \in 1..m : explicit[k] \in Labels \X Labels
      /\ \A i \in 1..n : variants[i] \in Labels
  OBVIOUS
<1> HIDE DEF m, n
<1>2. valid \in Seq(Labels \X Labels) /\ Range(valid) = kept
  <2> DEFINE s == [k \in DOMAIN explicit |->
                    IF explicit[k][2] \in Range(variants) THEN <<explicit[k]>> ELSE <<>>]
  <2>1. \A k \in 1..m : s[k] = IF explicit[k][2] \in Range(variants) THEN <<explicit[k]>> ELSE <<>>
    BY <1>1
  <2>2. DOMAIN s = 1..m
    BY <1>1
  <2>3. valid = FlattenSeq(s)
    OBVIOUS
  <2> HIDE DEF valid
  <2>4. s \in Seq(Seq(Labels \X Labels))
    <3>1. \A k \in 1..m : s[k] \in Seq(Labels \X Labels)
      BY <1>1, <2>1, OneOrNone
    <3>2. s = [k \in 1..m |-> s[k]]
      BY <1>1
    <3> HIDE DEF s
    <3> QED BY <1>1, <3>1, <3>2, ListIs
  <2>5. \A k \in 1..m : \A x : x \in Range(s[k]) <=> explicit[k][2] \in Range(variants) /\ x = explicit[k]
    <3> HIDE DEF s
    <3> TAKE k \in 1..m
    <3>1. CASE explicit[k][2] \in Range(variants)
      <4>1. s[k] = <<explicit[k]>>
        BY <2>1, <3>1
      <4> QED BY ONLY <3>1, <4>1, OneHolds
    <3>2. CASE explicit[k][2] \notin Range(variants)
      <4>1. s[k] = <<>>
        BY <2>1, <3>2
      <4> QED BY ONLY <3>2, <4>1, OneHolds
    <3> QED BY <3>1, <3>2
  <2> HIDE DEF s
  <2>6. /\ FlattenSeq(s) \in Seq(Labels \X Labels)
        /\ \A x : x \in Range(FlattenSeq(s)) <=> \E k \in DOMAIN s : x \in Range(s[k])
    BY <2>4, FlattenRange
  <2>7. \A x : x \in kept <=> \E k \in 1..m : explicit[k][2] \in Range(variants) /\ x = explicit[k]
    BY <1>1 DEF Range
  <2> HIDE DEF kept
  <2> QED BY <2>2, <2>3, <2>5, <2>6, <2>7
<1> HIDE DEF valid
<1>3. \A v \in Range(variants) :
        (\E i \in 1..n : variants[i] = v /\ ~mapped(i)) <=> v \in plain
  <2> SUFFICES ASSUME NEW v \in Range(variants)
               PROVE  (\E i \in 1..n : variants[i] = v /\ ~mapped(i)) <=> v \in plain
    OBVIOUS
  <2> DEFINE I == {i \in 1..n : variants[i] = v}
  <2>1. I # {} /\ I \subseteq Nat
    BY <1>1 DEF Range
  <2>2. PICK i \in I : \A j \in I : i <= j
    BY <2>1, LeastNatural
  <2>3. \A j \in 1..(i - 1) : variants[j] # variants[i]
    BY <1>1, <2>2
  <2>4. (\E e \in Range(valid) : e[2] = v) <=> v \notin plain
    BY <1>2
  <2> HIDE DEF plain
  <2> QED BY <2>2, <2>3, <2>4
<1>4. rest \in Seq(Labels \X Labels) /\ Range(rest) = {<<v, v>> : v \in plain}
  <2> DEFINE s == [i \in DOMAIN variants |-> IF mapped(i) THEN <<>> ELSE << <<variants[i], variants[i]>> >>]
  <2>1. rest = FlattenSeq(s)
    OBVIOUS
  <2> HIDE DEF rest, mapped
  <2>2. DOMAIN s = 1..n /\ \A i \in 1..n : s[i] = IF mapped(i) THEN <<>> ELSE << <<variants[i], variants[i]>> >>
    BY <1>1
  <2>3. s = [i \in 1..n |-> s[i]]
    BY <1>1
  <2> HIDE DEF s
  <2>4. s \in Seq(Seq(Labels \X Labels))
    <3>1. \A i \in 1..n : << <<variants[i], variants[i]>> >> \in Seq(Labels \X Labels) /\ <<>> \in Seq(Labels \X Labels)
      BY <1>1, OneOrNone
    <3>2. \A i \in 1..n : s[i] \in Seq(Labels \X Labels)
      BY <2>2, <3>1
    <3> QED BY <1>1, <2>3, <3>2, ListIs
  <2>5. \A i \in 1..n : \A x : x \in Range(s[i]) <=> ~mapped(i) /\ x = <<variants[i], variants[i]>>
    <3> TAKE i \in 1..n
    <3>1. CASE mapped(i)
      <4>1. s[i] = <<>>
        BY <2>2, <3>1
      <4> QED BY ONLY <3>1, <4>1, OneHolds
    <3>2. CASE ~mapped(i)
      <4>1. s[i] = << <<variants[i], variants[i]>> >>
        BY <2>2, <3>2
      <4>2. \A p : Range(<<p>>) = {p}
        BY OneHolds
      <4>3. Range(s[i]) = {<<variants[i], variants[i]>>}
        BY ONLY <4>1, <4>2, Zenon
      <4> QED BY ONLY <3>2, <4>3, Zenon
    <3> QED BY <3>1, <3>2
  <2>6. /\ FlattenSeq(s) \in Seq(Labels \X Labels)
        /\ \A x : x \in Range(FlattenSeq(s)) <=> \E k \in DOMAIN s : x \in Range(s[k])
    BY <2>4, FlattenRange
  <2>7. \A x : (\E i \in 1..n : ~mapped(i) /\ x = <<variants[i], variants[i]>>) <=> \E v \in plain : x = <<v, v>>
    <3>1. \A i \in 1..n : variants[i] \in Range(variants)
      BY <1>1 DEF Range
    <3>2. \A v \in plain : v \in Range(variants)
      OBVIOUS
    <3> HIDE DEF plain
    <3> QED BY <1>3, <3>1, <3>2
  <2>8. \A x : x \in Range(rest) <=> \E v \in plain : x = <<v, v>>
    <3> HIDE DEF plain
    <3>1. \A x : x \in Range(rest) <=> \E k \in 1..n : x \in Range(s[k])
      BY <2>1, <2>2, <2>6
    <3>2. \A x : (\E k \in 1..n : x \in Range(s[k]))
                    <=> \E i \in 1..n : ~mapped(i) /\ x = <<variants[i], variants[i]>>
      BY ONLY <2>5
    <3> QED BY ONLY <2>7, <3>1, <3>2
  <2> HIDE DEF plain
  <2> QED BY <2>1, <2>6, <2>8
<1> HIDE DEF rest, kept, plain
<1>5. (valid \o rest) \in Seq(Labels \X Labels) /\ Range(valid \o rest) = Range(valid) \union Range(rest)
  BY <1>2, <1>4, JoinRange
<1> QED BY <1>0, <1>2, <1>4, <1>5 DEF kept, plain

(* Whatever variants and explicit entries a discriminated union has, as     *)
(* long as tags are not ambiguous, each variant has a tag, every entry of   *)
(* that tag leads to it, the entries for variants are kept, and no tag      *)
(* leads out of the union.                                                  *)
THEOREM TagsLeadToVariants ==
  ASSUME NEW Labels, NEW variants \in Seq(Labels), NEW explicit \in Seq(Labels \X Labels),
         Unambiguous(variants, explicit)
  PROVE  TagsLead(variants, explicit)
<1> DEFINE mapping == Mapping(variants, explicit)
           kept == {e \in Range(explicit) : e[2] \in Range(variants)}
           plain == {v \in Range(variants) : \A e \in Range(explicit) : e[2] # v}
           Leads(tag) == {e[2] : e \in {x \in Range(mapping) : x[1] = tag}}
<1>1. mapping \in Seq(Labels \X Labels) /\ Range(mapping) = kept \union {<<v, v>> : v \in plain}
  BY MappingIs
<1>2. \A d, e \in Range(mapping) : d[1] = e[1] => d[2] = e[2]
  <2>1. \A d, e \in kept : d[1] = e[1] => d[2] = e[2]
    BY DEF Unambiguous
  <2>2. \A d \in kept : \A v \in plain : d[1] # v
    BY DEF Unambiguous
  <2> HIDE DEF mapping, kept, plain
  <2> QED BY <1>1, <2>1, <2>2
<1>3. \A e \in Range(mapping) : Leads(e[1]) = {e[2]}
  <2> HIDE DEF mapping
  <2> QED BY <1>2
<1>4. \A e \in Range(mapping) : e[2] \in Range(variants)
  BY <1>1
<1>5. ASSUME NEW v \in Range(variants) PROVE Tag(mapping, v) # <<>> /\ Leads(Tag(mapping, v)[1]) = {v}
  <2> DEFINE entries == {k \in DOMAIN mapping : mapping[k][2] = v}
  <2>1. \E e \in Range(mapping) : e[2] = v
    <3>1. CASE v \in plain
      <4>1. <<v, v>> \in Range(mapping) /\ <<v, v>>[2] = v
        BY <1>1, <3>1
      <4> HIDE DEF mapping
      <4> QED BY <4>1
    <3>2. CASE v \notin plain
      <4>1. PICK e \in Range(explicit) : e[2] = v
        BY <3>2
      <4>2. e \in kept
        BY <4>1
      <4> HIDE DEF mapping, kept, plain
      <4> QED BY <1>1, <4>1, <4>2
    <3> QED BY <3>1, <3>2
  <2> HIDE DEF mapping
  <2>2. entries # {} /\ entries \subseteq Nat
    BY <1>1, <2>1 DEF Range
  <2>3. Min(entries) \in entries
    BY <2>2, MinFacts
  <2>4. Tag(mapping, v) = <<mapping[Min(entries)][1]>>
    BY <2>2 DEF Tag
  <2> DEFINE e == mapping[Min(entries)]
  <2>5. e \in Range(mapping) /\ e[2] = v /\ Tag(mapping, v) = <<e[1]>>
    BY <2>3, <2>4 DEF Range
  <2>6. Leads(e[1]) = {v}
    BY <1>3, <2>5
  <2> HIDE DEF e, Leads
  <2>7. <<e[1]>> # <<>> /\ <<e[1]>>[1] = e[1]
    OBVIOUS
  <2> QED BY <2>5, <2>6, <2>7
<1>6. ASSUME NEW e \in Range(explicit), e[2] \in Range(variants) PROVE Leads(e[1]) = {e[2]}
  <2>1. e \in Range(mapping)
    BY <1>1, <1>6
  <2> QED BY <1>3, <2>1
<1> QED BY <1>4, <1>5, <1>6 DEF TagsLead
=============================================================================
