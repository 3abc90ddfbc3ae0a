--------------------------- MODULE SequenceLemmas ---------------------------
(***************************************************************************)
(* Facts about numbers and sequences that the proofs keep needing: what it *)
(* means to push onto a stack of frames and to pop from it, induction and  *)
(* recursion over the natural numbers, what a concatenation holds, and     *)
(* what a sum is.                                                          *)
(***************************************************************************)
EXTENDS Naturals, Sequences, SequencesExt, Functions, SequenceTheorems, NaturalsInduction,
        WellFoundedInduction, FiniteSetTheorems, TLAPS

-----------------------------------------------------------------------------
(* Stacks.                                                                  *)

(* What it means to push a call. *)
LEMMA PushSeq ==
  ASSUME NEW s, s \in Seq(Range(s)), NEW f
  PROVE  LET t == <<f>> \o s IN
         /\ t \in Seq(Range(t)) /\ t # <<>> /\ Head(t) = f
         /\ Len(s) \in Nat /\ DOMAIN s = 1..Len(s)
         /\ Len(t) = Len(s) + 1 /\ DOMAIN t = 1..(Len(s) + 1)
         /\ t[1] = f /\ \A i \in DOMAIN s : t[i + 1] = s[i]
         /\ Range(t) = {f} \union Range(s)
<1> DEFINE t == <<f>> \o s
           S == Range(s) \union {f}
<1>1. s \in Seq(S) /\ <<f>> \in Seq(S)
  BY DEF Range
<1>2. Len(s) \in Nat /\ DOMAIN s = 1..Len(s)
  BY <1>1
<1>3. t \in Seq(S) /\ Len(t) = Len(s) + 1 /\ t[1] = f /\ \A i \in 1..Len(s) : t[i + 1] = s[i]
  BY <1>1, <1>2
<1>4. DOMAIN t = 1..(Len(s) + 1) /\ t # <<>> /\ Head(t) = f
  BY <1>2, <1>3
<1>5. Range(t) = {f} \union Range(s)
  <2>1. ASSUME NEW i \in DOMAIN t PROVE t[i] \in {f} \union Range(s)
    <3>1. CASE i = 1
      BY <3>1, <1>3
    <3>2. CASE i # 1
      <4>1. i - 1 \in DOMAIN s /\ i = (i - 1) + 1
        BY <2>1, <3>2, <1>2, <1>4
      <4>2. t[i] = s[i - 1]
        BY <4>1, <1>2, <1>3
      <4> QED BY <4>1, <4>2 DEF Range
    <3> QED BY <3>1, <3>2
  <2>2. f \in Range(t)
    BY <1>2, <1>3, <1>4 DEF Range
  <2>3. ASSUME NEW i \in DOMAIN s PROVE s[i] \in Range(t)
    <3>1. i + 1 \in DOMAIN t /\ t[i + 1] = s[i]
      BY <2>3, <1>2, <1>3, <1>4
    <3> QED BY <3>1 DEF Range
  <2> QED BY <2>1, <2>2, <2>3 DEF Range
<1>6. t \in Seq(Range(t))
  BY <1>3, <1>5
<1> QED BY <1>2, <1>3, <1>4, <1>5, <1>6

(* What it means to return from one. *)
LEMMA PopSeq ==
  ASSUME NEW s, s \in Seq(Range(s)), s # <<>>
  PROVE  LET t == Tail(s) IN
         /\ t \in Seq(Range(t))
         /\ Len(s) \in Nat \ {0} /\ DOMAIN s = 1..Len(s) /\ Head(s) = s[1]
         /\ Len(t) = Len(s) - 1 /\ DOMAIN t = 1..(Len(s) - 1)
         /\ \A i \in DOMAIN t : t[i] = s[i + 1]
         /\ Range(s) = {s[1]} \union Range(t)
<1> DEFINE t == Tail(s)
<1>1. Len(s) \in Nat \ {0} /\ DOMAIN s = 1..Len(s) /\ Head(s) = s[1]
  OBVIOUS
<1>2. t \in Seq(Range(s)) /\ Len(t) = Len(s) - 1 /\ DOMAIN t = 1..(Len(s) - 1)
  BY <1>1
<1>3. \A i \in DOMAIN t : t[i] = s[i + 1]
  BY <1>1, <1>2
<1>4. Range(s) = {s[1]} \union Range(t)
  <2>1. ASSUME NEW i \in DOMAIN s PROVE s[i] \in {s[1]} \union Range(t)
    <3>1. CASE i = 1
      BY <3>1
    <3>2. CASE i # 1
      <4>1. i - 1 \in DOMAIN t /\ (i - 1) + 1 = i
        BY <2>1, <3>2, <1>1, <1>2
      <4>2. t[i - 1] = s[i]
        BY <4>1, <1>3
      <4> QED BY <4>1, <4>2 DEF Range
    <3> QED BY <3>1, <3>2
  <2>2. s[1] \in Range(s)
    BY <1>1 DEF Range
  <2>3. ASSUME NEW i \in DOMAIN t PROVE t[i] \in Range(s)
    <3>1. i + 1 \in DOMAIN s /\ t[i] = s[i + 1]
      BY <2>3, <1>1, <1>2, <1>3
    <3> QED BY <3>1 DEF Range
  <2> QED BY <2>1, <2>2, <2>3 DEF Range
<1>5. t \in Seq(Range(t))
  BY <1>2, SeqOfRange
<1> QED BY <1>1, <1>2, <1>3, <1>4, <1>5

-----------------------------------------------------------------------------
(* Short lists.                                                             *)

(* One element, or none, is a list.                                         *)
LEMMA OneOrNone ==
  ASSUME NEW S, NEW x \in S
  PROVE  <<x>> \in Seq(S) /\ <<>> \in Seq(S)
OBVIOUS

(* A list is built from its elements.                                       *)
LEMMA ListIs ==
  ASSUME NEW S, NEW n \in Nat, NEW s, s = [k \in 1..n |-> s[k]], \A k \in 1..n : s[k] \in S
  PROVE  s \in Seq(S)
<1>1. [k \in 1..n |-> s[k]] \in Seq(S)
  OBVIOUS
<1> QED BY <1>1

(* What a list of one element holds, and an empty one.                      *)
LEMMA OneHolds == \A x : Range(<<x>>) = {x} /\ Range(<<>>) = {}
<1>1. \A x : DOMAIN <<x>> = {1} /\ <<x>>[1] = x
  OBVIOUS
<1>2. Range(<<>>) = {}
  BY DEF Range
<1> QED BY <1>1, <1>2 DEF Range

-----------------------------------------------------------------------------
(* The smallest of some numbers, and induction.  What is to be shown of a   *)
(* number is membership in a set.                                           *)

LEMMA NatRelation ==
  \E R : IsWellFoundedOn(R, Nat) /\ \A m, n \in Nat : <<m, n>> \in R <=> m < n
<1>1. IsWellFoundedOn(OpToRel(<, Nat), Nat)
  BY NatLessThanWellFounded, Zenon
<1>2. \A m, n \in Nat : <<m, n>> \in OpToRel(<, Nat) <=> m < n
  BY DEF OpToRel
<1> QED BY <1>1, <1>2, Zenon

LEMMA MinimalElement ==
  \A R, N, S : IsWellFoundedOn(R, N) /\ S \subseteq N /\ S # {}
               => \E x \in S : \A y \in S : <<y, x>> \notin R
BY WFMin, SMT

LEMMA LeastNatural ==
  ASSUME NEW S, S \subseteq Nat, S # {}
  PROVE  \E n \in S : \A m \in S : n <= m
<1>1. PICK R : IsWellFoundedOn(R, Nat) /\ \A m, n \in Nat : <<m, n>> \in R <=> m < n
  BY NatRelation
<1> DEFINE N == Nat
<1>2. IsWellFoundedOn(R, N) /\ S \subseteq N
  BY <1>1
<1> HIDE DEF N
<1>3. PICK x \in S : \A y \in S : <<y, x>> \notin R
  BY <1>2, MinimalElement
<1>4. \A y \in S : ~ (y < x)
  BY <1>1, <1>3
<1> QED BY <1>4

LEMMA MinFacts ==
  ASSUME NEW S, S \subseteq Nat, S # {}
  PROVE  Min(S) \in S /\ \A m \in S : Min(S) <= m
BY LeastNatural DEF Min

LEMMA MinOfTwo ==
  ASSUME NEW m \in Nat, NEW n \in Nat
  PROVE  Min({m, n}) \in {m, n} /\ Min({m, n}) <= m /\ Min({m, n}) <= n
BY MinFacts

LEMMA NatInduct ==
  ASSUME NEW G, 0 \in G, \A n \in Nat : n \in G => n + 1 \in G
  PROVE  Nat \subseteq G
<1> SUFFICES ASSUME Nat \ G # {} PROVE FALSE
  OBVIOUS
<1>1. PICK n \in Nat \ G : \A m \in Nat \ G : n <= m
  BY LeastNatural
<1>2. n # 0
  BY <1>1
<1>3. n - 1 \in Nat /\ (n - 1) + 1 = n /\ ~ (n <= n - 1)
  BY <1>1, <1>2
<1> QED BY <1>1, <1>3

(* h[n] is the step from n - 1 to n, and g what N steps from b compute.     *)
IsStep(h, N, X) == h \in [1..N -> [X -> X]]
Iterates(g, h, b, N, X) ==
  g \in [0..N -> X] /\ g[0] = b /\ \A n \in 1..N : g[n] = h[n][g[n - 1]]

LEMMA PrimitiveRecursion ==
  ASSUME NEW N \in Nat, NEW X, NEW b \in X, NEW h, IsStep(h, N, X)
  PROVE  \E g : Iterates(g, h, b, N, X)
<1> USE DEF IsStep
<1> DEFINE Upto(m, g) == /\ g \in [0..m -> X] /\ g[0] = b
                         /\ \A n \in 1..m : g[n] = h[n][g[n - 1]]
           G == {m \in Nat : m <= N => \E g : Upto(m, g)}
<1>1. 0 \in G
  <2>1. Upto(0, [n \in 0..0 |-> b])
    OBVIOUS
  <2> HIDE DEF Upto
  <2> QED BY <2>1
<1>2. ASSUME NEW m \in Nat, m \in G PROVE m + 1 \in G
  <2> SUFFICES ASSUME m + 1 <= N PROVE \E g : Upto(m + 1, g)
    OBVIOUS
  <2>1. PICK g : Upto(m, g)
    BY <1>2
  <2> DEFINE x == h[m + 1][g[m]]
             k == [n \in 0..(m + 1) |-> IF n = m + 1 THEN x ELSE g[n]]
  <2>2. x \in X
    <3>1. g[m] \in X /\ m + 1 \in 1..N
      BY <2>1
    <3> QED BY <3>1
  <2>3. /\ k \in [0..(m + 1) -> X] /\ k[m + 1] = x
        /\ \A n \in 0..m : k[n] = g[n]
    <3> HIDE DEF x
    <3>1. \A n \in 0..(m + 1) : n = m + 1 \/ n \in 0..m
      OBVIOUS
    <3> QED BY <2>1, <2>2, <3>1
  <2> HIDE DEF k
  <2>4. Upto(m + 1, k)
    <3>1. k[0] = b
      BY <2>1, <2>3
    <3>2. ASSUME NEW n \in 1..(m + 1) PROVE k[n] = h[n][k[n - 1]]
      <4>1. CASE n = m + 1
        <5>1. k[m] = g[m] /\ n - 1 = m
          BY <2>3, <4>1
        <5> QED BY <2>3, <4>1, <5>1
      <4>2. CASE n # m + 1
        <5>1. n \in 1..m /\ n \in 0..m /\ n - 1 \in 0..m
          BY <4>2
        <5> QED BY <2>1, <2>3, <5>1
      <4> QED BY <4>1, <4>2
    <3> QED BY <2>3, <3>1, <3>2
  <2> HIDE DEF Upto
  <2> QED BY <2>4
<1>3. N \in G
  <2>1. Nat \subseteq G
    <3> HIDE DEF G
    <3> QED BY <1>1, <1>2, NatInduct
  <2> QED BY <2>1
<1> QED BY <1>3 DEF Iterates

-----------------------------------------------------------------------------
(* The concatenation of sequences that share no element: what is in it, and *)
(* where.                                                                   *)
Blocks(parts, n, s) ==
  /\ IsInjective(s)
  /\ \A x : x \in Range(s) <=> \E k \in 1..n : x \in Range(parts[k])
  /\ \A k, l \in 1..n : \A a, b \in DOMAIN s :
       s[a] \in Range(parts[k]) /\ s[b] \in Range(parts[l]) /\ k < l => a < b

LEMMA AppendBlock ==
  ASSUME NEW X, NEW n \in Nat, NEW parts, NEW s \in Seq(X), Blocks(parts, n, s),
         parts[n + 1] \in Seq(X), IsInjective(parts[n + 1]),
         \A k \in 1..n : Range(parts[k]) \cap Range(parts[n + 1]) = {}
  PROVE  (s \o parts[n + 1]) \in Seq(X) /\ Blocks(parts, n + 1, s \o parts[n + 1])
<1> DEFINE p == parts[n + 1]
           c == s \o p
           m == Len(s)
           l == Len(p)
<1>1. m \in Nat /\ DOMAIN s = 1..m /\ l \in Nat /\ DOMAIN p = 1..l
  OBVIOUS
<1>2. /\ c \in Seq(X) /\ DOMAIN c = 1..(m + l)
      /\ \A i \in 1..m : c[i] = s[i]
      /\ \A i \in (m + 1)..(m + l) : c[i] = p[i - m]
  <2>1. p \in Seq(X)
    OBVIOUS
  <2> HIDE DEF p
  <2> QED BY <2>1
<1>a. IsInjective(p) /\ \A k \in 1..n : Range(parts[k]) \cap Range(p) = {}
  OBVIOUS
<1> HIDE DEF c, m, l, p
<1>3. \A i \in 1..(m + l) : \/ i \in 1..m /\ c[i] = s[i] /\ c[i] \in Range(s)
                            \/ i - m \in 1..l /\ i > m /\ c[i] = p[i - m] /\ c[i] \in Range(p)
  <2> SUFFICES ASSUME NEW i \in 1..(m + l)
               PROVE  \/ i \in 1..m /\ c[i] = s[i] /\ c[i] \in Range(s)
                      \/ i - m \in 1..l /\ i > m /\ c[i] = p[i - m] /\ c[i] \in Range(p)
    OBVIOUS
  <2>1. CASE i \in 1..m
    BY <1>1, <1>2, <2>1 DEF Range
  <2>2. CASE i \notin 1..m
    <3>1. i - m \in 1..l /\ i \in (m + 1)..(m + l) /\ i > m
      BY <1>1, <2>2
    <3> QED BY <1>1, <1>2, <3>1 DEF Range
  <2> QED BY <2>1, <2>2
<1>4. Range(s) \cap Range(p) = {}
  BY <1>a DEF Blocks
<1>5. IsInjective(c)
  <2> SUFFICES ASSUME NEW i \in 1..(m + l), NEW j \in 1..(m + l), c[i] = c[j] PROVE i = j
    BY <1>2 DEF IsInjective
  <2>1. CASE i \in 1..m /\ c[i] = s[i] /\ c[i] \in Range(s)
    <3>1. j \in 1..m /\ c[j] = s[j]
      BY <1>3, <1>4, <2>1
    <3> QED BY <1>1, <2>1, <3>1 DEF Blocks, IsInjective
  <2>2. CASE i - m \in 1..l /\ c[i] = p[i - m] /\ c[i] \in Range(p)
    <3>1. j - m \in 1..l /\ c[j] = p[j - m]
      BY <1>3, <1>4, <2>2
    <3>2. i - m = j - m
      BY <1>1, <1>a, <2>2, <3>1 DEF IsInjective
    <3> QED BY <1>1, <3>2
  <2> QED BY <1>3, <2>1, <2>2
<1>6. \A x : x \in Range(c) <=> x \in Range(s) \/ x \in Range(p)
  <2>1. ASSUME NEW x \in Range(c) PROVE x \in Range(s) \/ x \in Range(p)
    <3>1. PICK i \in 1..(m + l) : x = c[i]
      BY <1>2, <2>1 DEF Range
    <3> QED BY <1>3, <3>1
  <2>2. ASSUME NEW x \in Range(s) PROVE x \in Range(c)
    <3>1. PICK i \in 1..m : x = s[i]
      BY <1>1, <2>2 DEF Range
    <3>2. i \in 1..(m + l)
      BY <1>1
    <3> QED BY <1>2, <3>1, <3>2 DEF Range
  <2>3. ASSUME NEW x \in Range(p) PROVE x \in Range(c)
    <3>1. PICK i \in 1..l : x = p[i]
      BY <1>1, <2>3 DEF Range
    <3>2. i + m \in 1..(m + l) /\ i + m \in (m + 1)..(m + l) /\ (i + m) - m = i
      BY <1>1
    <3>3. c[i + m] = x
      BY <1>2, <3>1, <3>2
    <3> QED BY <1>2, <3>2, <3>3 DEF Range
  <2> QED BY <2>1, <2>2, <2>3
<1>7. \A k \in 1..(n + 1) : k \in 1..n \/ (k = n + 1 /\ parts[k] = p)
  BY DEF p
<1>8. \A x : x \in Range(c) <=> \E k \in 1..(n + 1) : x \in Range(parts[k])
  <2>1. \A x : x \in Range(s) <=> \E k \in 1..n : x \in Range(parts[k])
    BY DEF Blocks
  <2>2. n + 1 \in 1..(n + 1) /\ \A k \in 1..n : k \in 1..(n + 1)
    OBVIOUS
  <2> QED BY <1>6, <1>7, <2>1, <2>2 DEF p
<1>9. ASSUME NEW k \in 1..(n + 1), NEW j \in 1..(n + 1), NEW a \in DOMAIN c, NEW b \in DOMAIN c,
             c[a] \in Range(parts[k]), c[b] \in Range(parts[j]), k < j
      PROVE  a < b
  <2>1. k \in 1..n
    BY <1>9
  <2>2. a \in 1..m /\ c[a] = s[a]
    BY <1>2, <1>3, <1>9, <1>a, <2>1
  <2>3. CASE j \in 1..n
    <3>1. b \in 1..m /\ c[b] = s[b]
      BY <1>2, <1>3, <1>9, <1>a, <2>3
    <3> QED BY <1>1, <1>9, <2>1, <2>2, <2>3, <3>1 DEF Blocks
  <2>4. CASE j = n + 1
    <3>1. c[b] \in Range(p)
      BY <1>9, <2>4 DEF p
    <3>2. c[b] \notin Range(s)
      BY <1>4, <3>1
    <3>3. b > m
      BY <1>2, <1>3, <3>2
    <3> QED BY <1>1, <1>2, <2>2, <3>3
  <2> QED BY <1>7, <2>3, <2>4
<1>10. Blocks(parts, n + 1, c)
  BY <1>5, <1>8, <1>9 DEF Blocks
<1> QED BY <1>2, <1>10 DEF c, p

(* Two sequences joined.                                                    *)
LEMMA JoinRange ==
  ASSUME NEW X, NEW s \in Seq(X), NEW t \in Seq(X)
  PROVE  (s \o t) \in Seq(X) /\ Range(s \o t) = Range(s) \union Range(t)
<1> DEFINE c == s \o t
           m == Len(s)
           l == Len(t)
<1>1. m \in Nat /\ DOMAIN s = 1..m /\ l \in Nat /\ DOMAIN t = 1..l
  OBVIOUS
<1>2. c \in Seq(X) /\ DOMAIN c = 1..(m + l)
  OBVIOUS
<1>3. \A i \in 1..(m + l) : c[i] = IF i <= m THEN s[i] ELSE t[i - m]
  OBVIOUS
<1> HIDE DEF c, m, l
<1>4. ASSUME NEW i \in 1..(m + l) PROVE c[i] \in Range(s) \union Range(t)
  <2>1. CASE i <= m
    BY <1>1, <1>3, <2>1 DEF Range
  <2>2. CASE ~ (i <= m)
    <3>1. i - m \in 1..l
      BY <1>1, <2>2
    <3> QED BY <1>1, <1>3, <2>2, <3>1 DEF Range
  <2> QED BY <2>1, <2>2
<1>5. ASSUME NEW i \in 1..m PROVE s[i] \in Range(c)
  <2>1. i \in 1..(m + l) /\ i <= m
    BY <1>1
  <2> QED BY <1>2, <1>3, <2>1 DEF Range
<1>6. ASSUME NEW i \in 1..l PROVE t[i] \in Range(c)
  <2>1. i + m \in 1..(m + l) /\ ~ (i + m <= m) /\ (i + m) - m = i
    BY <1>1
  <2> QED BY <1>2, <1>3, <2>1 DEF Range
<1>7. Range(c) = {c[i] : i \in 1..(m + l)} /\ Range(s) = {s[i] : i \in 1..m} /\ Range(t) = {t[i] : i \in 1..l}
  BY <1>1, <1>2 DEF Range
<1>8. Range(c) = Range(s) \union Range(t)
  BY <1>4, <1>5, <1>6, <1>7
<1> QED BY <1>2, <1>8 DEF c

(* The recursion behind FlattenSeq.                                         *)
Flattens(parts, f) ==
  \A n \in 1..Len(parts) : f[n] = IF n = 1 THEN parts[n] ELSE f[n - 1] \o parts[n]

LEMMA FlattenSteps ==
  ASSUME NEW X, NEW parts \in Seq(Seq(X)), Len(parts) # 0
  PROVE  \E f : FlattenSeq(parts) = f[Len(parts)] /\ Flattens(parts, f)
<1> DEFINE N == Len(parts)
           Is(f) == f = [i \in 1..N |-> IF i = 1 THEN parts[i] ELSE f[i - 1] \o parts[i]]
           f == CHOOSE f : Is(f)
<1>0. N \in Nat /\ DOMAIN parts = 1..N /\ \A k \in 1..N : parts[k] \in Seq(X)
  OBVIOUS
<1>a. N # 0
  OBVIOUS
<1>1. FlattenSeq(parts) = f[N]
  BY <1>a DEF FlattenSeq
<1>2. \E g : Is(g)
  <2> DEFINE h == [n \in 1..N |-> [x \in Seq(X) |-> IF n = 1 THEN parts[n] ELSE x \o parts[n]]]
             S == Seq(X)
  <2>1. h \in [1..N -> [S -> S]] /\ <<>> \in S
    BY <1>0
  <2>2. \A n \in 1..N : \A x \in S : h[n][x] = IF n = 1 THEN parts[n] ELSE x \o parts[n]
    OBVIOUS
  <2> HIDE DEF S, h, N
  <2>3. PICK g \in [0..N -> S] : g[0] = <<>> /\ \A n \in 1..N : g[n] = h[n][g[n - 1]]
    <3>1. IsStep(h, N, S)
      BY <2>1 DEF IsStep
    <3>2. \E g : Iterates(g, h, <<>>, N, S)
      BY <1>0, <2>1, <3>1, PrimitiveRecursion
    <3> QED BY <3>2 DEF Iterates
  <2>4. \A n \in 1..N : g[n] = IF n = 1 THEN parts[n] ELSE g[n - 1] \o parts[n]
    <3> SUFFICES ASSUME NEW n \in 1..N
                 PROVE  g[n] = IF n = 1 THEN parts[n] ELSE g[n - 1] \o parts[n]
      OBVIOUS
    <3>1. n - 1 \in 0..N
      BY <1>0
    <3> QED BY <2>2, <2>3, <3>1
  <2> DEFINE k == [n \in 1..N |-> g[n]]
  <2>5. \A n \in 1..N : n # 1 => n - 1 \in 1..N
    BY <1>0
  <2>6. \A n \in 1..N : k[n] = IF n = 1 THEN parts[n] ELSE k[n - 1] \o parts[n]
    BY <2>4, <2>5
  <2>7. k = [n \in 1..N |-> k[n]]
    OBVIOUS
  <2> HIDE DEF k
  <2>8. Is(k)
    BY <2>6, <2>7
  <2> QED BY <2>8
<1>3. Is(f)
  BY <1>2
<1> HIDE DEF f
<1>4. \A n \in 1..N : f[n] = IF n = 1 THEN parts[n] ELSE f[n - 1] \o parts[n]
  <2> HIDE DEF N
  <2> QED BY <1>3
<1> QED BY <1>1, <1>4 DEF Flattens

LEMMA FlattenBlocks ==
  ASSUME NEW X, NEW parts \in Seq(Seq(X)),
         \A k \in DOMAIN parts : IsInjective(parts[k]),
         \A k, l \in DOMAIN parts : k # l => Range(parts[k]) \cap Range(parts[l]) = {}
  PROVE  FlattenSeq(parts) \in Seq(X) /\ Blocks(parts, Len(parts), FlattenSeq(parts))
<1> DEFINE N == Len(parts)
<1>0. N \in Nat /\ DOMAIN parts = 1..N /\ \A k \in 1..N : parts[k] \in Seq(X)
  OBVIOUS
<1>1. Blocks(parts, 0, <<>>)
  BY DEF Blocks, IsInjective, Range
<1>2. CASE N = 0
  <2>1. parts = <<>>
    BY <1>2
  <2>2. FlattenSeq(parts) = <<>>
    BY <1>2, <2>1 DEF FlattenSeq
  <2> QED BY <1>1, <1>2, <2>2
<1>3. CASE N # 0
  <2>1. PICK f : FlattenSeq(parts) = f[N] /\ Flattens(parts, f)
    BY <1>3, FlattenSteps
  <2>4. \A n \in 1..N : f[n] = IF n = 1 THEN parts[n] ELSE f[n - 1] \o parts[n]
    BY <2>1 DEF Flattens
  <2> DEFINE G == {n \in Nat : n + 1 \in 1..N => f[n + 1] \in Seq(X) /\ Blocks(parts, n + 1, f[n + 1])}
  <2>5. 0 \in G
    <3> SUFFICES ASSUME 1 \in 1..N PROVE f[1] \in Seq(X) /\ Blocks(parts, 1, f[1])
      OBVIOUS
    <3>1. f[1] = parts[1] /\ parts[1] \in Seq(X) /\ IsInjective(parts[1])
      BY <1>0, <2>4
    <3> HIDE DEF N
    <3> QED BY <3>1 DEF Blocks
  <2>6. ASSUME NEW n \in Nat, n \in G PROVE n + 1 \in G
    <3> SUFFICES ASSUME n + 2 \in 1..N PROVE f[n + 2] \in Seq(X) /\ Blocks(parts, n + 2, f[n + 2])
      OBVIOUS
    <3> HIDE DEF N
    <3>1. n + 1 \in 1..N /\ n + 2 # 1 /\ (n + 2) - 1 = n + 1
      BY <1>0
    <3>2. f[n + 2] = f[n + 1] \o parts[n + 2]
      BY <2>4, <3>1
    <3>3. f[n + 1] \in Seq(X) /\ Blocks(parts, n + 1, f[n + 1])
      BY <2>6, <3>1
    <3>4. parts[n + 2] \in Seq(X) /\ IsInjective(parts[n + 2])
      BY <1>0
    <3>5. \A k \in 1..(n + 1) : k \in DOMAIN parts /\ k # n + 2
      BY <1>0
    <3> DEFINE m == n + 1
    <3>6. m \in Nat /\ m + 1 = n + 2
      OBVIOUS
    <3>7. \A k \in 1..m : Range(parts[k]) \cap Range(parts[m + 1]) = {}
      BY <1>0, <3>5, <3>6
    <3> HIDE DEF m
    <3>8. (f[m] \o parts[m + 1]) \in Seq(X) /\ Blocks(parts, m + 1, f[m] \o parts[m + 1])
      <4>1. f[m] \in Seq(X) /\ Blocks(parts, m, f[m])
        BY <3>3 DEF m
      <4>2. parts[m + 1] \in Seq(X) /\ IsInjective(parts[m + 1])
        BY <3>4, <3>6
      <4> QED BY <3>6, <3>7, <4>1, <4>2, AppendBlock
    <3> QED BY <3>2, <3>6, <3>8 DEF m
  <2>7. N - 1 \in G
    <3>1. Nat \subseteq G
      <4> HIDE DEF G
      <4> QED BY <2>5, <2>6, NatInduct
    <3>2. N - 1 \in Nat
      BY <1>0, <1>3
    <3> HIDE DEF G, N
    <3> QED BY <3>1, <3>2
  <2>8. N \in 1..N /\ (N - 1) + 1 = N
    BY <1>0, <1>3
  <2> QED BY <2>1, <2>7, <2>8
<1> QED BY <1>2, <1>3

(* A concatenation holds what its parts hold.                               *)
LEMMA FlattenRange ==
  ASSUME NEW X, NEW parts \in Seq(Seq(X))
  PROVE  /\ FlattenSeq(parts) \in Seq(X)
         /\ \A x : x \in Range(FlattenSeq(parts)) <=> \E k \in DOMAIN parts : x \in Range(parts[k])
<1> DEFINE N == Len(parts)
           Right(n, s) == /\ s \in Seq(X)
                          /\ \A x : x \in Range(s) <=> \E k \in 1..n : x \in Range(parts[k])
<1>0. N \in Nat /\ DOMAIN parts = 1..N /\ \A k \in 1..N : parts[k] \in Seq(X)
  OBVIOUS
<1>1. CASE N = 0
  <2>1. parts = <<>>
    BY <1>1
  <2>2. FlattenSeq(parts) = <<>>
    BY <1>1, <2>1 DEF FlattenSeq
  <2>3. Range(<<>>) = {}
    BY DEF Range
  <2> QED BY <1>0, <1>1, <2>2, <2>3
<1>2. CASE N # 0
  <2>1. PICK f : FlattenSeq(parts) = f[N] /\ Flattens(parts, f)
    BY <1>2, FlattenSteps
  <2>2. \A n \in 1..N : f[n] = IF n = 1 THEN parts[n] ELSE f[n - 1] \o parts[n]
    BY <2>1 DEF Flattens
  <2> DEFINE G == {n \in Nat : n + 1 \in 1..N => Right(n + 1, f[n + 1])}
  <2>3. 0 \in G
    <3> SUFFICES ASSUME 1 \in 1..N PROVE Right(1, f[1])
      OBVIOUS
    <3>1. f[1] = parts[1] /\ parts[1] \in Seq(X)
      BY <1>0, <2>2
    <3> HIDE DEF N
    <3> QED BY <3>1
  <2>4. ASSUME NEW n \in Nat, n \in G PROVE n + 1 \in G
    <3> SUFFICES ASSUME n + 2 \in 1..N PROVE Right(n + 2, f[n + 2])
      OBVIOUS
    <3> HIDE DEF N
    <3>1. n + 1 \in 1..N /\ n + 2 # 1 /\ (n + 2) - 1 = n + 1
      BY <1>0
    <3>2. f[n + 2] = f[n + 1] \o parts[n + 2]
      BY <2>2, <3>1
    <3>3. Right(n + 1, f[n + 1])
      BY <2>4, <3>1
    <3>4. f[n + 1] \in Seq(X) /\ parts[n + 2] \in Seq(X)
      BY <1>0, <3>3
    <3>5. f[n + 2] \in Seq(X) /\ Range(f[n + 2]) = Range(f[n + 1]) \union Range(parts[n + 2])
      BY <3>2, <3>4, JoinRange
    <3>6. \A k : k \in 1..(n + 2) <=> k \in 1..(n + 1) \/ k = n + 2
      OBVIOUS
    <3> QED BY <3>3, <3>5, <3>6
  <2>5. N - 1 \in G
    <3>1. Nat \subseteq G
      <4> HIDE DEF G
      <4> QED BY <2>3, <2>4, NatInduct
    <3>2. N - 1 \in Nat
      BY <1>0, <1>2
    <3> HIDE DEF G, N
    <3> QED BY <3>1, <3>2
  <2>6. N \in 1..N /\ (N - 1) + 1 = N
    BY <1>0, <1>2
  <2> QED BY <1>0, <2>1, <2>5, <2>6
<1> QED BY <1>1, <1>2
-----------------------------------------------------------------------------
(* Induction over sets that hold what is to be shown, and sums.             *)

LEMMA SubsetInduct ==
  ASSUME NEW D, IsFiniteSet(D), NEW G,
         \A s \in SUBSET D : (\A x \in s : s \ {x} \in G) => s \in G
  PROVE  SUBSET D \subseteq G
<1> SUFFICES ASSUME NEW s0 \in SUBSET D, s0 \notin G PROVE FALSE
  OBVIOUS
<1> DEFINE N == {n \in Nat : \E s \in SUBSET D : s \notin G /\ Cardinality(s) = n}
<1>1. \A s \in SUBSET D : IsFiniteSet(s) /\ Cardinality(s) \in Nat
  BY FS_Subset, FS_CardinalityType
<1>2. Cardinality(s0) \in N
  BY <1>1
<1>3. PICK n \in N : \A m \in N : n <= m
  BY <1>2, LeastNatural
<1>4. PICK s \in SUBSET D : s \notin G /\ Cardinality(s) = n
  BY <1>3
<1>5. ASSUME NEW x \in s PROVE s \ {x} \in G
  <2>1. Cardinality(s \ {x}) = n - 1 /\ s \ {x} \in SUBSET D
    BY <1>1, <1>4, FS_RemoveElement
  <2>2. n \in Nat /\ ~ (n <= n - 1)
    BY <1>3
  <2>3. n - 1 \notin N
    BY <1>3, <2>2
  <2>4. n - 1 \in Nat
    BY <1>1, <2>1
  <2> QED BY <2>1, <2>3, <2>4
<1> QED BY <1>4, <1>5

(* g adds up f over every set of arguments, in the order that CHOOSE takes. *)
Sums(f, D, g) ==
  g = [s \in SUBSET D |-> IF s = {} THEN 0
                          ELSE f[CHOOSE x \in s : TRUE] + g[s \ {CHOOSE x \in s : TRUE}]]

LEMMA SumFunctionIs ==
  ASSUME NEW f
  PROVE  SumFunction(f) = (CHOOSE g : Sums(f, DOMAIN f, g))[DOMAIN f]
BY DEF SumFunction, SumFunctionOnSet, FoldFunctionOnSet, MapThenFoldSet, Sums

LEMMA SumsExist ==
  ASSUME NEW D, IsFiniteSet(D), NEW f \in [D -> Nat]
  PROVE  \E g : Sums(f, D, g)
<1> DEFINE Small(n) == {s \in SUBSET D : Cardinality(s) <= n}
           first(s) == CHOOSE x \in s : TRUE
           Partial(n, g) == /\ g \in [Small(n) -> Nat]
                            /\ \A s \in Small(n) :
                                 g[s] = IF s = {} THEN 0 ELSE f[first(s)] + g[s \ {first(s)}]
           G == {n \in Nat : \E g : Partial(n, g)}
<1>1. \A s \in SUBSET D : IsFiniteSet(s) /\ Cardinality(s) \in Nat /\ Cardinality(s) <= Cardinality(D)
  BY FS_Subset, FS_CardinalityType
<1>2. ASSUME NEW s \in SUBSET D, s # {}
      PROVE  first(s) \in s /\ s \ {first(s)} \in SUBSET D /\ Cardinality(s \ {first(s)}) = Cardinality(s) - 1
  <2>1. first(s) \in s
    BY <1>2
  <2> HIDE DEF first
  <2> QED BY <1>1, <2>1, FS_RemoveElement
<1>3. 0 \in G
  <2>1. \A s \in Small(0) : s = {}
    BY <1>1, FS_EmptySet
  <2>2. Partial(0, [s \in Small(0) |-> 0])
    BY <2>1
  <2> QED BY <2>2
<1>4. ASSUME NEW n \in Nat, n \in G PROVE n + 1 \in G
  <2>1. PICK g : Partial(n, g)
    BY <1>4
  <2> DEFINE h == [s \in Small(n + 1) |-> IF s = {} THEN 0 ELSE f[first(s)] + g[s \ {first(s)}]]
  <2>2. ASSUME NEW s \in Small(n + 1), s # {}
        PROVE  first(s) \in D /\ s \ {first(s)} \in Small(n) /\ s \ {first(s)} \in Small(n + 1)
    <3>1. Cardinality(s) \in Nat /\ Cardinality(s) <= n + 1 /\ s \in SUBSET D
      BY <1>1
    <3>2. first(s) \in s /\ s \ {first(s)} \in SUBSET D /\ Cardinality(s \ {first(s)}) = Cardinality(s) - 1
      BY <1>2, <2>2, <3>1
    <3> HIDE DEF first
    <3> QED BY <1>1, <3>1, <3>2
  <2>3. \A s \in Small(n) : h[s] = g[s]
    <3>1. \A s \in Small(n) : s \in Small(n + 1)
      BY <1>1
    <3> HIDE DEF Small, first
    <3> QED BY <2>1, <3>1
  <2>4. h \in [Small(n + 1) -> Nat]
    <3>1. ASSUME NEW s \in Small(n + 1), s # {} PROVE f[first(s)] + g[s \ {first(s)}] \in Nat
      <4>1. first(s) \in D /\ s \ {first(s)} \in Small(n)
        BY <2>2, <3>1
      <4> HIDE DEF Small, first
      <4>2. f[first(s)] \in Nat /\ g[s \ {first(s)}] \in Nat
        BY <2>1, <4>1
      <4> QED BY <4>2
    <3> HIDE DEF Small, first
    <3> QED BY <3>1
  <2>5. \A s \in Small(n + 1) : h[s] = IF s = {} THEN 0 ELSE f[first(s)] + h[s \ {first(s)}]
    <3> SUFFICES ASSUME NEW s \in Small(n + 1)
                 PROVE  h[s] = IF s = {} THEN 0 ELSE f[first(s)] + h[s \ {first(s)}]
      OBVIOUS
    <3>1. h[s] = IF s = {} THEN 0 ELSE f[first(s)] + g[s \ {first(s)}]
      <4> HIDE DEF Small, first
      <4> QED OBVIOUS
    <3>2. s # {} => h[s \ {first(s)}] = g[s \ {first(s)}]
      <4> HIDE DEF Small, first, h
      <4> QED BY <2>2, <2>3
    <3> HIDE DEF Small, first, h
    <3> QED BY <3>1, <3>2
  <2>6. Partial(n + 1, h)
    <3> HIDE DEF h, Small, first
    <3> QED BY <2>4, <2>5
  <2> HIDE DEF Partial
  <2> QED BY <2>6
<1>5. Cardinality(D) \in G
  <2>1. Nat \subseteq G
    <3> HIDE DEF G
    <3> QED BY <1>3, <1>4, NatInduct
  <2> QED BY <2>1, FS_CardinalityType
<1>6. PICK g : Partial(Cardinality(D), g)
  BY <1>5
<1>7. Small(Cardinality(D)) = SUBSET D
  BY <1>1
<1>8. Sums(f, D, g)
  <2>1. /\ g \in [SUBSET D -> Nat]
        /\ \A s \in SUBSET D : g[s] = IF s = {} THEN 0 ELSE f[first(s)] + g[s \ {first(s)}]
    <3> HIDE DEF Small, first
    <3> QED BY <1>6, <1>7
  <2> QED BY <2>1 DEF Sums
<1> QED BY <1>8

(* The sum does not depend on the order.                                    *)
AddsUp(f, D, g) ==
  /\ g[{}] = 0
  /\ \A s \in SUBSET D : g[s] \in Nat /\ \A x \in s : g[s] = f[x] + g[s \ {x}]

LEMMA SumsFacts ==
  ASSUME NEW D, IsFiniteSet(D), NEW f \in [D -> Nat], NEW g, Sums(f, D, g)
  PROVE  AddsUp(f, D, g)
<1> DEFINE first(s) == CHOOSE x \in s : TRUE
           G == {s \in SUBSET D : g[s] \in Nat /\ \A x \in s : g[s] = f[x] + g[s \ {x}]}
<1>1. \A s \in SUBSET D : g[s] = IF s = {} THEN 0 ELSE f[first(s)] + g[s \ {first(s)}]
  <2>1. g = [s \in SUBSET D |-> IF s = {} THEN 0 ELSE f[first(s)] + g[s \ {first(s)}]]
    BY DEF Sums
  <2> HIDE DEF first
  <2> QED BY <2>1
<1>2. \A s \in SUBSET D : s # {} => first(s) \in s
  OBVIOUS
<1>3. \A s \in SUBSET D : g[s] \in Nat
  <2> DEFINE N == {s \in SUBSET D : g[s] \in Nat}
  <2>1. ASSUME NEW s \in SUBSET D, \A x \in s : s \ {x} \in N PROVE s \in N
    <3> HIDE DEF first
    <3>1. CASE s = {}
      BY <1>1, <3>1
    <3>2. CASE s # {}
      <4>1. f[first(s)] \in Nat /\ g[s \ {first(s)}] \in Nat
        BY <1>2, <2>1, <3>2
      <4> QED BY <1>1, <3>2, <4>1
    <3> QED BY <3>1, <3>2
  <2>2. SUBSET D \subseteq N
    <3> HIDE DEF N
    <3> QED BY <2>1, SubsetInduct
  <2> QED BY <2>2
<1>4. ASSUME NEW s \in SUBSET D, \A x \in s : s \ {x} \in G
      PROVE  s \in G
  <2> HIDE DEF first
  <2>1. CASE s = {}
    BY <1>3, <2>1
  <2>2. CASE s # {}
    <3> DEFINE c == first(s)
    <3>1. c \in s /\ s \ {c} \in G /\ g[s] = f[c] + g[s \ {c}]
      BY <1>1, <1>2, <1>4, <2>2
    <3> HIDE DEF c
    <3>2. ASSUME NEW x \in s, x # c PROVE g[s] = f[x] + g[s \ {x}]
      <4> DEFINE r == g[(s \ {x}) \ {c}]
      <4>1. g[s \ {c}] = f[x] + g[(s \ {c}) \ {x}]
        BY <3>1, <3>2
      <4>2. g[s \ {x}] = f[c] + r
        BY <1>4, <3>1, <3>2
      <4>3. (s \ {c}) \ {x} = (s \ {x}) \ {c}
        OBVIOUS
      <4>4. f[c] \in Nat /\ f[x] \in Nat /\ r \in Nat
        BY <1>3, <3>1
      <4>5. g[s \ {c}] = f[x] + r
        BY <4>1, <4>3
      <4> HIDE DEF r
      <4> QED BY <3>1, <4>2, <4>4, <4>5
    <3> QED BY <1>3, <3>1, <3>2
  <2> QED BY <2>1, <2>2
<1>5. SUBSET D \subseteq G
  <2> HIDE DEF G
  <2> QED BY <1>4, SubsetInduct
<1> QED BY <1>1, <1>5 DEF AddsUp

LEMMA SumsAgree ==
  ASSUME NEW D, IsFiniteSet(D), NEW f \in [D -> Nat], NEW h \in [D -> Nat],
         NEW g, Sums(f, D, g), NEW k, Sums(h, D, k)
  PROVE  \A s \in SUBSET D : (\A x \in s : f[x] = h[x]) => g[s] = k[s]
<1> DEFINE G == {s \in SUBSET D : (\A x \in s : f[x] = h[x]) => g[s] = k[s]}
<1>g. AddsUp(f, D, g)
  BY SumsFacts
<1>k. AddsUp(h, D, k)
  BY SumsFacts
<1>1. ASSUME NEW s \in SUBSET D, \A x \in s : s \ {x} \in G PROVE s \in G
  <2> SUFFICES ASSUME \A x \in s : f[x] = h[x] PROVE g[s] = k[s]
    OBVIOUS
  <2>1. CASE s = {}
    BY <1>g, <1>k, <2>1 DEF AddsUp
  <2>2. CASE s # {}
    <3>1. PICK x \in s : TRUE
      BY <2>2
    <3>2. g[s \ {x}] = k[s \ {x}] /\ f[x] = h[x]
      BY <1>1
    <3>3. g[s] = f[x] + g[s \ {x}] /\ k[s] = h[x] + k[s \ {x}]
      BY <1>g, <1>k DEF AddsUp
    <3> QED BY <3>2, <3>3
  <2> QED BY <2>1, <2>2
<1>2. SUBSET D \subseteq G
  <2> HIDE DEF G
  <2> QED BY <1>1, SubsetInduct
<1> QED BY <1>2

(* What the proofs need of SumFunction: the sum is a number, it is zero     *)
(* when all its terms are, and it drops by the term that is cancelled.      *)
LEMMA SumZero ==
  ASSUME NEW D, IsFiniteSet(D), NEW f \in [D -> Nat]
  PROVE  SumFunction(f) \in Nat /\ (SumFunction(f) = 0 <=> \A x \in D : f[x] = 0)
<1> DEFINE g == CHOOSE g : Sums(f, D, g)
           zero == [x \in D |-> 0]
<1>1. DOMAIN f = D
  OBVIOUS
<1>2. SumFunction(f) = g[D]
  BY <1>1, SumFunctionIs
<1>3. Sums(f, D, g)
  BY SumsExist
<1> HIDE DEF g
<1>a. AddsUp(f, D, g)
  BY <1>3, SumsFacts
<1>4. g[D] \in Nat /\ \A x \in D : g[D] = f[x] + g[D \ {x}] /\ g[D \ {x}] \in Nat
  BY <1>a DEF AddsUp
<1>5. \A x \in D : f[x] \in Nat
  OBVIOUS
<1>6. g[D] = 0 => \A x \in D : f[x] = 0
  <2> SUFFICES ASSUME g[D] = 0, NEW x \in D PROVE f[x] = 0
    OBVIOUS
  <2>1. f[x] \in Nat /\ g[D \ {x}] \in Nat /\ 0 = f[x] + g[D \ {x}]
    BY <1>4, <1>5
  <2> QED BY <2>1
<1>7. (\A x \in D : f[x] = 0) => g[D] = 0
  <2> SUFFICES ASSUME \A x \in D : f[x] = 0 PROVE g[D] = 0
    OBVIOUS
  <2> DEFINE N == {s \in SUBSET D : g[s] = 0}
  <2>1. ASSUME NEW s \in SUBSET D, \A x \in s : s \ {x} \in N PROVE s \in N
    <3>1. CASE s = {}
      BY <1>a, <3>1 DEF AddsUp
    <3>2. CASE s # {}
      <4>1. PICK x \in s : TRUE
        BY <3>2
      <4>2. g[s] = f[x] + g[s \ {x}]
        BY <1>a DEF AddsUp
      <4> QED BY <2>1, <4>2
    <3> QED BY <3>1, <3>2
  <2>2. SUBSET D \subseteq N
    <3> HIDE DEF N
    <3> QED BY <2>1, SubsetInduct
  <2> QED BY <2>2
<1> QED BY <1>2, <1>4, <1>6, <1>7

LEMMA SumWithout ==
  ASSUME NEW D, IsFiniteSet(D), NEW f \in [D -> Nat], NEW h \in [D -> Nat], NEW i \in D, h[i] = 0,
         \A x \in D : x # i => h[x] = f[x]
  PROVE  SumFunction(f) = f[i] + SumFunction(h)
<1> DEFINE g == CHOOSE g : Sums(f, D, g)
           k == CHOOSE k : Sums(h, D, k)
<1>1. DOMAIN f = D /\ DOMAIN h = D
  OBVIOUS
<1>2. SumFunction(f) = g[D] /\ SumFunction(h) = k[D]
  BY <1>1, SumFunctionIs
<1>3. Sums(f, D, g) /\ Sums(h, D, k)
  BY SumsExist
<1> HIDE DEF g, k
<1>4. g[D] = f[i] + g[D \ {i}] /\ k[D] = h[i] + k[D \ {i}] /\ k[D \ {i}] \in Nat
  <2>1. AddsUp(f, D, g)
    BY <1>3, SumsFacts
  <2>2. AddsUp(h, D, k)
    BY <1>3, SumsFacts
  <2> QED BY <2>1, <2>2 DEF AddsUp
<1>5. g[D \ {i}] = k[D \ {i}]
  BY <1>3, SumsAgree
<1> QED BY <1>2, <1>4, <1>5

(* A sum over 1..N is what adding one term after the other ends with.       *)
LEMMA RunningSum ==
  ASSUME NEW N \in Nat, NEW f \in [1..N -> Nat]
  PROVE  \E r : /\ r \in [0..N -> Nat] /\ r[0] = 0 /\ r[N] = SumFunction(f)
               /\ \A n \in 1..N : r[n] = r[n - 1] + f[n]
<1> DEFINE D == 1..N
           g == CHOOSE g : Sums(f, D, g)
           r == [n \in 0..N |-> g[1..n]]
<1>1. IsFiniteSet(D) /\ f \in [D -> Nat]
  <2>1. IsFiniteSet(1..N)
    BY FS_Interval
  <2> QED BY <2>1
<1>2. SumFunction(f) = g[D]
  BY SumFunctionIs
<1>3. Sums(f, D, g)
  BY <1>1, SumsExist
<1> HIDE DEF g
<1>4. g[{}] = 0 /\ \A s \in SUBSET D : g[s] \in Nat /\ \A x \in s : g[s] = f[x] + g[s \ {x}]
  <2> HIDE DEF D
  <2>1. AddsUp(f, D, g)
    BY <1>1, <1>3, SumsFacts
  <2> QED BY <2>1 DEF AddsUp
<1>5. \A n \in 0..N : 1..n \in SUBSET D
  OBVIOUS
<1>6. r \in [0..N -> Nat]
  BY <1>4, <1>5
<1>7. r[0] = 0
  <2>1. 1..0 = {}
    OBVIOUS
  <2> QED BY <1>4, <2>1
<1>8. ASSUME NEW n \in 1..N PROVE r[n] = r[n - 1] + f[n]
  <2>1. (1..n) \ {n} = 1..(n - 1) /\ n \in 1..n /\ n - 1 \in 0..N /\ n \in 0..N
    OBVIOUS
  <2>2. g[1..n] = f[n] + g[1..(n - 1)]
    <3> DEFINE s == 1..n
    <3>1. s \in SUBSET D /\ n \in s /\ s \ {n} = 1..(n - 1)
      BY <1>5, <2>1
    <3> HIDE DEF s, D
    <3>2. g[s] = f[n] + g[s \ {n}]
      BY <1>4, <3>1
    <3> QED BY <3>1, <3>2 DEF s
  <2>3. f[n] \in Nat /\ g[1..(n - 1)] \in Nat
    BY <1>4, <1>5, <2>1
  <2>4. g[1..n] = g[1..(n - 1)] + f[n]
    BY <2>2, <2>3
  <2> QED BY <2>1, <2>4
<1>9. r[N] = SumFunction(f)
  BY <1>2
<1> QED BY <1>6, <1>7, <1>8, <1>9
=============================================================================
