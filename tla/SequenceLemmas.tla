--------------------------- MODULE SequenceLemmas ---------------------------
(***************************************************************************)
(* What the proofs need of numbers and sequences beyond the library.       *)
(***************************************************************************)
EXTENDS Integers, Sequences, FiniteSetsExt, SequenceTheorems, WellFoundedInduction, TLAPS

\* The induction over numbers, by the first that fails.
LEMMA FirstNumber ==
  ASSUME NEW S, S \subseteq Nat, S # {}
  PROVE  \E j \in S : \A m \in S : ~(m < j)
<1>1. PICK j \in S : \A m \in S : ~(<<m, j>> \in OpToRel(<, Nat))
  BY NatLessThanWellFounded, WFMin
<1> QED
  BY <1>1 DEF OpToRel

LEMMA LeastElement ==
  ASSUME NEW T, T \subseteq Nat, T # {}
  PROVE  \E x \in T : \A y \in T : x <= y
<1>1. PICK x \in T : \A y \in T : ~(y < x)
  BY FirstNumber
<1>2. \A y \in T : x <= y
  BY <1>1
<1> QED
  BY <1>2

\* A set of numbers up to n has a greatest one.
LEMMA MaxOf ==
  ASSUME NEW n \in Nat, NEW S, S \subseteq 0 .. n, S # {}
  PROVE  Max(S) \in S /\ \A x \in S : x <= Max(S)
<1> DEFINE T == {n - x : x \in S}
<1>1. T \subseteq Nat /\ T # {}
  <2>1. \A x \in S : n - x \in Nat
    OBVIOUS
  <2> QED
    BY <2>1, Zenon
<1>2. PICK y \in T : \A z \in T : y <= z
  BY <1>1, LeastElement
<1>3. PICK m \in S : y = n - m
  BY <1>2
<1>4. \A x \in S : m >= x
  <2> TAKE x \in S
  <2>1. n - x \in T
    OBVIOUS
  <2>2. n - m <= n - x
    BY <2>1, <1>2, <1>3
  <2> QED
    BY <2>2
<1>5. Max(S) \in S /\ \A x \in S : Max(S) >= x
  BY <1>3, <1>4 DEF Max
<1> QED
  BY <1>5

LEMMA MaxIs ==
  ASSUME NEW S, S \subseteq Nat, NEW m \in S, \A x \in S : x <= m
  PROVE  Max(S) = m
<1>1. Max(S) \in S /\ \A x \in S : Max(S) >= x
  BY DEF Max
<1>2. Max(S) <= m /\ Max(S) >= m /\ Max(S) \in Nat /\ m \in Nat
  BY <1>1
<1> QED
  BY <1>2

---------------------------------------------------------------------------
(* Parts of a sequence *)

LEMMA OfTheSame ==
  ASSUME NEW A, NEW B, NEW a \in Seq(B), NEW b \in Seq(B), a \o b \in Seq(A)
  PROVE  a \in Seq(A) /\ b \in Seq(A)
<1>1. /\ Len(a) \in Nat /\ Len(b) \in Nat /\ Len(a \o b) = Len(a) + Len(b)
      /\ \A i \in 1 .. Len(a) + Len(b) : (a \o b)[i] = IF i <= Len(a) THEN a[i] ELSE b[i - Len(a)]
  BY ConcatProperties
<1>2. \A i \in 1 .. Len(a) + Len(b) : (a \o b)[i] \in A
  BY <1>1, ElementOfSeq
<1>3. \A i \in 1 .. Len(a) : a[i] \in A
  BY <1>1, <1>2
<1>4. ASSUME NEW i \in 1 .. Len(b) PROVE b[i] \in A
  <2>1. Len(a) + i \in 1 .. Len(a) + Len(b) /\ ~(Len(a) + i <= Len(a)) /\ Len(a) + i - Len(a) = i
    BY <1>1
  <2> QED
    BY <1>1, <1>2, <2>1
<1>5. a \in [1 .. Len(a) -> A] /\ b \in [1 .. Len(b) -> A]
  BY <1>3, <1>4, LenProperties
<1> QED
  BY <1>1, <1>5

\* What is taken from two sequences in a row is taken from the first, if it has any.
LEMMA FirstMoves ==
  ASSUME NEW A, NEW a \in Seq(A), NEW b \in Seq(A), a # <<>>
  PROVE  /\ a \o b \in Seq(A) /\ a \o b # <<>>
         /\ Head(a \o b) = Head(a) /\ Tail(a \o b) = Tail(a) \o b
<1>1. /\ a \o b \in Seq(A) /\ Len(a) \in Nat /\ Len(b) \in Nat /\ Len(a) > 0
      /\ Len(a \o b) = Len(a) + Len(b)
      /\ \A i \in 1 .. Len(a) + Len(b) : (a \o b)[i] = IF i <= Len(a) THEN a[i] ELSE b[i - Len(a)]
  BY ConcatProperties, EmptySeq, LenProperties
<1>2. a \o b # <<>>
  BY <1>1, EmptySeq
<1>3. Head(a \o b) = Head(a)
  BY <1>1, <1>2
<1>4. /\ Tail(a \o b) \in Seq(A) /\ Len(Tail(a \o b)) = Len(a) + Len(b) - 1
      /\ \A i \in 1 .. Len(a) + Len(b) - 1 : Tail(a \o b)[i] = (a \o b)[i + 1]
  BY <1>1, <1>2, HeadTailProperties
<1>5. /\ Tail(a) \in Seq(A) /\ Len(Tail(a)) = Len(a) - 1
      /\ \A i \in 1 .. Len(a) - 1 : Tail(a)[i] = a[i + 1]
  BY HeadTailProperties
<1>6. /\ Tail(a) \o b \in Seq(A) /\ Len(Tail(a) \o b) = Len(a) - 1 + Len(b)
      /\ \A i \in 1 .. Len(a) - 1 + Len(b) :
           (Tail(a) \o b)[i] = IF i <= Len(a) - 1 THEN Tail(a)[i] ELSE b[i - (Len(a) - 1)]
  BY <1>5, ConcatProperties
<1>7. ASSUME NEW i \in 1 .. Len(a) + Len(b) - 1
      PROVE  Tail(a \o b)[i] = (Tail(a) \o b)[i]
  <2>0. /\ i \in Int /\ i + 1 \in 1 .. Len(a) + Len(b) /\ i \in 1 .. Len(a) - 1 + Len(b)
        /\ i + 1 - Len(a) = i - (Len(a) - 1)
    BY <1>1
  <2>1. CASE i + 1 <= Len(a)
    <3>1. i <= Len(a) - 1 /\ i \in 1 .. Len(a) - 1
      BY <2>0, <2>1, <1>1
    <3> QED
      BY <1>1, <1>4, <1>5, <1>6, <2>0, <2>1, <3>1
  <2>2. CASE ~(i + 1 <= Len(a))
    <3>1. ~(i <= Len(a) - 1)
      BY <2>0, <2>2, <1>1
    <3> QED
      BY <1>1, <1>4, <1>6, <2>0, <2>2, <3>1
  <2> QED
    BY <2>1, <2>2
<1>8. Tail(a \o b) = Tail(a) \o b
  BY <1>1, <1>4, <1>6, <1>7, SeqEqual
<1> QED
  BY <1>1, <1>2, <1>3, <1>8

LEMMA HeadFirst ==
  ASSUME NEW A, NEW b \in Seq(A), b # <<>>
  PROVE  /\ Head(b) \in A /\ Tail(b) \in Seq(A) /\ b = <<Head(b)>> \o Tail(b)
         /\ <<Head(b)>> \in Seq(A)
<1>1. Len(b) \in Nat /\ Len(b) > 0
  BY EmptySeq, LenProperties
<1>2. SubSeq(b, 1, Len(b)) = <<b[1]>> \o SubSeq(b, 2, Len(b))
  <2>1. 1 \in 1 .. Len(b) /\ Len(b) \in 1 .. Len(b) /\ 1 + 1 = 2
    BY <1>1
  <2> QED
    BY <2>1, SubSeqRecursiveFirst
<1>3. SubSeq(b, 1, Len(b)) = b /\ Tail(b) = SubSeq(b, 2, Len(b)) /\ Head(b) = b[1]
  BY SubSeqFull, TailIsSubSeq
<1> QED
  BY <1>2, <1>3, HeadTailProperties

\* One item, and others behind it.
LEMMA OneFirst ==
  ASSUME NEW A, NEW x \in A, NEW b \in Seq(A)
  PROVE  /\ <<x>> \o b \in Seq(A) /\ <<x>> \o b # <<>>
         /\ Head(<<x>> \o b) = x /\ Tail(<<x>> \o b) = b
<1> DEFINE a == <<x>>
<1>1. a \in Seq(A) /\ a # <<>> /\ Head(a) = x /\ Tail(a) = <<>>
  OBVIOUS
<1> HIDE DEF a
<1>2. a \o b \in Seq(A) /\ a \o b # <<>> /\ Head(a \o b) = Head(a) /\ Tail(a \o b) = Tail(a) \o b
  BY <1>1, FirstMoves
<1>3. <<>> \o b = b
  BY ConcatEmptySeq
<1> QED
  BY <1>1, <1>2, <1>3 DEF a

\* What is put goes from the front of one sequence to the end of the one before it.
LEMMA PutMoves ==
  ASSUME NEW A, NEW a \in Seq(A), NEW b \in Seq(A), b # <<>>
  PROVE  /\ Append(a, Head(b)) \in Seq(A) /\ Tail(b) \in Seq(A)
         /\ Append(a, Head(b)) \o Tail(b) = a \o b
<1>1. Head(b) \in A /\ Tail(b) \in Seq(A) /\ b = <<Head(b)>> \o Tail(b) /\ <<Head(b)>> \in Seq(A)
  BY HeadFirst
<1>2. Append(a, Head(b)) = a \o <<Head(b)>> /\ Append(a, Head(b)) \in Seq(A)
  BY <1>1, AppendIsConcat, AppendProperties
<1> QED
  BY <1>1, <1>2, ConcatAssociative

\* Two ways to write a sequence that begin with as many characters begin with the same.
LEMMA SameStart ==
  ASSUME NEW A, NEW a \in Seq(A), NEW b \in Seq(A), NEW c \in Seq(A), NEW d \in Seq(A),
         a \o b = c \o d, Len(a) = Len(c)
  PROVE  a = c /\ b = d
<1>1. /\ Len(a) \in Nat /\ Len(b) \in Nat /\ Len(d) \in Nat
      /\ \A i \in 1 .. Len(a) + Len(b) : (a \o b)[i] = IF i <= Len(a) THEN a[i] ELSE b[i - Len(a)]
      /\ \A i \in 1 .. Len(c) + Len(d) : (c \o d)[i] = IF i <= Len(c) THEN c[i] ELSE d[i - Len(c)]
  BY ConcatProperties, LenProperties
<1>2. Len(b) = Len(d)
  BY <1>1, ConcatProperties
<1>3. \A i \in 1 .. Len(a) : a[i] = c[i]
  BY <1>1, <1>2
<1>4. a = c
  BY <1>3, SeqEqual
<1> QED
  BY <1>4, ConcatSimplifications

LEMMA SplitAt ==
  ASSUME NEW A, NEW s \in Seq(A), NEW k \in 0 .. Len(s)
  PROVE  /\ SubSeq(s, 1, k) \in Seq(A) /\ SubSeq(s, k + 1, Len(s)) \in Seq(A)
         /\ Len(SubSeq(s, 1, k)) = k
         /\ s = SubSeq(s, 1, k) \o SubSeq(s, k + 1, Len(s))
<1>1. Len(s) \in Nat /\ k \in Int /\ k + 1 \in Int
  BY LenProperties
<1>2. \A i \in 1 .. Len(s) : s[i] \in A
  BY ElementOfSeq
<1>3. SubSeq(s, 1, k) \in Seq(A) /\ Len(SubSeq(s, 1, k)) = k
  <2>1. \A i \in 1 .. k : s[i] \in A
    BY <1>1, <1>2
  <2> QED
    BY <1>1, <2>1, SubSeqProperties
<1>4. SubSeq(s, k + 1, Len(s)) \in Seq(A)
  <2>1. \A i \in k + 1 .. Len(s) : s[i] \in A
    BY <1>1, <1>2
  <2> QED
    BY <1>1, <2>1, SubSeqProperties
<1>5. SubSeq(s, 1, k) \o SubSeq(s, k + 1, Len(s)) = SubSeq(s, 1, Len(s))
  <2>1. 1 \in 1 .. Len(s) + 1 /\ k \in 1 - 1 .. Len(s) /\ Len(s) \in k .. Len(s)
    BY <1>1
  <2> QED
    BY <2>1, ConcatAdjacentSubSeq
<1> QED
  BY <1>3, <1>4, <1>5, SubSeqFull

\* The first of them replaced.
LEMMA FirstReplaced ==
  ASSUME NEW A, NEW s \in Seq(A), s # <<>>, NEW x \in A
  PROVE  LET r == [s EXCEPT ![1] = x]
         IN  /\ r \in Seq(A) /\ r # <<>> /\ Head(r) = x /\ Tail(r) = Tail(s) /\ Len(r) = Len(s)
             /\ \A i \in 1 .. Len(s) : i # 1 => r[i] = s[i]
<1> DEFINE r == [s EXCEPT ![1] = x]
<1>1. Len(s) \in Nat /\ Len(s) >= 1
  BY LenProperties, EmptySeq
<1>2. /\ r \in Seq(A) /\ Len(r) = Len(s) /\ r[1] = x
      /\ \A i \in 1 .. Len(s) : i # 1 => r[i] = s[i]
  BY <1>1
<1> HIDE DEF r
<1>3. r # <<>>
  BY <1>1, <1>2, EmptySeq
<1>4. /\ Tail(r) \in Seq(A) /\ Len(Tail(r)) = Len(s) - 1
      /\ \A i \in 1 .. Len(s) - 1 : Tail(r)[i] = r[i + 1]
      /\ Head(r) = r[1]
  BY <1>1, <1>2, <1>3, HeadTailProperties
<1>5. /\ Tail(s) \in Seq(A) /\ Len(Tail(s)) = Len(s) - 1
      /\ \A i \in 1 .. Len(s) - 1 : Tail(s)[i] = s[i + 1]
  BY HeadTailProperties
<1>6. \A i \in 1 .. Len(s) - 1 : Tail(r)[i] = Tail(s)[i]
  BY <1>1, <1>2, <1>4, <1>5
<1>7. Tail(r) = Tail(s)
  BY <1>1, <1>4, <1>5, <1>6, SeqEqual
<1> QED
  BY <1>2, <1>3, <1>4, <1>7 DEF r

---------------------------------------------------------------------------
(* Sequences end to end *)

\* What f is when it is the sequences of ss one after the other, i of them in f[i].
Grows(f, ss, n) == f = [i \in 0 .. n |-> IF i = 0 THEN <<>> ELSE f[i - 1] \o ss[i]]

All(ss) == LET f[i \in 0 .. Len(ss)] == IF i = 0 THEN <<>> ELSE f[i - 1] \o ss[i] IN f[Len(ss)]

LEMMA CanGrow ==
  ASSUME NEW ss
  PROVE  \A n \in Nat : \E f : Grows(f, ss, n)
<1> DEFINE Bad == {n \in Nat : ~ \E f : Grows(f, ss, n)}
<1> SUFFICES ASSUME Bad # {} PROVE FALSE
  OBVIOUS
<1>1. PICK n \in Bad : \A m \in Bad : ~(m < n)
  BY FirstNumber, Zenon
<1>2. CASE n = 0
  <2>1. Grows([k \in 0 .. 0 |-> <<>>], ss, 0)
    BY DEF Grows
  <2> QED
    BY <1>2, <2>1
<1>3. CASE n # 0
  <2>1. n \in Nat /\ n - 1 \in Nat /\ n - 1 \notin Bad
    BY <1>1, <1>3
  <2>2. PICK g : Grows(g, ss, n - 1)
    BY <2>1
  <2>3. \A k \in 0 .. n - 1 : g[k] = IF k = 0 THEN <<>> ELSE g[k - 1] \o ss[k]
    BY <2>2 DEF Grows
  <2> DEFINE f == [k \in 0 .. n |-> IF k = n THEN g[n - 1] \o ss[n] ELSE g[k]]
  <2>4. ASSUME NEW k \in 0 .. n
        PROVE  f[k] = IF k = 0 THEN <<>> ELSE f[k - 1] \o ss[k]
    <3>1. CASE k = n
      <4>1. n - 1 \in 0 .. n /\ n \in 0 .. n /\ n - 1 # n
        BY <2>1
      <4>2. f[n - 1] = g[n - 1] /\ f[n] = g[n - 1] \o ss[n]
        BY <4>1, Zenon
      <4> QED
        BY <1>3, <3>1, <4>2
    <3>2. CASE k # n
      <4>1. k \in 0 .. n - 1 /\ f[k] = g[k] /\ (k # 0 => f[k - 1] = g[k - 1])
        BY <2>1, <3>2
      <4> QED
        BY <2>3, <4>1
    <3> QED
      BY <3>1, <3>2
  <2>5. f = [k \in 0 .. n |-> f[k]]
    OBVIOUS
  <2> HIDE DEF f
  <2>6. [k \in 0 .. n |-> f[k]] = [k \in 0 .. n |-> IF k = 0 THEN <<>> ELSE f[k - 1] \o ss[k]]
    BY <2>4
  <2>7. Grows(f, ss, n)
    BY <2>5, <2>6 DEF Grows
  <2> QED
    BY <2>7
<1> QED
  BY <1>2, <1>3

LEMMA AllIs ==
  ASSUME NEW S, NEW ss \in Seq(Seq(S))
  PROVE  \E f : /\ f[0] = <<>> /\ \A i \in 1 .. Len(ss) : f[i] = f[i - 1] \o ss[i]
                /\ \A i \in 0 .. Len(ss) : f[i] \in Seq(S)
                /\ All(ss) = f[Len(ss)]
<1> DEFINE f == CHOOSE g : Grows(g, ss, Len(ss))
<1>0. Len(ss) \in Nat
  BY LenProperties
<1>1. All(ss) = f[Len(ss)]
  BY Zenon DEF All, Grows
<1>2. Grows(f, ss, Len(ss))
  BY <1>0, CanGrow
<1> HIDE DEF f
<1>3. \A k \in 0 .. Len(ss) : f[k] = IF k = 0 THEN <<>> ELSE f[k - 1] \o ss[k]
  BY <1>2 DEF Grows
<1>4. f[0] = <<>> /\ \A k \in 1 .. Len(ss) : f[k] = f[k - 1] \o ss[k]
  <2>1. 0 \in 0 .. Len(ss) /\ \A k \in 1 .. Len(ss) : k \in 0 .. Len(ss) /\ k # 0
    BY <1>0
  <2> QED
    BY <1>3, <2>1, Zenon
<1>5. \A k \in 0 .. Len(ss) : f[k] \in Seq(S)
  <2> DEFINE Bad == {k \in 0 .. Len(ss) : f[k] \notin Seq(S)}
  <2> SUFFICES ASSUME Bad # {} PROVE FALSE
    OBVIOUS
  <2>1. Bad \subseteq Nat
    BY <1>0
  <2>2. PICK k \in Bad : \A m \in Bad : ~(m < k)
    BY <2>1, FirstNumber, Zenon
  <2>3. k \in 0 .. Len(ss) /\ f[k] \notin Seq(S)
    BY <2>2
  <2>4. k # 0
    BY <1>4, <2>3, EmptySeq
  <2>5. k \in 1 .. Len(ss) /\ k - 1 \in 0 .. Len(ss) /\ k - 1 < k
    BY <1>0, <2>3, <2>4
  <2>6. f[k - 1] \in Seq(S) /\ ss[k] \in Seq(S)
    BY <2>2, <2>5, ElementOfSeq
  <2>7. f[k - 1] \o ss[k] \in Seq(S)
    BY <2>6, ConcatProperties
  <2> QED
    BY <1>4, <2>3, <2>5, <2>7
<1> QED
  BY <1>1, <1>4, <1>5

\* There is but one.
LEMMA AllUnique ==
  ASSUME NEW S, NEW ss \in Seq(Seq(S)), NEW g,
         g[0] = <<>>, \A i \in 1 .. Len(ss) : g[i] = g[i - 1] \o ss[i]
  PROVE  All(ss) = g[Len(ss)]
<1>0. Len(ss) \in Nat
  BY LenProperties
<1>1. PICK f : /\ f[0] = <<>> /\ \A i \in 1 .. Len(ss) : f[i] = f[i - 1] \o ss[i]
               /\ All(ss) = f[Len(ss)]
  BY AllIs, Zenon
<1>2. \A k \in 0 .. Len(ss) : f[k] = g[k]
  <2> DEFINE Bad == {k \in 0 .. Len(ss) : f[k] # g[k]}
  <2> SUFFICES ASSUME Bad # {} PROVE FALSE
    OBVIOUS
  <2>1. Bad \subseteq Nat
    BY <1>0
  <2>2. PICK k \in Bad : \A m \in Bad : ~(m < k)
    BY <2>1, FirstNumber, Zenon
  <2>3. k \in 0 .. Len(ss) /\ f[k] # g[k]
    BY <2>2
  <2>4. k # 0
    BY <1>1, <2>3
  <2>5. k \in 1 .. Len(ss) /\ k - 1 \in 0 .. Len(ss) /\ k - 1 < k
    BY <1>0, <2>3, <2>4
  <2>6. f[k - 1] = g[k - 1]
    BY <2>2, <2>5
  <2>7. f[k] = f[k - 1] \o ss[k] /\ g[k] = g[k - 1] \o ss[k]
    BY <1>1, <2>5
  <2> QED
    BY <2>3, <2>6, <2>7
<1> QED
  BY <1>0, <1>1, <1>2

LEMMA AllConcat ==
  ASSUME NEW S, NEW a \in Seq(Seq(S)), NEW b \in Seq(Seq(S))
  PROVE  /\ All(a) \in Seq(S) /\ All(b) \in Seq(S)
         /\ All(a \o b) = All(a) \o All(b)
<1>0. /\ Len(a) \in Nat /\ Len(b) \in Nat /\ a \o b \in Seq(Seq(S))
      /\ Len(a \o b) = Len(a) + Len(b)
      /\ \A i \in 1 .. Len(a) + Len(b) : (a \o b)[i] = IF i <= Len(a) THEN a[i] ELSE b[i - Len(a)]
  BY LenProperties, ConcatProperties
<1>1. PICK f : /\ f[0] = <<>> /\ \A i \in 1 .. Len(a) : f[i] = f[i - 1] \o a[i]
               /\ \A i \in 0 .. Len(a) : f[i] \in Seq(S)
               /\ All(a) = f[Len(a)]
  BY AllIs
<1>2. PICK h : /\ h[0] = <<>> /\ \A i \in 1 .. Len(b) : h[i] = h[i - 1] \o b[i]
               /\ \A i \in 0 .. Len(b) : h[i] \in Seq(S)
               /\ All(b) = h[Len(b)]
  BY AllIs
<1>3. All(a) \in Seq(S) /\ All(b) \in Seq(S)
  BY <1>0, <1>1, <1>2
<1> DEFINE g == [i \in 0 .. Len(a) + Len(b) |-> IF i <= Len(a) THEN f[i] ELSE f[Len(a)] \o h[i - Len(a)]]
<1>4. g[0] = <<>>
  BY <1>0, <1>1
<1>5. ASSUME NEW i \in 1 .. Len(a \o b)
      PROVE  g[i] = g[i - 1] \o (a \o b)[i]
  <2>0. i \in 1 .. Len(a) + Len(b) /\ i \in Nat /\ i - 1 \in Nat
    BY <1>0
  <2>1. CASE i <= Len(a)
    <3>1. g[i] = f[i] /\ g[i - 1] = f[i - 1] /\ (a \o b)[i] = a[i] /\ i \in 1 .. Len(a)
      BY <1>0, <2>0, <2>1
    <3> QED
      BY <1>1, <3>1
  <2>2. CASE ~(i <= Len(a))
    <3> DEFINE j == i - Len(a)
    <3>1. /\ j \in 1 .. Len(b) /\ j - 1 \in 0 .. Len(b) /\ i - 1 - Len(a) = j - 1
          /\ Len(a) \in 0 .. Len(a)
      BY <1>0, <2>0, <2>2
    <3>2. g[i] = f[Len(a)] \o h[j] /\ (a \o b)[i] = b[j]
      <4>1. g[i] = f[Len(a)] \o h[i - Len(a)]
        <5>1. i \in 0 .. Len(a) + Len(b)
          BY <1>0, <2>0
        <5> QED
          BY <2>2, <5>1, Zenon
      <4>2. (a \o b)[i] = b[i - Len(a)]
        BY <1>0, <2>0, <2>2
      <4> QED
        BY <4>1, <4>2
    <3>3. f[Len(a)] \in Seq(S) /\ h[j - 1] \in Seq(S) /\ b[j] \in Seq(S)
      BY <1>1, <1>2, <3>1, ElementOfSeq
    <3>4. g[i - 1] = f[Len(a)] \o h[j - 1]
      <4>1. CASE i - 1 <= Len(a)
        <5>1. i - 1 = Len(a) /\ j - 1 = 0
          BY <1>0, <2>0, <2>2, <4>1
        <5>2. g[i - 1] = f[Len(a)]
          BY <1>0, <2>0, <5>1
        <5>3. h[j - 1] = <<>>
          BY <1>2, <5>1
        <5> QED
          BY <3>3, <5>2, <5>3, ConcatEmptySeq
      <4>2. CASE ~(i - 1 <= Len(a))
        <5>1. i - 1 \in 0 .. Len(a) + Len(b)
          BY <1>0, <2>0
        <5> QED
          BY <3>1, <4>2, <5>1
      <4> QED
        BY <4>1, <4>2
    <3> HIDE DEF g, j
    <3>5. h[j] = h[j - 1] \o b[j]
      BY <1>2, <3>1
    <3>6. (f[Len(a)] \o h[j - 1]) \o b[j] = f[Len(a)] \o (h[j - 1] \o b[j])
      <4>1. \A x, y, z \in Seq(S) : (x \o y) \o z = x \o (y \o z)
        BY ConcatAssociative, SMTT(30)
      <4> QED
        BY <3>3, <4>1, Zenon
    <3> QED
      BY <3>2, <3>4, <3>5, <3>6
  <2> QED
    BY <2>1, <2>2
<1>6. g[Len(a) + Len(b)] = All(a) \o All(b)
  <2>1. CASE Len(b) = 0
    <3>1. g[Len(a) + Len(b)] = All(a) /\ All(b) = <<>>
      BY <1>0, <1>1, <1>2, <2>1
    <3> QED
      BY <1>3, <3>1, ConcatEmptySeq
  <2>2. CASE Len(b) # 0
    <3>1. ~(Len(a) + Len(b) <= Len(a)) /\ Len(a) + Len(b) \in 0 .. Len(a) + Len(b)
          /\ (Len(a) + Len(b)) - Len(a) = Len(b)
      BY <1>0, <2>2
    <3>2. g[Len(a) + Len(b)] = f[Len(a)] \o h[(Len(a) + Len(b)) - Len(a)]
      <4>1. \A i \in 0 .. Len(a) + Len(b) : ~(i <= Len(a)) => g[i] = f[Len(a)] \o h[i - Len(a)]
        BY Zenon
      <4> HIDE DEF g
      <4> QED
        BY <3>1, <4>1, Zenon
    <3>3. g[Len(a) + Len(b)] = f[Len(a)] \o h[Len(b)]
      BY <3>1, <3>2
    <3> QED
      BY <1>1, <1>2, <3>3
  <2> QED
    BY <2>1, <2>2
<1> HIDE DEF g
<1>7. All(a \o b) = g[Len(a \o b)]
  BY <1>0, <1>4, <1>5, AllUnique
<1> QED
  BY <1>0, <1>3, <1>6, <1>7

LEMMA AllOne ==
  ASSUME NEW S, NEW s \in Seq(S)
  PROVE  All(<<>>) = <<>> /\ <<s>> \in Seq(Seq(S)) /\ All(<<s>>) = s
<1>1. <<>> \in Seq(Seq(S)) /\ <<s>> \in Seq(Seq(S)) /\ Len(<<>>) = 0 /\ Len(<<s>>) = 1 /\ <<s>>[1] = s
  BY EmptySeq
<1> DEFINE g == [i \in 0 .. 1 |-> IF i = 0 THEN <<>> ELSE s]
<1>2. g[0] = <<>> /\ g[1] = s
  OBVIOUS
<1> HIDE DEF g
<1>3. g[1] = g[0] \o <<s>>[1]
  BY <1>1, <1>2, ConcatEmptySeq
<1>4. \A i \in 1 .. Len(<<s>>) : i = 1
  BY <1>1
<1>5. All(<<s>>) = g[Len(<<s>>)]
  <2>1. ASSUME NEW i \in 1 .. Len(<<s>>) PROVE g[i] = g[i - 1] \o <<s>>[i]
    <3>1. i = 1 /\ i - 1 = 0
      BY <1>4
    <3> QED
      BY <1>3, <3>1
  <2> QED
    BY <1>1, <1>2, <2>1, AllUnique
<1>6. All(<<>>) = g[Len(<<>>)]
  <2>1. \A i \in 1 .. Len(<<>>) : g[i] = g[i - 1] \o <<>>[i]
    BY <1>1
  <2> QED
    BY <1>1, <1>2, <2>1, AllUnique
<1> QED
  BY <1>1, <1>2, <1>5, <1>6

LEMMA AllAppend ==
  ASSUME NEW S, NEW ss \in Seq(Seq(S)), NEW s \in Seq(S)
  PROVE  All(ss) \in Seq(S) /\ All(Append(ss, s)) = All(ss) \o s
<1>1. Append(ss, s) = ss \o <<s>> /\ <<s>> \in Seq(Seq(S)) /\ All(<<s>>) = s
  BY AppendIsConcat, AllOne
<1> QED
  BY <1>1, AllConcat

LEMMA AllFirst ==
  ASSUME NEW S, NEW ss \in Seq(Seq(S)), ss # <<>>
  PROVE  /\ Head(ss) \in Seq(S) /\ All(Tail(ss)) \in Seq(S)
         /\ All(ss) = Head(ss) \o All(Tail(ss))
<1>1. /\ Head(ss) \in Seq(S) /\ Tail(ss) \in Seq(Seq(S)) /\ ss = <<Head(ss)>> \o Tail(ss)
      /\ <<Head(ss)>> \in Seq(Seq(S))
  BY HeadFirst
<1>2. All(<<Head(ss)>>) = Head(ss)
  BY <1>1, AllOne
<1> QED
  BY <1>1, <1>2, AllConcat

---------------------------------------------------------------------------
(* What each item of a sequence stands for, end to end *)

Lists(I, S) == [I -> Seq(S)]

Each(f, s) == All([k \in 1 .. Len(s) |-> f[s[k]]])

LEMMA EachListed ==
  ASSUME NEW I, NEW S, NEW f \in Lists(I, S), NEW s \in Seq(I)
  PROVE  /\ [k \in 1 .. Len(s) |-> f[s[k]]] \in Seq(Seq(S))
         /\ Len([k \in 1 .. Len(s) |-> f[s[k]]]) = Len(s)
<1>1. Len(s) \in Nat
  BY LenProperties
<1>2. \A k \in 1 .. Len(s) : f[s[k]] \in Seq(S)
  BY ElementOfSeq DEF Lists
<1> QED
  BY <1>1, <1>2

LEMMA EachConcat ==
  ASSUME NEW I, NEW S, NEW f \in Lists(I, S), NEW a \in Seq(I), NEW b \in Seq(I)
  PROVE  /\ Each(f, a) \in Seq(S) /\ Each(f, b) \in Seq(S)
         /\ Each(f, a \o b) = Each(f, a) \o Each(f, b)
<1> DEFINE la == [k \in 1 .. Len(a) |-> f[a[k]]]
           lb == [k \in 1 .. Len(b) |-> f[b[k]]]
           lc == [k \in 1 .. Len(a \o b) |-> f[(a \o b)[k]]]
<1>0. /\ Len(a) \in Nat /\ Len(b) \in Nat /\ a \o b \in Seq(I)
      /\ Len(a \o b) = Len(a) + Len(b)
      /\ \A i \in 1 .. Len(a) + Len(b) : (a \o b)[i] = IF i <= Len(a) THEN a[i] ELSE b[i - Len(a)]
  BY LenProperties, ConcatProperties
<1>1. /\ la \in Seq(Seq(S)) /\ lb \in Seq(Seq(S)) /\ lc \in Seq(Seq(S))
      /\ Len(la) = Len(a) /\ Len(lb) = Len(b) /\ Len(lc) = Len(a) + Len(b)
  BY <1>0, EachListed
<1>2. /\ \A k \in 1 .. Len(a) : la[k] = f[a[k]]
      /\ \A k \in 1 .. Len(b) : lb[k] = f[b[k]]
      /\ \A k \in 1 .. Len(a) + Len(b) : lc[k] = f[(a \o b)[k]]
  BY <1>0, Zenon
<1>3. Each(f, a) = All(la) /\ Each(f, b) = All(lb) /\ Each(f, a \o b) = All(lc)
  BY DEF Each
<1> HIDE DEF la, lb, lc
<1>4. /\ la \o lb \in Seq(Seq(S)) /\ Len(la \o lb) = Len(a) + Len(b)
      /\ \A k \in 1 .. Len(a) + Len(b) :
           (la \o lb)[k] = IF k <= Len(a) THEN la[k] ELSE lb[k - Len(a)]
  <2>1. /\ la \o lb \in Seq(Seq(S)) /\ Len(la \o lb) = Len(la) + Len(lb)
        /\ \A k \in 1 .. Len(la) + Len(lb) :
             (la \o lb)[k] = IF k <= Len(la) THEN la[k] ELSE lb[k - Len(la)]
    <3>1. la \in Seq(Seq(S)) /\ lb \in Seq(Seq(S))
      BY <1>1
    <3> QED
      BY <3>1, ConcatProperties, Zenon
  <2> QED
    BY <1>1, <2>1
<1>5. ASSUME NEW k \in 1 .. Len(a) + Len(b) PROVE lc[k] = (la \o lb)[k]
  <2>1. CASE k <= Len(a)
    <3>1. k \in 1 .. Len(a)
      BY <1>0, <2>1
    <3>2. (a \o b)[k] = a[k] /\ (la \o lb)[k] = la[k]
      BY <1>0, <1>4, <2>1
    <3>3. lc[k] = f[(a \o b)[k]] /\ la[k] = f[a[k]]
      BY <1>2, <3>1
    <3> QED
      BY <3>2, <3>3
  <2>2. CASE ~(k <= Len(a))
    <3>1. k - Len(a) \in 1 .. Len(b)
      BY <1>0, <2>2
    <3>2. (a \o b)[k] = b[k - Len(a)] /\ (la \o lb)[k] = lb[k - Len(a)]
      BY <1>0, <1>4, <2>2
    <3>3. lc[k] = f[(a \o b)[k]] /\ lb[k - Len(a)] = f[b[k - Len(a)]]
      BY <1>2, <3>1, Zenon
    <3> QED
      BY <3>2, <3>3
  <2> QED
    BY <2>1, <2>2
<1>6. lc = la \o lb
  BY <1>1, <1>4, <1>5, SeqEqual
<1>7. All(la) \in Seq(S) /\ All(lb) \in Seq(S) /\ All(la \o lb) = All(la) \o All(lb)
  BY <1>1, AllConcat
<1> QED
  BY <1>3, <1>6, <1>7

LEMMA EachOne ==
  ASSUME NEW I, NEW S, NEW f \in Lists(I, S)
  PROVE  Each(f, <<>>) = <<>> /\ \A x \in I : Each(f, <<x>>) = f[x]
<1>1. Each(f, <<>>) = <<>>
  <2>1. [k \in 1 .. Len(<<>>) |-> f[<<>>[k]]] = <<>>
    OBVIOUS
  <2>2. All(<<>>) = <<>>
    BY EmptySeq, AllOne
  <2>3. Each(f, <<>>) = All([k \in 1 .. Len(<<>>) |-> f[<<>>[k]]])
    BY Zenon DEF Each
  <2> QED
    BY <2>1, <2>2, <2>3
<1>2. ASSUME NEW x \in I PROVE Each(f, <<x>>) = f[x]
  <2>1. [k \in 1 .. Len(<<x>>) |-> f[<<x>>[k]]] = <<f[x]>>
    <3>1. Len(<<x>>) = 1 /\ <<x>>[1] = x
      OBVIOUS
    <3> QED
      BY <3>1
  <2>2. f[x] \in Seq(S)
    BY DEF Lists
  <2> QED
    BY <2>1, <2>2, AllOne DEF Each
<1> QED
  BY <1>1, <1>2

\* By the first of them.
LEMMA EachFirst ==
  ASSUME NEW I, NEW S, NEW f \in Lists(I, S), NEW s \in Seq(I), s # <<>>
  PROVE  /\ Each(f, s) \in Seq(S) /\ f[Head(s)] \in Seq(S) /\ Each(f, Tail(s)) \in Seq(S)
         /\ Each(f, s) = f[Head(s)] \o Each(f, Tail(s))
<1>1. /\ Head(s) \in I /\ Tail(s) \in Seq(I) /\ s = <<Head(s)>> \o Tail(s)
      /\ <<Head(s)>> \in Seq(I)
  BY HeadFirst
<1>2. Each(f, <<Head(s)>>) = f[Head(s)]
  BY <1>1, EachOne
<1>3. f[Head(s)] \in Seq(S)
  BY <1>1 DEF Lists
<1>4. /\ Each(f, Tail(s)) \in Seq(S)
      /\ Each(f, <<Head(s)>> \o Tail(s)) = Each(f, <<Head(s)>>) \o Each(f, Tail(s))
  <2>1. ASSUME NEW a \in Seq(I), NEW b \in Seq(I)
        PROVE  /\ Each(f, b) \in Seq(S)
               /\ Each(f, a \o b) = Each(f, a) \o Each(f, b)
    BY EachConcat
  <2> QED
    BY <1>1, <2>1, Zenon
<1>5. Each(f, s) \in Seq(S)
  BY EachConcat
<1> QED
  BY <1>1, <1>2, <1>3, <1>4, <1>5

\* Each of them stands for one.
LEMMA EachSingle ==
  ASSUME NEW I, NEW S, NEW f \in Lists(I, S), NEW s \in Seq(I), NEW t \in Seq(S), Len(t) = Len(s),
         \A k \in 1 .. Len(s) : f[s[k]] = <<t[k]>>
  PROVE  Each(f, s) = t
<1> DEFINE ss == [k \in 1 .. Len(s) |-> f[s[k]]]
           g == [k \in 0 .. Len(s) |-> SubSeq(t, 1, k)]
<1>0. Len(s) \in Nat
  BY LenProperties
<1>1. ss \in Seq(Seq(S)) /\ Len(ss) = Len(s) /\ \A k \in 1 .. Len(s) : ss[k] = <<t[k]>>
  BY EachListed
<1>2. \A k \in 0 .. Len(s) : g[k] = SubSeq(t, 1, k)
  OBVIOUS
<1> HIDE DEF ss, g
<1>3. g[0] = <<>>
  <2>1. 0 \in 0 .. Len(s)
    BY <1>0
  <2>2. SubSeq(t, 1, 0) = <<>>
    BY SubSeqEmpty
  <2> QED
    BY <1>2, <2>1, <2>2
<1>4. ASSUME NEW k \in 1 .. Len(ss) PROVE g[k] = g[k - 1] \o ss[k]
  <2>1. k \in 1 .. Len(s) /\ k \in 0 .. Len(s) /\ k - 1 \in 0 .. Len(s) /\ 1 \in 1 .. Len(t) /\ k \in 1 .. Len(t)
    BY <1>0, <1>1
  <2>2. SubSeq(t, 1, k) = SubSeq(t, 1, k - 1) \o <<t[k]>>
    BY <2>1, SubSeqRecursiveSecond
  <2> QED
    BY <1>1, <1>2, <2>1, <2>2, Zenon
<1>5. All(ss) = g[Len(ss)]
  BY <1>1, <1>3, <1>4, AllUnique
<1>6. g[Len(ss)] = t
  <2>1. Len(s) \in 0 .. Len(s)
    BY <1>0
  <2> QED
    BY <1>1, <1>2, <2>1, SubSeqFull
<1> QED
  BY <1>5, <1>6, Zenon DEF Each, ss

\* Items that stand for themselves.
Itself(I) == [x \in I |-> <<x>>]

LEMMA EachItself ==
  ASSUME NEW I, NEW t \in Seq(I)
  PROVE  Each(Itself(I), t) = t
<1> DEFINE f == Itself(I)
<1>1. f \in Lists(I, I)
  BY DEF Itself, Lists
<1>2. \A k \in 1 .. Len(t) : f[t[k]] = <<t[k]>>
  BY ElementOfSeq DEF Itself
<1> HIDE DEF f
<1>3. Each(f, t) = t
  BY <1>1, <1>2, EachSingle
<1> QED
  BY <1>3 DEF f

\* None of them stands for anything.
LEMMA EachNone ==
  ASSUME NEW I, NEW S, NEW f \in Lists(I, S), NEW s \in Seq(I), \A k \in 1 .. Len(s) : f[s[k]] = <<>>
  PROVE  Each(f, s) = <<>>
<1> DEFINE ss == [k \in 1 .. Len(s) |-> f[s[k]]]
           g == [k \in 0 .. Len(s) |-> <<>>]
<1>0. Len(s) \in Nat
  BY LenProperties
<1>1. ss \in Seq(Seq(S)) /\ Len(ss) = Len(s) /\ \A k \in 1 .. Len(s) : ss[k] = <<>>
  BY EachListed
<1>2. \A k \in 0 .. Len(s) : g[k] = <<>>
  OBVIOUS
<1> HIDE DEF ss, g
<1>3. g[0] = <<>>
  BY <1>0, <1>2
<1>4. ASSUME NEW k \in 1 .. Len(ss) PROVE g[k] = g[k - 1] \o ss[k]
  <2>1. k \in 1 .. Len(s) /\ k \in 0 .. Len(s) /\ k - 1 \in 0 .. Len(s)
    BY <1>0, <1>1
  <2>2. <<>> \o <<>> = <<>>
    BY EmptySeq, ConcatEmptySeq
  <2>3. g[k] = <<>> /\ g[k - 1] = <<>> /\ ss[k] = <<>>
    BY <1>1, <1>2, <2>1
  <2> QED
    BY <2>2, <2>3, Zenon
<1>5. All(ss) = g[Len(ss)]
  BY <1>1, <1>3, <1>4, AllUnique
<1>6. g[Len(ss)] = <<>>
  BY <1>0, <1>1, <1>2
<1> QED
  BY <1>5, <1>6, Zenon DEF Each, ss

LEMMA EachSplits ==
  ASSUME NEW I, NEW S, NEW f \in Lists(I, S)
  PROVE  /\ \A a, b \in Seq(I) : a \o b \in Seq(I) /\ Each(f, a \o b) = Each(f, a) \o Each(f, b)
         /\ \A a \in Seq(I) : Each(f, a) \in Seq(S)
<1>1. ASSUME NEW a \in Seq(I), NEW b \in Seq(I)
      PROVE  Each(f, a) \in Seq(S) /\ Each(f, a \o b) = Each(f, a) \o Each(f, b)
  BY EachConcat
<1>2. ASSUME NEW a \in Seq(I), NEW b \in Seq(I) PROVE a \o b \in Seq(I)
  BY ConcatProperties
<1> QED
  BY <1>1, <1>2

\* It does not matter on which side of another is one that stands for nothing.
LEMMA EachSwap ==
  ASSUME NEW I, NEW S, NEW f \in Lists(I, S), NEW u \in Seq(I), NEW v \in Seq(I),
         NEW x \in I, NEW y \in I, f[x] = <<>>
  PROVE  Each(f, u \o (<<x>> \o (<<y>> \o v))) = Each(f, u \o (<<y>> \o (<<x>> \o v)))
<1> DEFINE xs == <<x>>
           ys == <<y>>
           e == Each(f, v)
           h == Each(f, ys)
<1>1. xs \in Seq(I) /\ ys \in Seq(I) /\ Each(f, xs) = <<>>
  BY EachOne
<1> HIDE DEF xs, ys
<1>2. /\ \A a, b \in Seq(I) : a \o b \in Seq(I) /\ Each(f, a \o b) = Each(f, a) \o Each(f, b)
      /\ \A a \in Seq(I) : Each(f, a) \in Seq(S)
  BY EachSplits, Zenon
<1>3. /\ xs \o v \in Seq(I) /\ ys \o v \in Seq(I)
      /\ xs \o (ys \o v) \in Seq(I) /\ ys \o (xs \o v) \in Seq(I)
  BY <1>1, <1>2, Zenon
<1>4. /\ Each(f, u \o (xs \o (ys \o v))) = Each(f, u) \o (<<>> \o (h \o e))
      /\ Each(f, u \o (ys \o (xs \o v))) = Each(f, u) \o (h \o (<<>> \o e))
      /\ h \in Seq(S) /\ e \in Seq(S)
  <2>1. h \in Seq(S) /\ e \in Seq(S)
    BY <1>1, <1>2, Zenon
  <2>2. Each(f, ys \o v) = h \o e /\ Each(f, xs \o v) = <<>> \o e
    BY <1>1, <1>2, Zenon
  <2>3. /\ Each(f, xs \o (ys \o v)) = <<>> \o (h \o e)
        /\ Each(f, ys \o (xs \o v)) = h \o (<<>> \o e)
    <3>1. /\ Each(f, xs \o (ys \o v)) = Each(f, xs) \o Each(f, ys \o v)
          /\ Each(f, ys \o (xs \o v)) = Each(f, ys) \o Each(f, xs \o v)
      BY <1>1, <1>2, <1>3, Zenon
    <3> QED
      BY <1>1, <2>2, <3>1, Zenon
  <2>4. /\ Each(f, u \o (xs \o (ys \o v))) = Each(f, u) \o Each(f, xs \o (ys \o v))
        /\ Each(f, u \o (ys \o (xs \o v))) = Each(f, u) \o Each(f, ys \o (xs \o v))
    BY <1>2, <1>3, Zenon
  <2> QED
    BY <2>1, <2>3, <2>4, Zenon
<1> HIDE DEF e, h
<1>5. <<>> \o e = e
  BY <1>4, ConcatEmptySeq
<1>6. <<>> \o (h \o e) = h \o e
  <2>1. h \o e \in Seq(S)
    BY <1>4, ConcatProperties
  <2> QED
    BY <2>1, ConcatEmptySeq
<1> QED
  BY <1>4, <1>5, <1>6, Zenon DEF xs, ys

\* Nor whether it is there.
LEMMA EachSkip ==
  ASSUME NEW I, NEW S, NEW f \in Lists(I, S), NEW u \in Seq(I), NEW v \in Seq(I),
         NEW x \in I, f[x] = <<>>
  PROVE  Each(f, u \o (<<x>> \o v)) = Each(f, u \o v)
<1> DEFINE xs == <<x>>
           w == xs \o v
           e == Each(f, v)
<1>1. xs \in Seq(I) /\ Each(f, xs) = <<>>
  BY EachOne
<1> HIDE DEF xs
<1>2. /\ \A a, b \in Seq(I) : a \o b \in Seq(I) /\ Each(f, a \o b) = Each(f, a) \o Each(f, b)
      /\ \A a \in Seq(I) : Each(f, a) \in Seq(S)
  BY EachSplits, Zenon
<1>3. w \in Seq(I) /\ Each(f, w) = <<>> \o e /\ e \in Seq(S)
  BY <1>1, <1>2, ZenonT(60)
<1> HIDE DEF w
<1>4. Each(f, u \o w) = Each(f, u) \o Each(f, w) /\ Each(f, u \o v) = Each(f, u) \o e
  BY <1>2, <1>3, Zenon
<1> HIDE DEF e
<1>5. <<>> \o e = e
  BY <1>3, ConcatEmptySeq
<1> QED
  BY <1>3, <1>4, <1>5, Zenon DEF xs, w

\* Nor what is in front of it, if that stands for nothing.
LEMMA EachNext ==
  ASSUME NEW I, NEW S, NEW f \in Lists(I, S), NEW u \in Seq(I), NEW v \in Seq(I),
         NEW x \in I, Each(f, u) = <<>>
  PROVE  /\ Each(f, u \o (<<x>> \o v)) = f[x] \o Each(f, v)
         /\ Each(f, u \o v) = Each(f, v) /\ Each(f, v) \in Seq(S) /\ f[x] \in Seq(S)
<1> DEFINE xs == <<x>>
           w == xs \o v
           e == Each(f, v)
           h == f[x]
<1>1. xs \in Seq(I) /\ Each(f, xs) = h /\ h \in Seq(S)
  BY EachOne DEF Lists
<1> HIDE DEF xs, h
<1>2. /\ \A a, b \in Seq(I) : a \o b \in Seq(I) /\ Each(f, a \o b) = Each(f, a) \o Each(f, b)
      /\ \A a \in Seq(I) : Each(f, a) \in Seq(S)
  BY EachSplits, Zenon
<1>3. w \in Seq(I) /\ Each(f, w) = h \o e /\ e \in Seq(S)
  BY <1>1, <1>2, Zenon
<1> HIDE DEF w
<1>4. Each(f, u \o w) = <<>> \o Each(f, w) /\ Each(f, u \o v) = <<>> \o e
  BY <1>2, <1>3, Zenon
<1> HIDE DEF e
<1>5. <<>> \o e = e /\ h \o e \in Seq(S)
  BY <1>1, <1>3, ConcatEmptySeq, ConcatProperties
<1>6. <<>> \o (h \o e) = h \o e
  BY <1>5, ConcatEmptySeq
<1> QED
  BY <1>1, <1>3, <1>4, <1>5, <1>6, Zenon DEF xs, w, e, h

---------------------------------------------------------------------------
(* At one place of a sequence *)

LEMMA AtPlace ==
  ASSUME NEW A, NEW s \in Seq(A), NEW i \in 1 .. Len(s)
  PROVE  /\ SubSeq(s, 1, i - 1) \in Seq(A) /\ SubSeq(s, i + 1, Len(s)) \in Seq(A)
         /\ <<s[i]>> \in Seq(A) /\ s[i] \in A
         /\ s = SubSeq(s, 1, i - 1) \o (<<s[i]>> \o SubSeq(s, i + 1, Len(s)))
<1>1. Len(s) \in Nat /\ i - 1 \in 0 .. Len(s) /\ i \in 0 .. Len(s) /\ (i - 1) + 1 = i
      /\ Len(s) \in i .. Len(s)
  BY LenProperties
<1>2. /\ SubSeq(s, 1, i - 1) \in Seq(A) /\ SubSeq(s, i, Len(s)) \in Seq(A)
      /\ s = SubSeq(s, 1, i - 1) \o SubSeq(s, i, Len(s))
  BY <1>1, SplitAt
<1>3. SubSeq(s, i + 1, Len(s)) \in Seq(A)
  BY <1>1, SplitAt
<1>4. SubSeq(s, i, Len(s)) = <<s[i]>> \o SubSeq(s, i + 1, Len(s))
  BY <1>1, SubSeqRecursiveFirst
<1>5. s[i] \in A
  BY ElementOfSeq
<1>6. <<s[i]>> \in Seq(A)
  BY <1>5
<1>7. s = SubSeq(s, 1, i - 1) \o (<<s[i]>> \o SubSeq(s, i + 1, Len(s)))
  BY <1>2, <1>4, Zenon
<1> QED
  BY <1>2, <1>3, <1>5, <1>6, <1>7

LEMMA AnyPlace ==
  ASSUME NEW A, NEW s \in Seq(A), NEW t \in Seq(A), NEW i \in 1 .. Len(s)
  PROVE  /\ i \in 1 .. Len(s \o t) /\ (s \o t)[i] = s[i]
<1>1. Len(s) \in Nat /\ Len(t) \in Nat /\ Len(s \o t) = Len(s) + Len(t)
      /\ \A k \in 1 .. Len(s) + Len(t) : (s \o t)[k] = IF k <= Len(s) THEN s[k] ELSE t[k - Len(s)]
  BY LenProperties, ConcatProperties
<1> QED
  BY <1>1

---------------------------------------------------------------------------
(* What is left of a sequence *)

\* t is what is left of s behind its first k items.
After(M, s, k, t) == \E g \in Seq(M) : Len(g) = k /\ s = g \o t

LEMMA AfterNone ==
  ASSUME NEW M, NEW s \in Seq(M)
  PROVE  /\ After(M, s, 0, s)
         /\ \A t \in Seq(M) : After(M, s, 0, t) => s = t
<1>1. After(M, s, 0, s)
  <2>1. <<>> \in Seq(M) /\ Len(<<>>) = 0 /\ s = <<>> \o s
    BY EmptySeq, ConcatEmptySeq
  <2> QED
    BY <2>1, Zenon DEF After
<1>2. ASSUME NEW t \in Seq(M), After(M, s, 0, t) PROVE s = t
  <2>1. PICK g \in Seq(M) : Len(g) = 0 /\ s = g \o t
    BY <1>2 DEF After
  <2>2. g = <<>>
    BY <2>1, EmptySeq
  <2> QED
    BY <2>1, <2>2, ConcatEmptySeq
<1> QED
  BY <1>1, <1>2

LEMMA AfterPut ==
  ASSUME NEW M, NEW s \in Seq(M), NEW k, NEW t \in Seq(M), NEW u \in Seq(M), After(M, s, k, t)
  PROVE  After(M, s \o u, k, t \o u)
<1>1. PICK g \in Seq(M) : Len(g) = k /\ s = g \o t
  BY DEF After
<1>2. s \o u = g \o (t \o u)
  BY <1>1, ConcatAssociative
<1> QED
  BY <1>1, <1>2, Zenon DEF After

\* What is left begins in a, and the next item is one of a.
LEMMA AfterTake ==
  ASSUME NEW M, NEW a \in Seq(M), NEW b \in Seq(M), NEW k \in Nat, NEW t \in Seq(M),
         After(M, a \o b, k, t), k < Len(a)
  PROVE  /\ t # <<>> /\ Head(t) = a[k + 1] /\ Tail(t) \in Seq(M)
         /\ k + 1 = Len(a) => After(M, b, 0, Tail(t))
         /\ k + 1 # Len(a) => After(M, a \o b, k + 1, Tail(t))
<1>1. PICK g \in Seq(M) : Len(g) = k /\ a \o b = g \o t
  BY DEF After
<1>2. /\ Len(a) \in Nat /\ Len(b) \in Nat /\ Len(t) \in Nat
      /\ Len(a \o b) = Len(a) + Len(b) /\ Len(g \o t) = k + Len(t)
  BY <1>1, LenProperties, ConcatProperties
<1>3. t # <<>>
  <2>1. Len(t) > 0
    BY <1>1, <1>2
  <2> QED
    BY <2>1, EmptySeq
<1>4. /\ Head(t) \in M /\ Tail(t) \in Seq(M) /\ t = <<Head(t)>> \o Tail(t)
      /\ <<Head(t)>> \in Seq(M) /\ Append(g, Head(t)) \in Seq(M)
      /\ Append(g, Head(t)) \o Tail(t) = g \o t
  BY <1>3, HeadFirst, PutMoves, SMTT(30)
<1>5. Len(Append(g, Head(t))) = k + 1
  BY <1>1, <1>4, AppendProperties
<1>6. Head(t) = a[k + 1]
  <2>1. k + 1 \in 1 .. Len(a) + Len(b) /\ k + 1 \in 1 .. Len(g) + Len(t) /\ k + 1 <= Len(a)
        /\ ~(k + 1 <= Len(g)) /\ (k + 1) - Len(g) = 1
    BY <1>1, <1>2
  <2>2. (a \o b)[k + 1] = a[k + 1]
    BY <2>1, ConcatProperties
  <2>3. (g \o t)[k + 1] = t[1]
    <3>1. (g \o t)[k + 1] = t[(k + 1) - Len(g)]
      BY <2>1, ConcatProperties
    <3> QED
      BY <2>1, <3>1
  <2> QED
    BY <1>1, <1>3, <2>2, <2>3
<1>7. ASSUME k + 1 = Len(a) PROVE After(M, b, 0, Tail(t))
  <2>1. Append(g, Head(t)) \o Tail(t) = a \o b /\ Len(Append(g, Head(t))) = Len(a)
    BY <1>1, <1>4, <1>5, <1>7
  <2>2. Tail(t) = b
    BY <1>4, <2>1, SameStart
  <2> QED
    BY <2>2, AfterNone
<1>8. After(M, a \o b, k + 1, Tail(t))
  <2>1. a \o b = Append(g, Head(t)) \o Tail(t)
    BY <1>1, <1>4
  <2> QED
    BY <1>4, <1>5, <2>1, Zenon DEF After
<1> QED
  BY <1>3, <1>4, <1>6, <1>7, <1>8

=============================================================================
