---------------------------- MODULE AxiBfmProofs ----------------------------
(***************************************************************************)
(* The bursts of axi.py on their way between master and memory, for every  *)
(* width of the bus, length of a burst, size of a page and number of ids.  *)
(***************************************************************************)
EXTENDS AxiBfm, SequenceLemmas

---------------------------------------------------------------------------
(* Multiples *)

LEMMA Remainder ==
  ASSUME NEW x \in Nat, NEW d \in Nat, d > 0
  PROVE  /\ x \div d \in Nat /\ x % d \in 0 .. d - 1
         /\ x = d * (x \div d) + (x % d)
OBVIOUS

LEMMA Multiple ==
  ASSUME NEW x \in Nat, NEW d \in Nat, d > 0, x % d = 0
  PROVE  \E q \in Nat : x = d * q
<1>1. x \div d \in Nat /\ x = d * (x \div d)
  BY Remainder
<1> QED
  BY <1>1

LEMMA MultipleOfMultiple ==
  ASSUME NEW d \in Nat, NEW p \in Nat, NEW q \in Nat, NEW x \in Nat, NEW y \in Nat,
         y = d * p, x = y * q
  PROVE  x = d * (p * q)
<1>1. (d * p) * q = d * (p * q)
  OBVIOUS
<1> QED
  BY <1>1

\* Rounding up.
LEMMA CeilOfMultiple ==
  ASSUME NEW d \in Nat, d > 0, NEW m \in Nat
  PROVE  CeilDiv(d * m, d) = m
<1> DEFINE x == d * m + d - 1
           q == x \div d
<1>1. d * m \in Nat /\ x \in Nat
  OBVIOUS
<1>2. q \in Nat /\ x % d \in 0 .. d - 1 /\ x = d * q + (x % d)
  BY <1>1, Remainder
<1>3. CeilDiv(d * m, d) = q
  BY DEF CeilDiv
<1> HIDE DEF q
<1>4. d * q <= d * m + (d - 1) /\ d * m <= d * q
  BY <1>1, <1>2
<1>5. ~(q < m)
  <2> SUFFICES ASSUME q < m PROVE FALSE
    OBVIOUS
  <2>1. d * q < d * m
    BY <1>2
  <2> QED
    BY <1>1, <1>2, <1>4, <2>1
<1>6. ~(q > m)
  <2> SUFFICES ASSUME q >= m + 1 PROVE FALSE
    BY <1>2
  <2>1. d * q >= d * (m + 1) /\ d * (m + 1) = d * m + d /\ d * q \in Nat
    BY <1>2
  <2> QED
    BY <1>1, <1>4, <2>1
<1> QED
  BY <1>2, <1>3, <1>5, <1>6

LEMMA MinOfTwo ==
  ASSUME NEW x \in Int, NEW y \in Int
  PROVE  Min({x, y}) = IF x <= y THEN x ELSE y
<1>1. Min({x, y}) \in {x, y} /\ \A z \in {x, y} : Min({x, y}) <= z
  <2>1. \E w \in {x, y} : \A z \in {x, y} : w <= z
    OBVIOUS
  <2> QED
    BY <2>1 DEF Min
<1> QED
  BY <1>1

---------------------------------------------------------------------------
(* How a call is cut into bursts *)

LEMMA Sizes ==
  /\ BW \in Nat /\ BW > 0 /\ Page \in Nat /\ Page > 0 /\ MaxBurst \in Nat /\ MaxBurst > 0
  /\ NumIds \in Nat /\ NumIds > 0 /\ Size \in Nat /\ Size > 0
BY SizesAssumption

LEMMA CallIs ==
  ASSUME NEW c \in Calls
  PROVE  /\ c.addr \in Nat /\ c.len \in Nat /\ c.len > 0 /\ c.num_bytes \in Nat /\ c.num_bytes > 0
         /\ \E p \in Nat : Page = c.num_bytes * p
<1>1. /\ c.addr \in Nat /\ c.len \in Nat /\ c.len > 0 /\ c.num_bytes \in Nat /\ c.num_bytes > 0
      /\ BW % c.num_bytes = 0
  BY CallsAssumption
<1>2. PICK p \in Nat : BW = c.num_bytes * p
  BY <1>1, Sizes, Multiple
<1>3. PICK q \in Nat : Page = BW * q
  BY Sizes, SizesAssumption, Multiple
<1>4. Page = c.num_bytes * (p * q) /\ p * q \in Nat
  BY <1>1, <1>2, <1>3, Sizes, MultipleOfMultiple
<1> QED
  BY <1>1, <1>4

LEMMA CyclesIs ==
  ASSUME NEW c \in Calls
  PROVE  Cycles(c) \in Nat /\ Cycles(c) > 0
<1> DEFINE n == c.num_bytes
           x == c.len + n - 1 + (c.addr % n)
<1>1. c.addr \in Nat /\ c.len \in Nat /\ c.len > 0 /\ n \in Nat /\ n > 0
  BY CallIs
<1>2. c.addr % n \in Nat
  BY <1>1, Remainder
<1>3. x \in Nat /\ x >= n
  BY <1>1, <1>2
<1>4. Cycles(c) = x \div n
  BY DEF Cycles
<1> HIDE DEF n, x
<1>5. x \div n \in Nat /\ x % n \in 0 .. n - 1 /\ x = n * (x \div n) + (x % n)
  BY <1>1, <1>3, Remainder
<1>6. x \div n # 0
  BY <1>1, <1>3, <1>5
<1> QED
  BY <1>4, <1>5, <1>6

\* Where beat k of c is.
Here(c, k) == AlignedAddr(c) + k * c.num_bytes

LEMMA BurstLengthIs ==
  ASSUME NEW c \in Calls, NEW k \in Nat, k < Cycles(c)
  PROVE  /\ BurstLength(c, k) \in Nat /\ BurstLength(c, k) > 0
         /\ k + BurstLength(c, k) <= Cycles(c)
         /\ Here(c, k) \in Nat
         /\ Page - (Here(c, k) % Page) >= BurstLength(c, k) * c.num_bytes
<1> DEFINE n == c.num_bytes
           a == c.addr \div n
           m == a + k
           most == Min({Cycles(c) - k, MaxBurst})
           q == Here(c, k) \div Page
<1>1. c.addr \in Nat /\ n \in Nat /\ n > 0
  BY CallIs
<1>2. PICK p \in Nat : Page = n * p
  BY CallIs
<1>3. a \in Nat
  BY <1>1, Remainder
<1>4. Here(c, k) = a * n + k * n
  BY DEF Here, AlignedAddr
<1>5. Cycles(c) \in Nat /\ Cycles(c) - k \in Nat /\ Cycles(c) - k > 0
  BY CyclesIs
<1>6. most \in Nat /\ most > 0 /\ most <= Cycles(c) - k
  BY <1>5, Sizes, MinOfTwo
<1>7. BurstLength(c, k) = CeilDiv(Min({most * n, Page - (Here(c, k) % Page)}), n)
  BY DEF BurstLength, Here
<1> HIDE DEF most, a, n
<1>8. Here(c, k) = n * m /\ m \in Nat /\ n * m \in Nat
  BY <1>1, <1>3, <1>4
<1>9. Here(c, k) \in Nat
  BY <1>8
<1> HIDE DEF m
<1>10. q \in Nat /\ Here(c, k) % Page \in 0 .. Page - 1 /\ Here(c, k) = Page * q + (Here(c, k) % Page)
  BY <1>9, Sizes, Remainder
<1> HIDE DEF q
<1> DEFINE left == p - (m - p * q)
<1>11. Page - (Here(c, k) % Page) = n * left /\ left \in Int
  <2>1. Page * q = n * (p * q) /\ p * q \in Nat
    BY <1>1, <1>2, <1>10
  <2>2. Here(c, k) % Page = n * m - n * (p * q)
    BY <1>1, <1>8, <1>10, <2>1
  <2>3. Page - (n * m - n * (p * q)) = n * (p - (m - p * q))
    BY <1>1, <1>2, <1>8, <2>1
  <2> QED
    BY <1>8, <2>1, <2>2, <2>3
<1>12. left > 0
  <2>1. n * left > 0
    BY <1>10, <1>11, Sizes
  <2> HIDE DEF left
  <2>2. ~(left <= 0)
    <3> SUFFICES ASSUME left <= 0 PROVE FALSE
      OBVIOUS
    <3>1. n * left <= 0
      BY <1>1, <1>11
    <3> QED
      BY <1>1, <1>11, <2>1, <3>1
  <2> QED
    BY <1>11, <2>2
<1> HIDE DEF left
<1> DEFINE l == IF most <= left THEN most ELSE left
<1>13. l \in Nat /\ l > 0 /\ l <= most /\ l <= left
  BY <1>6, <1>11, <1>12
<1>14. Min({most * n, n * left}) = n * l
  <2>1. most * n \in Int /\ n * left \in Int
    BY <1>1, <1>6, <1>11
  <2>2. CASE most <= left
    <3>1. most * n <= n * left
      BY <1>1, <1>6, <1>11, <2>2
    <3> QED
      BY <1>1, <1>6, <2>1, <2>2, <3>1, MinOfTwo
  <2>3. CASE ~(most <= left)
    <3>1. left + 1 <= most /\ n * (left + 1) <= n * most /\ n * (left + 1) = n * left + n
      BY <1>1, <1>6, <1>11, <2>3
    <3>2. ~(most * n <= n * left)
      BY <1>1, <1>6, <2>1, <3>1
    <3> QED
      BY <2>1, <2>3, <3>2, MinOfTwo
  <2> QED
    BY <2>2, <2>3
<1> HIDE DEF l
<1>15. BurstLength(c, k) = l
  BY <1>1, <1>7, <1>11, <1>13, <1>14, CeilOfMultiple
<1>16. n * left >= l * n
  BY <1>1, <1>11, <1>13
<1> QED
  BY <1>5, <1>6, <1>9, <1>11, <1>13, <1>15, <1>16 DEF n

\* What a function is that cuts c from beat n on.
Cuts(f, c, n) ==
  f = [k \in n .. Cycles(c) |->
         IF k = Cycles(c) THEN <<>>
         ELSE <<[first |-> k, length |-> BurstLength(c, k)]>> \o f[k + BurstLength(c, k)]]

LEMMA CanCut ==
  ASSUME NEW c \in Calls
  PROVE  \E f : Cuts(f, c, 0)
<1> DEFINE C == Cycles(c)
           x(k) == [first |-> k, length |-> BurstLength(c, k)]
           Bad == {m \in 0 .. C : ~ \E f : Cuts(f, c, C - m)}
<1>0. C \in Nat
  BY CyclesIs
<1>1. ASSUME NEW k \in Nat, k < C
      PROVE  BurstLength(c, k) \in Nat /\ BurstLength(c, k) > 0 /\ k + BurstLength(c, k) <= C
  BY <1>1, BurstLengthIs
<1>2. ASSUME Bad # {} PROVE FALSE
  <2>0. Bad \subseteq Nat
    BY <1>0
  <2>1. PICK m \in Bad : \A j \in Bad : ~(j < m)
    BY <1>2, <2>0, FirstNumber, Zenon
  <2>2. m \in 0 .. C /\ ~ \E f : Cuts(f, c, C - m)
    BY <2>1
  <2>3. CASE m = 0
    <3>1. C - m = C /\ \A k \in C .. C : k = C
      BY <1>0, <2>3
    <3>2. Cuts([k \in C .. C |-> <<>>], c, C)
      BY <3>1 DEF Cuts
    <3> QED
      BY <2>2, <3>1, <3>2
  <2>4. CASE m # 0
    <3> DEFINE n == C - m
    <3>1. n \in Nat /\ n < C /\ m - 1 \in 0 .. C /\ m - 1 < m /\ C - (m - 1) = n + 1
      BY <1>0, <2>2, <2>4
    <3>2. PICK g : Cuts(g, c, n + 1)
      BY <2>1, <3>1
    <3> HIDE DEF n
    <3>3. \A k \in n + 1 .. C : g[k] = IF k = C THEN <<>> ELSE <<x(k)>> \o g[k + BurstLength(c, k)]
      BY <3>2 DEF Cuts
    <3> DEFINE f == [k \in n .. C |-> IF k = n THEN <<x(n)>> \o g[n + BurstLength(c, n)] ELSE g[k]]
    <3>4. \A k \in n .. C : f[k] = IF k = n THEN <<x(n)>> \o g[n + BurstLength(c, n)] ELSE g[k]
      BY Zenon
    <3>5. f = [k \in n .. C |-> f[k]]
      OBVIOUS
    <3> HIDE DEF f, x, C
    <3>6. \A k \in n + 1 .. C : k \in n .. C /\ k # n /\ f[k] = g[k]
      <4>1. \A k \in n + 1 .. C : k \in n .. C /\ k # n
        BY <1>0, <3>1
      <4> QED
        BY <3>4, <4>1, Zenon
    <3>7. ASSUME NEW k \in n .. C
          PROVE  f[k] = IF k = C THEN <<>> ELSE <<x(k)>> \o f[k + BurstLength(c, k)]
      <4>1. CASE k = C
        <5>1. k \in n + 1 .. C
          BY <1>0, <3>1, <4>1
        <5> QED
          BY <3>3, <3>6, <4>1, <5>1
      <4>2. CASE k # C
        <5>1. k + BurstLength(c, k) \in n + 1 .. C
          BY <1>0, <1>1, <3>1, <4>2
        <5>2. f[k + BurstLength(c, k)] = g[k + BurstLength(c, k)]
          BY <3>6, <5>1, Zenon
        <5>3. CASE k = n
          <6>1. n \in n .. C
            BY <5>3
          <6>2. f[n] = <<x(n)>> \o g[n + BurstLength(c, n)]
            BY <3>4, <6>1, Zenon
          <6> QED
            BY <4>2, <5>2, <5>3, <6>2, Zenon
        <5>4. CASE k # n
          <6>1. k \in n + 1 .. C
            BY <1>0, <3>1, <5>4
          <6>2. f[k] = g[k] /\ g[k] = <<x(k)>> \o g[k + BurstLength(c, k)]
            BY <3>3, <3>6, <4>2, <6>1, Zenon
          <6> QED
            BY <4>2, <5>2, <6>2, Zenon
        <5> QED
          BY <5>3, <5>4
      <4> QED
        BY <4>1, <4>2
    <3>8. [k \in n .. C |-> f[k]]
            = [k \in n .. C |-> IF k = C THEN <<>> ELSE <<x(k)>> \o f[k + BurstLength(c, k)]]
      BY <3>7, Zenon
    <3>9. Cuts(f, c, n)
      BY <3>5, <3>8, Zenon DEF Cuts, C, x
    <3> QED
      BY <2>2, <3>9 DEF n
  <2> QED
    BY <2>3, <2>4
<1>3. C \in 0 .. C /\ C - C = 0
  BY <1>0
<1>4. C \notin Bad
  BY <1>2
<1> QED
  BY <1>3, <1>4

LEMMA BurstsFrom ==
  ASSUME NEW c \in Calls
  PROVE  \E f : /\ Bursts(c) = f[0]
                /\ \A k \in 0 .. Cycles(c) :
                     f[k] = IF k = Cycles(c) THEN <<>>
                            ELSE <<[first |-> k, length |-> BurstLength(c, k)]>> \o f[k + BurstLength(c, k)]
<1> DEFINE f == CHOOSE g : Cuts(g, c, 0)
<1>1. Bursts(c) = f[0]
  BY Zenon DEF Bursts, Cuts
<1>2. Cuts(f, c, 0)
  BY CanCut
<1> HIDE DEF f
<1>3. \A k \in 0 .. Cycles(c) :
        f[k] = IF k = Cycles(c) THEN <<>>
               ELSE <<[first |-> k, length |-> BurstLength(c, k)]>> \o f[k + BurstLength(c, k)]
  BY <1>2 DEF Cuts
<1> QED
  BY <1>1, <1>3

\* The marks of a burst's beats, 1 for the last.
Bit     == {0, 1}
Ends(b) == [n \in 1 .. b.length |-> IF n = b.length THEN 1 ELSE 0]
EndsOf(I) == [b \in I |-> Ends(b)]

LEMMA EndsAre ==
  ASSUME NEW b, b.length \in Nat
  PROVE  /\ Ends(b) \in Seq(Bit) /\ Len(Ends(b)) = b.length
         /\ \A n \in 1 .. b.length : Ends(b)[n] = IF n = b.length THEN 1 ELSE 0
BY DEF Ends, Bit

Piece(c) == {b \in [first : Nat, length : Nat] : b.first < Cycles(c) /\ b.length = BurstLength(c, b.first)}

\* The words of the beats: beat k is in the one that begins at Word(c, k).
Word(c, k)     == (Here(c, k) \div BW) * BW
Words(c)       == [k \in Nat |-> Word(c, k)]
Slice(w, k, m) == [t \in 1 .. m |-> w[k + t - 1]]
WordsOf(c)     == [b \in Piece(c) |-> Slice(Words(c), b.first, b.length)]

LEMMA AlignedIs ==
  ASSUME NEW c \in Calls
  PROVE  AlignedAddr(c) \in Nat
<1>1. c.addr \in Nat /\ c.num_bytes \in Nat /\ c.num_bytes > 0
  BY CallIs
<1>2. c.addr \div c.num_bytes \in Nat
  BY <1>1, Remainder
<1> QED
  BY <1>1, <1>2 DEF AlignedAddr

LEMMA WordsAre ==
  ASSUME NEW c \in Calls
  PROVE  Words(c) \in [Nat -> Nat] /\ \A k \in Nat : Words(c)[k] = Word(c, k)
<1>1. c.addr \in Nat /\ c.num_bytes \in Nat /\ c.num_bytes > 0 /\ BW \in Nat /\ BW > 0
  BY CallIs, Sizes
<1>2. c.addr \div c.num_bytes \in Nat
  BY <1>1, Remainder
<1>3. ASSUME NEW k \in Nat PROVE Word(c, k) \in Nat
  <2> DEFINE q == c.addr \div c.num_bytes
             h == q * c.num_bytes + k * c.num_bytes
  <2>1. q * c.num_bytes \in Nat /\ k * c.num_bytes \in Nat
    BY <1>1, <1>2
  <2>2. h \in Nat /\ Here(c, k) = h
    BY <2>1 DEF Here, AlignedAddr
  <2> HIDE DEF h
  <2>3. h \div BW \in Nat
    BY <1>1, <2>2, Remainder
  <2> QED
    BY <1>1, <2>2, <2>3 DEF Word
<1> QED
  BY <1>3 DEF Words

LEMMA Slices ==
  ASSUME NEW w \in [Nat -> Nat], NEW k \in Nat, NEW m \in Nat, NEW n \in Nat
  PROVE  /\ Slice(w, k, m) \in Seq(Nat) /\ Len(Slice(w, k, m)) = m
         /\ Slice(w, k, m) \o Slice(w, k + m, n) = Slice(w, k, m + n)
<1> DEFINE a == Slice(w, k, m)
           b == Slice(w, k + m, n)
           d == Slice(w, k, m + n)
<1>1. ASSUME NEW i \in Nat, NEW l \in Nat
      PROVE  /\ Slice(w, i, l) \in Seq(Nat) /\ Len(Slice(w, i, l)) = l
             /\ \A t \in 1 .. l : Slice(w, i, l)[t] = w[i + t - 1]
  <2>1. \A t \in 1 .. l : w[i + t - 1] \in Nat
    OBVIOUS
  <2> QED
    BY <2>1 DEF Slice
<1>2. /\ a \in Seq(Nat) /\ Len(a) = m /\ \A t \in 1 .. m : a[t] = w[k + t - 1]
      /\ b \in Seq(Nat) /\ Len(b) = n /\ \A t \in 1 .. n : b[t] = w[(k + m) + t - 1]
      /\ d \in Seq(Nat) /\ Len(d) = m + n /\ \A t \in 1 .. m + n : d[t] = w[k + t - 1]
  <2>1. k + m \in Nat /\ m + n \in Nat
    OBVIOUS
  <2>2. a \in Seq(Nat) /\ Len(a) = m /\ \A t \in 1 .. m : a[t] = w[k + t - 1]
    BY <1>1, Zenon
  <2>3. b \in Seq(Nat) /\ Len(b) = n /\ \A t \in 1 .. n : b[t] = w[(k + m) + t - 1]
    BY <1>1, <2>1, Zenon
  <2>4. d \in Seq(Nat) /\ Len(d) = m + n /\ \A t \in 1 .. m + n : d[t] = w[k + t - 1]
    BY <1>1, <2>1, Zenon
  <2> QED
    BY <2>2, <2>3, <2>4, Zenon
<1> HIDE DEF a, b, d
<1>3. /\ a \o b \in Seq(Nat) /\ Len(a \o b) = m + n
      /\ \A t \in 1 .. m + n : (a \o b)[t] = IF t <= m THEN a[t] ELSE b[t - m]
  BY <1>2, ConcatProperties
<1>4. ASSUME NEW t \in 1 .. m + n PROVE (a \o b)[t] = d[t]
  <2>1. CASE t <= m
    BY <1>2, <1>3, <2>1
  <2>2. CASE ~(t <= m)
    <3>1. t - m \in 1 .. n /\ (k + m) + (t - m) - 1 = k + t - 1
      BY <2>2
    <3>2. b[t - m] = w[(k + m) + (t - m) - 1] /\ d[t] = w[k + t - 1]
      BY <1>2, <3>1
    <3>3. (a \o b)[t] = b[t - m]
      BY <1>3, <2>2
    <3> QED
      BY <3>1, <3>2, <3>3
  <2> QED
    BY <2>1, <2>2
<1>5. a \o b = d
  <2> DEFINE e == a \o b
  <2>1. e \in Seq(Nat) /\ Len(e) = Len(d) /\ \A t \in 1 .. Len(e) : e[t] = d[t]
    BY <1>2, <1>3, <1>4
  <2> HIDE DEF e
  <2>2. e = d
    BY <1>2, <2>1, SeqEqual
  <2> QED
    BY <2>2 DEF e
<1> QED
  BY <1>2, <1>5 DEF a, b, d

\* The marks of the beats of c from beat k on, cut into L.
Marked(c, k, L) ==
  [t \in 1 .. Cycles(c) - k |->
     IF \E i \in 1 .. Len(L) : t + k = L[i].first + L[i].length THEN 1 ELSE 0]

IsCut(c, k, L) ==
  /\ L \in Seq(Piece(c))
  /\ k < Cycles(c) => L # <<>>
  /\ \A i \in 1 .. Len(L) : L[i].first >= k
  /\ Each(EndsOf(Piece(c)), L) = Marked(c, k, L)
  /\ Each(WordsOf(c), L) = Slice(Words(c), k, Cycles(c) - k)

LEMMA PieceIs ==
  ASSUME NEW c \in Calls, NEW b \in Piece(c)
  PROVE  /\ b.first \in Nat /\ b.first < Cycles(c) /\ b.length \in Nat /\ b.length > 0
         /\ b.first + b.length <= Cycles(c) /\ b.length = BurstLength(c, b.first)
<1>1. b.first \in Nat /\ b.first < Cycles(c) /\ b.length = BurstLength(c, b.first)
  BY DEF Piece
<1> QED
  BY <1>1, BurstLengthIs

LEMMA EndsOfPieces ==
  ASSUME NEW c \in Calls
  PROVE  EndsOf(Piece(c)) \in Lists(Piece(c), Bit)
<1>1. \A b \in Piece(c) : Ends(b) \in Seq(Bit)
  BY PieceIs, EndsAre
<1> QED
  BY <1>1 DEF EndsOf, Lists

LEMMA WordsOfPieces ==
  ASSUME NEW c \in Calls
  PROVE  WordsOf(c) \in Lists(Piece(c), Nat)
<1> DEFINE w == Words(c)
<1>1. w \in [Nat -> Nat]
  BY WordsAre
<1> HIDE DEF w
<1>2. \A b \in Piece(c) : Slice(w, b.first, b.length) \in Seq(Nat)
  BY <1>1, PieceIs, Slices
<1> QED
  BY <1>2 DEF WordsOf, Lists, w

LEMMA CutMore ==
  ASSUME NEW c \in Calls, NEW k \in Nat, k < Cycles(c), NEW L,
         IsCut(c, k + BurstLength(c, k), L)
  PROVE  IsCut(c, k, <<[first |-> k, length |-> BurstLength(c, k)]>> \o L)
<1> DEFINE C == Cycles(c)
           l == BurstLength(c, k)
           x == [first |-> k, length |-> l]
           K == <<x>> \o L
           P == Piece(c)
           f == EndsOf(P)
<1>0. C \in Nat
  BY CyclesIs
<1>1. l \in Nat /\ l > 0 /\ k + l <= C
  BY BurstLengthIs
<1>2. /\ L \in Seq(P) /\ \A i \in 1 .. Len(L) : L[i].first >= k + l
      /\ Each(f, L) = Marked(c, k + l, L)
  BY DEF IsCut
<1>3. x \in P /\ x.first = k /\ x.length = l
  BY <1>1 DEF Piece
<1>4. f \in Lists(P, Bit) /\ f[x] = Ends(x)
  BY <1>3, EndsOfPieces DEF EndsOf
<1>5. Ends(x) \in Seq(Bit) /\ Len(Ends(x)) = l
      /\ \A n \in 1 .. l : Ends(x)[n] = IF n = l THEN 1 ELSE 0
  BY <1>1, <1>3, EndsAre
<1> HIDE DEF C, l, x, P, f
<1>6. <<x>> \in Seq(P) /\ Len(<<x>>) = 1 /\ <<x>>[1] = x
  BY <1>3
<1>7. /\ K \in Seq(P) /\ Len(K) = 1 + Len(L) /\ Len(L) \in Nat /\ K[1] = x
      /\ \A i \in 2 .. 1 + Len(L) : K[i] = L[i - 1]
  <2>1. /\ K \in Seq(P) /\ Len(K) = Len(<<x>>) + Len(L) /\ Len(L) \in Nat
        /\ \A i \in 1 .. Len(<<x>>) + Len(L) : K[i] = IF i <= Len(<<x>>) THEN <<x>>[i] ELSE L[i - Len(<<x>>)]
    BY <1>2, <1>6, ConcatProperties, LenProperties
  <2>2. \A i \in 1 .. 1 + Len(L) : K[i] = IF i <= 1 THEN x ELSE L[i - 1]
    <3>1. \A i \in 1 .. 1 + Len(L) : i <= 1 => i = 1
      BY <2>1
    <3> HIDE DEF K
    <3> QED
      BY <1>6, <2>1, <3>1
  <2> HIDE DEF K
  <2> QED
    BY <1>6, <2>1, <2>2
<1>8. Each(f, K) = Ends(x) \o Each(f, L) /\ Each(f, L) \in Seq(Bit)
  <2>1. Each(f, <<x>>) = f[x]
    BY <1>3, <1>4, EachOne
  <2>2. /\ Each(f, L) \in Seq(Bit)
        /\ Each(f, <<x>> \o L) = Each(f, <<x>>) \o Each(f, L)
    <3> DEFINE u == <<x>>
    <3>1. u \in Seq(P) /\ L \in Seq(P) /\ f \in Lists(P, Bit)
      BY <1>2, <1>4, <1>6
    <3> HIDE DEF u
    <3>2. Each(f, L) \in Seq(Bit) /\ Each(f, u \o L) = Each(f, u) \o Each(f, L)
      BY <3>1, EachConcat
    <3> QED
      BY <3>2 DEF u
  <2> QED
    BY <1>4, <2>1, <2>2
<1> HIDE DEF K
<1>9. \A i \in 1 .. Len(K) : K[i].first >= k
  <2>1. ASSUME NEW i \in 1 .. Len(K) PROVE K[i].first >= k
    <3>1. CASE i = 1
      BY <1>3, <1>7, <3>1
    <3>2. CASE i # 1
      <4>1. i \in 2 .. 1 + Len(L) /\ i - 1 \in 1 .. Len(L)
        BY <1>7, <3>2
      <4>2. K[i] = L[i - 1] /\ L[i - 1].first >= k + l /\ L[i - 1] \in P
        BY <1>2, <1>7, <4>1, ElementOfSeq
      <4>3. L[i - 1].first \in Nat
        BY <4>2, PieceIs DEF P
      <4> QED
        BY <1>1, <4>2, <4>3
    <3> QED
      BY <3>1, <3>2
  <2> QED
    BY <2>1
<1>10. /\ Len(Each(f, L)) = C - (k + l)
       /\ \A t \in 1 .. C - (k + l) :
            Each(f, L)[t] = IF \E i \in 1 .. Len(L) : t + (k + l) = L[i].first + L[i].length THEN 1 ELSE 0
  BY <1>0, <1>1, <1>2 DEF Marked, C
<1>11. /\ Each(f, K) \in Seq(Bit) /\ Len(Each(f, K)) = C - k
       /\ \A t \in 1 .. C - k : Each(f, K)[t] = IF t <= l THEN Ends(x)[t] ELSE Each(f, L)[t - l]
  <2>1. /\ Each(f, K) \in Seq(Bit) /\ Len(Each(f, K)) = Len(Ends(x)) + Len(Each(f, L))
        /\ \A t \in 1 .. Len(Ends(x)) + Len(Each(f, L)) :
             Each(f, K)[t] = IF t <= Len(Ends(x)) THEN Ends(x)[t] ELSE Each(f, L)[t - Len(Ends(x))]
    <3> DEFINE p == Ends(x)
               q == Each(f, L)
    <3>1. p \in Seq(Bit) /\ q \in Seq(Bit)
      BY <1>5, <1>8
    <3> HIDE DEF p, q
    <3>2. /\ p \o q \in Seq(Bit) /\ Len(p \o q) = Len(p) + Len(q)
          /\ \A t \in 1 .. Len(p) + Len(q) : (p \o q)[t] = IF t <= Len(p) THEN p[t] ELSE q[t - Len(p)]
      BY <3>1, ConcatProperties
    <3>3. Each(f, K) = p \o q
      BY <1>8 DEF p, q
    <3> QED
      BY <3>2, <3>3, Zenon DEF p, q
  <2>2. Len(Ends(x)) = l /\ Len(Ends(x)) + Len(Each(f, L)) = C - k
    BY <1>0, <1>1, <1>5, <1>10
  <2> QED
    BY <2>1, <2>2
<1>12. ASSUME NEW t \in 1 .. C - k
       PROVE  Each(f, K)[t] = IF \E i \in 1 .. Len(K) : t + k = K[i].first + K[i].length THEN 1 ELSE 0
  <2>0. t \in Nat /\ t > 0
    BY <1>0, <1>1
  <2>1. CASE t <= l
    <3>1. t \in 1 .. l /\ Each(f, K)[t] = IF t = l THEN 1 ELSE 0
      BY <1>5, <1>11, <2>0, <2>1
    <3>2. ASSUME NEW i \in 1 .. Len(K), t + k = K[i].first + K[i].length PROVE t = l
      <4>1. CASE i = 1
        <5>1. t + k = k + l
          BY <1>3, <1>7, <3>2, <4>1
        <5> QED
          BY <1>1, <2>0, <5>1
      <4>2. CASE i # 1
        <5>1. i \in 2 .. 1 + Len(L) /\ i - 1 \in 1 .. Len(L)
          BY <1>7, <4>2
        <5>2. K[i] = L[i - 1] /\ L[i - 1].first >= k + l /\ L[i - 1] \in P
          BY <1>2, <1>7, <5>1, ElementOfSeq
        <5>3. L[i - 1].first \in Nat /\ L[i - 1].length \in Nat /\ L[i - 1].length > 0
          BY <5>2, PieceIs DEF P
        <5> QED
          BY <1>1, <2>0, <2>1, <3>2, <5>2, <5>3
      <4> QED
        BY <4>1, <4>2
    <3>3. ASSUME t = l PROVE \E i \in 1 .. Len(K) : t + k = K[i].first + K[i].length
      <4>1. 1 \in 1 .. Len(K) /\ t + k = K[1].first + K[1].length
        BY <1>1, <1>3, <1>7, <3>3
      <4> QED
        BY <4>1
    <3> QED
      BY <3>1, <3>2, <3>3
  <2>2. CASE ~(t <= l)
    <3>1. t - l \in 1 .. C - (k + l) /\ (t - l) + (k + l) = t + k
      BY <1>0, <1>1, <2>0, <2>2
    <3>2. Each(f, K)[t] = IF \E i \in 1 .. Len(L) : t + k = L[i].first + L[i].length THEN 1 ELSE 0
      <4>1. Each(f, K)[t] = Each(f, L)[t - l]
        BY <1>11, <2>2, Zenon
      <4>2. Each(f, L)[t - l] = IF \E i \in 1 .. Len(L) : (t - l) + (k + l) = L[i].first + L[i].length THEN 1 ELSE 0
        BY <1>10, <3>1, Zenon
      <4> QED
        BY <3>1, <4>1, <4>2
    <3>3. ASSUME NEW i \in 1 .. Len(K), t + k = K[i].first + K[i].length
          PROVE  \E j \in 1 .. Len(L) : t + k = L[j].first + L[j].length
      <4>1. i # 1
        BY <1>1, <1>3, <1>7, <2>0, <2>2, <3>3
      <4>2. i \in 2 .. 1 + Len(L) /\ i - 1 \in 1 .. Len(L)
        BY <1>7, <4>1
      <4> QED
        BY <1>7, <3>3, <4>2
    <3>4. ASSUME NEW j \in 1 .. Len(L), t + k = L[j].first + L[j].length
          PROVE  \E i \in 1 .. Len(K) : t + k = K[i].first + K[i].length
      <4>1. j + 1 \in 2 .. 1 + Len(L) /\ j + 1 \in 1 .. Len(K) /\ (j + 1) - 1 = j
        BY <1>7
      <4> QED
        BY <1>7, <3>4, <4>1
    <3> QED
      BY <3>2, <3>3, <3>4
  <2> QED
    BY <2>1, <2>2
<1>13. Each(f, K) = Marked(c, k, K)
  <2>1. Each(f, K) = [t \in 1 .. C - k |-> Each(f, K)[t]]
    BY <1>11, LenProperties
  <2>2. [t \in 1 .. C - k |-> Each(f, K)[t]] = Marked(c, k, K)
    BY <1>12, Zenon DEF Marked, C
  <2> QED
    BY <2>1, <2>2
<1>14. K # <<>>
  BY <1>7
<1>15. Each(WordsOf(c), K) = Slice(Words(c), k, C - k)
  <2> DEFINE g == WordsOf(c)
             w == Words(c)
  <2>1. w \in [Nat -> Nat] /\ g \in Lists(P, Nat) /\ g[x] = Slice(w, k, l)
    BY <1>3, WordsAre, WordsOfPieces DEF WordsOf, P
  <2>2. Each(g, L) = Slice(w, k + l, C - (k + l))
    BY DEF IsCut, C, l
  <2>3. C - (k + l) \in Nat /\ l + (C - (k + l)) = C - k
    BY <1>0, <1>1
  <2> HIDE DEF g, w
  <2>4. Each(g, <<x>>) = g[x]
    BY <1>3, <2>1, EachOne
  <2>5. Each(g, <<x>> \o L) = Each(g, <<x>>) \o Each(g, L)
    <3> DEFINE u == <<x>>
    <3>1. u \in Seq(P)
      BY <1>6
    <3>3. L \in Seq(P) /\ g \in Lists(P, Nat)
      BY <1>2, <2>1
    <3> HIDE DEF u
    <3>2. Each(g, u \o L) = Each(g, u) \o Each(g, L)
      BY <3>1, <3>3, EachConcat
    <3> QED
      BY <3>2 DEF u
  <2>6. Slice(w, k, l) \o Slice(w, k + l, C - (k + l)) = Slice(w, k, l + (C - (k + l)))
    BY <1>1, <2>1, <2>3, Slices
  <2>7. Each(g, K) = Slice(w, k, C - k)
    BY <2>1, <2>2, <2>3, <2>4, <2>5, <2>6, Zenon DEF K
  <2> QED
    BY <2>7 DEF g, w
<1> QED
  BY <1>7, <1>9, <1>13, <1>14, <1>15, Zenon DEF IsCut, K, x, l, P, f, C

\* The bursts of a call, and the marks of their beats.
LEMMA BurstsAre ==
  ASSUME NEW c \in Calls
  PROVE  IsCut(c, 0, Bursts(c))
<1> DEFINE C == Cycles(c)
<1>0. C \in Nat /\ C > 0
  BY CyclesIs
<1>1. PICK f : /\ Bursts(c) = f[0]
               /\ \A k \in 0 .. C :
                    f[k] = IF k = C THEN <<>>
                           ELSE <<[first |-> k, length |-> BurstLength(c, k)]>> \o f[k + BurstLength(c, k)]
  BY BurstsFrom, Zenon
<1> HIDE DEF C
<1> DEFINE Bad == {m \in 0 .. C : ~IsCut(c, C - m, f[C - m])}
<1>2. ASSUME Bad # {} PROVE FALSE
  <2>0. Bad \subseteq Nat
    BY <1>0
  <2>1. PICK m \in Bad : \A j \in Bad : ~(j < m)
    BY <1>2, <2>0, FirstNumber, Zenon
  <2> DEFINE k == C - m
  <2>2. m \in 0 .. C /\ k \in 0 .. C /\ k \in Nat /\ ~IsCut(c, k, f[k])
    BY <1>0, <2>1
  <2> HIDE DEF Bad
  <2>3. CASE k = C
    <3>1. f[k] = <<>>
      BY <1>1, <2>2, <2>3
    <3>2. <<>> \in Seq(Piece(c)) /\ Len(<<>>) = 0
      BY EmptySeq
    <3>3. Each(EndsOf(Piece(c)), <<>>) = <<>>
      BY EndsOfPieces, EachOne
    <3>4. Marked(c, k, <<>>) = <<>>
      <4>1. 1 .. Cycles(c) - k = {}
        BY <1>0, <2>3 DEF C
      <4> QED
        BY <4>1 DEF Marked
    <3>5. ~(k < Cycles(c))
      BY <1>0, <2>3 DEF C
    <3>7. Each(WordsOf(c), <<>>) = Slice(Words(c), k, Cycles(c) - k)
      <4>1. Each(WordsOf(c), <<>>) = <<>>
        BY WordsOfPieces, EachOne
      <4>2. 1 .. Cycles(c) - k = {}
        BY <1>0, <2>3 DEF C
      <4>3. Slice(Words(c), k, Cycles(c) - k) = <<>>
        BY <4>2 DEF Slice
      <4> QED
        BY <4>1, <4>3
    <3>6. IsCut(c, k, <<>>)
      BY <3>2, <3>3, <3>4, <3>5, <3>7 DEF IsCut
    <3> QED
      BY <2>2, <3>1, <3>6
  <2>4. CASE k # C
    <3> DEFINE l == BurstLength(c, k)
    <3>1. k < C
      BY <1>0, <2>2, <2>4
    <3>2. l \in Nat /\ l > 0 /\ k + l <= C
      BY <2>2, <3>1, BurstLengthIs DEF C
    <3>3. m - l \in 0 .. C /\ m - l < m /\ C - (m - l) = k + l
      BY <1>0, <2>2, <3>2
    <3>4. IsCut(c, k + l, f[k + l])
      BY <2>1, <3>3 DEF Bad
    <3>5. IsCut(c, k, <<[first |-> k, length |-> l]>> \o f[k + l])
      BY <2>2, <3>1, <3>4, CutMore DEF C
    <3>6. f[k] = <<[first |-> k, length |-> l]>> \o f[k + l]
      BY <1>1, <2>2, <2>4, Zenon
    <3> QED
      BY <2>2, <3>5, <3>6
  <2> QED
    BY <2>3, <2>4
<1>3. C \in 0 .. C /\ C - C = 0
  BY <1>0
<1>4. C \notin Bad
  BY <1>2
<1>5. IsCut(c, C - C, f[C - C])
  BY <1>3, <1>4
<1> QED
  BY <1>1, <1>3, <1>5

---------------------------------------------------------------------------
(* What goes over the channels *)

Id    == 0 .. NumIds - 1
Burst == {b \in [addr : Nat, length : Nat, num_bytes : Nat, id : Id] : b.length > 0 /\ InOnePage(b)}

Val      == Nat \X Int
Data     == UNION {[D -> Val] : D \in SUBSET Int}
BeatIn   == [data : Data, last : BOOLEAN]                       \* over w
BeatOut  == [data : [Lane -> Val], id : Id, last : BOOLEAN]     \* over r
Response == [id : Id]

\* The mark of a beat.
MarkOf(I) == [x \in I |-> <<IF x.last THEN 1 ELSE 0>>]

\* Where the memory puts the beats of a burst.
Places(b)   == [n \in 1 .. b.length |-> WordAddr(b, n - 1)]
PlacesOf(I) == [b \in I |-> Places(b)]

LEMMA MarksAre ==
  /\ EndsOf(Burst) \in Lists(Burst, Bit)
  /\ MarkOf(BeatIn) \in Lists(BeatIn, Bit)
<1>1. \A b \in Burst : Ends(b) \in Seq(Bit)
  BY EndsAre DEF Burst
<1>2. \A x : <<IF x.last THEN 1 ELSE 0>> \in Seq(Bit)
  BY DEF Bit
<1> QED
  BY <1>1, <1>2 DEF EndsOf, MarkOf, Lists

LEMMA AddressesAre ==
  ASSUME NEW c \in Calls, NEW id \in Id
  PROVE  /\ Addresses(c, id) \in Seq(Burst) /\ Addresses(c, id) # <<>>
         /\ Len(Addresses(c, id)) = Len(Bursts(c)) /\ Len(Bursts(c)) \in Nat
         /\ Each(EndsOf(Burst), Addresses(c, id)) = Marked(c, 0, Bursts(c))
         /\ Each(PlacesOf(Burst), Addresses(c, id)) = Slice(Words(c), 0, Cycles(c))
<1> DEFINE L == Bursts(c)
           A == Addresses(c, id)
           P == Piece(c)
<1>0. /\ c.num_bytes \in Nat /\ Cycles(c) \in Nat /\ 0 < Cycles(c)
  BY CallIs, CyclesIs
<1>1. /\ L \in Seq(P) /\ L # <<>> /\ Len(L) \in Nat
      /\ Each(EndsOf(P), L) = Marked(c, 0, L)
      /\ Each(WordsOf(c), L) = Slice(Words(c), 0, Cycles(c))
  <2>1. IsCut(c, 0, L) /\ Cycles(c) - 0 = Cycles(c)
    BY <1>0, BurstsAre
  <2> QED
    BY <1>0, <2>1, LenProperties DEF IsCut
<1>2. A = [i \in 1 .. Len(L) |-> Address(c, id, i)]
  BY DEF Addresses
<1>3. ASSUME NEW i \in 1 .. Len(L)
      PROVE  /\ Address(c, id, i) \in Burst /\ Address(c, id, i).length = L[i].length /\ L[i] \in P
             /\ Address(c, id, i).addr = Here(c, L[i].first)
             /\ Address(c, id, i).num_bytes = c.num_bytes
  <2> DEFINE b == L[i]
  <2>1. /\ b \in P /\ b.first \in Nat /\ b.first < Cycles(c) /\ b.length \in Nat /\ b.length > 0
        /\ b.length = BurstLength(c, b.first)
    BY <1>1, ElementOfSeq, PieceIs
  <2>2. /\ Here(c, b.first) \in Nat
        /\ Page - (Here(c, b.first) % Page) >= b.length * c.num_bytes
    BY <2>1, BurstLengthIs
  <2>3. (id + i - 1) % NumIds \in Id
    <3>1. id + i - 1 \in Nat
      BY <1>1, Sizes DEF Id
    <3> QED
      BY <3>1, Sizes, Remainder DEF Id
  <2>4. Address(c, id, i) = [addr |-> Here(c, b.first), length |-> b.length,
                             num_bytes |-> c.num_bytes, id |-> (id + i - 1) % NumIds]
    BY DEF Address, Here
  <2> HIDE DEF b
  <2> QED
    BY <1>0, <2>1, <2>2, <2>3, <2>4 DEF Burst, InOnePage, b
<1>4. A \in Seq(Burst) /\ Len(A) = Len(L)
  BY <1>1, <1>2, <1>3
<1>5. A # <<>>
  <2>1. Len(L) > 0
    BY <1>1, EmptySeq
  <2> QED
    BY <1>4, <2>1, EmptySeq
<1>6. \A i \in 1 .. Len(L) : EndsOf(Burst)[A[i]] = EndsOf(P)[L[i]]
  <2>1. \A i \in 1 .. Len(L) : A[i] \in Burst /\ A[i].length = L[i].length /\ L[i] \in P
    BY <1>2, <1>3
  <2> HIDE DEF A, L, P
  <2> QED
    BY <2>1 DEF EndsOf, Ends
<1>7. Each(EndsOf(Burst), A) = Each(EndsOf(P), L)
  <2> HIDE DEF A, L, P
  <2>1. [i \in 1 .. Len(A) |-> EndsOf(Burst)[A[i]]] = [i \in 1 .. Len(L) |-> EndsOf(P)[L[i]]]
    BY <1>4, <1>6
  <2> QED
    BY <2>1, Zenon DEF Each
<1>8. ASSUME NEW i \in 1 .. Len(L) PROVE PlacesOf(Burst)[A[i]] = WordsOf(c)[L[i]]
  <2> DEFINE b == L[i]
             d == A[i]
  <2>1. /\ d \in Burst /\ b \in P /\ d.length = b.length
        /\ d.addr = Here(c, b.first) /\ d.num_bytes = c.num_bytes
    BY <1>2, <1>3
  <2>2. b.first \in Nat /\ b.length \in Nat
    BY <2>1, PieceIs
  <2> HIDE DEF b, d, A, L, P
  <2>3. ASSUME NEW n \in 1 .. b.length PROVE WordAddr(d, n - 1) = Words(c)[b.first + n - 1]
    <3>1. b.first + n - 1 \in Nat /\ b.first + n - 1 = b.first + (n - 1) /\ n - 1 \in Nat
      BY <2>2
    <3>2. Words(c)[b.first + n - 1] = (Here(c, b.first + n - 1) \div BW) * BW
      BY <3>1, WordsAre DEF Word
    <3>3. Here(c, b.first + n - 1) = Here(c, b.first) + (n - 1) * c.num_bytes
      <4> DEFINE h == AlignedAddr(c)
                 m == c.num_bytes
                 f == b.first
                 j == n - 1
      <4>1. h \in Nat
        BY AlignedIs
      <4>2. m \in Nat /\ f \in Nat /\ j \in Nat
        BY <1>0, <2>2, <3>1
      <4> HIDE DEF h, m, f, j
      <4>3. (f + j) * m = f * m + j * m /\ f * m \in Nat /\ j * m \in Nat
        BY <4>2
      <4>4. h + (f + j) * m = (h + f * m) + j * m
        BY <4>1, <4>3
      <4> QED
        BY <3>1, <4>4 DEF Here, h, m, f, j
    <3>4. WordAddr(d, n - 1) = ((d.addr + (n - 1) * d.num_bytes) \div BW) * BW
      BY DEF WordAddr
    <3> QED
      BY <2>1, <3>2, <3>3, <3>4
  <2>4. PlacesOf(Burst)[d] = [n \in 1 .. b.length |-> WordAddr(d, n - 1)]
    BY <2>1 DEF PlacesOf, Places
  <2>5. WordsOf(c)[b] = [n \in 1 .. b.length |-> Words(c)[b.first + n - 1]]
    BY <2>1 DEF WordsOf, Slice, P
  <2>6. PlacesOf(Burst)[d] = WordsOf(c)[b]
    BY <2>3, <2>4, <2>5, Zenon
  <2> QED
    BY <2>6 DEF b, d
<1>9. Each(PlacesOf(Burst), A) = Each(WordsOf(c), L)
  <2> HIDE DEF A, L, P
  <2>1. [i \in 1 .. Len(A) |-> PlacesOf(Burst)[A[i]]] = [i \in 1 .. Len(L) |-> WordsOf(c)[L[i]]]
    BY <1>4, <1>8
  <2> QED
    BY <2>1, Zenon DEF Each
<1> QED
  BY <1>1, <1>4, <1>5, <1>7, <1>9

---------------------------------------------------------------------------
(* Lanes *)

LEMMA LanesAre ==
  ASSUME NEW c \in Calls, NEW k \in Nat
  PROVE  /\ LaneOffset(c, k) \in Nat /\ LaneOffset(c, k) + c.num_bytes <= BW
         /\ StartLane(c, k) \in Nat
<1> DEFINE n == c.num_bytes
           a == c.addr \div n
           m == a + k
           q == (n * m) \div BW
<1>1. /\ c.addr \in Nat /\ n \in Nat /\ n > 0 /\ BW % n = 0
  BY CallIs, CallsAssumption
<1>2. PICK p \in Nat : BW = n * p
  BY <1>1, Sizes, Multiple
<1>3. a \in Nat
  BY <1>1, Remainder
<1>4. LaneOffset(c, k) = (a * n + k * n) % BW
  BY DEF LaneOffset, AlignedAddr
<1>5. c.addr % BW \in Nat
  BY <1>1, Sizes, Remainder
<1> HIDE DEF a, n
<1>6. a * n + k * n = n * m /\ m \in Nat /\ n * m \in Nat
  BY <1>1, <1>3
<1> HIDE DEF m
<1>7. q \in Nat /\ (n * m) % BW \in 0 .. BW - 1 /\ n * m = BW * q + ((n * m) % BW)
  BY <1>6, Sizes, Remainder
<1> HIDE DEF q
<1>8. BW * q = n * (p * q) /\ p * q \in Nat
  BY <1>1, <1>2, <1>7
<1> DEFINE d == m - p * q
<1>9. d \in Int /\ (n * m) % BW = n * d /\ n * d \in Int
  BY <1>1, <1>6, <1>7, <1>8
<1> HIDE DEF d
<1>10. d <= p - 1
  <2> SUFFICES ASSUME d >= p PROVE FALSE
    BY <1>2, <1>9
  <2>1. n * d >= n * p
    BY <1>1, <1>2, <1>9
  <2> QED
    BY <1>2, <1>7, <1>9, <2>1, Sizes
<1>11. n * d <= n * (p - 1) /\ n * (p - 1) = n * p - n
  BY <1>1, <1>2, <1>9, <1>10
<1>12. LaneOffset(c, k) = n * d
  BY <1>4, <1>6, <1>9
<1>13. LaneOffset(c, k) \in Nat /\ LaneOffset(c, k) + n <= BW
  BY <1>1, <1>2, <1>7, <1>9, <1>11, <1>12, Sizes
<1>14. StartLane(c, k) \in Nat
  BY <1>5, <1>13 DEF StartLane
<1> QED
  BY <1>13, <1>14 DEF n

\* A beat's bytes are among those of its word.
LEMMA TakenIs ==
  ASSUME NEW c \in Calls, NEW k \in Nat, NEW beat \in BeatOut
  PROVE  Taken(c, k, beat) \in Seq(Val)
<1> DEFINE start == StartLane(c, k)
           stop  == LaneOffset(c, k) + c.num_bytes
<1>1. start \in Nat /\ stop \in Nat /\ stop <= BW /\ BW \in Nat
  BY LanesAre, CallIs, Sizes
<1>2. Taken(c, k, beat) = [j \in 1 .. stop - start |-> beat.data[start + j - 1]]
  BY DEF Taken
<1> HIDE DEF start, stop
<1>3. ASSUME NEW j \in 1 .. stop - start PROVE beat.data[start + j - 1] \in Val
  <2>1. start + j - 1 \in Lane
    BY <1>1 DEF Lane
  <2>2. beat.data \in [Lane -> Val]
    BY DEF BeatOut
  <2> QED
    BY <2>1, <2>2
<1>4. CASE stop - start \in Nat
  BY <1>2, <1>3, <1>4
<1>5. CASE stop - start \notin Nat
  <2>1. 1 .. stop - start = {}
    BY <1>1, <1>5
  <2>2. Taken(c, k, beat) = <<>>
    BY <1>2, <2>1
  <2> QED
    BY <2>2, EmptySeq
<1> QED
  BY <1>4, <1>5

LEMMA WriteBeatsAre ==
  ASSUME calls \in Seq(Calls), NEW n \in 1 .. Len(calls)
  PROVE  /\ calls[n] \in Calls
         /\ WriteBeats(n) \in Seq(BeatIn)
         /\ Each(MarkOf(BeatIn), WriteBeats(n)) = Marked(calls[n], 0, Bursts(calls[n]))
<1> DEFINE c == calls[n]
           W == WriteBeats(n)
           T == Marked(c, 0, Bursts(c))
<1>1. c \in Calls /\ n \in Nat
  BY ElementOfSeq, LenProperties
<1>2. Cycles(c) \in Nat
  BY <1>1, CyclesIs
<1>3. W = [k \in 1 .. Cycles(c) |-> WriteBeat(n, k - 1)]
  BY DEF WriteBeats
<1> DEFINE L == Bursts(c)
<1>4. ASSUME NEW k \in 1 .. Cycles(c)
      PROVE  /\ WriteBeat(n, k - 1) \in BeatIn
             /\ WriteBeat(n, k - 1).last <=> \E i \in 1 .. Len(L) : k + 0 = L[i].first + L[i].length
  <2> DEFINE h == k - 1
             a == StartLane(c, h)
             b == StopLane(c, h) - 1
             g == [j \in a .. b |-> Byte(n, Before(c, h) + j - a)]
  <2>1. h \in Nat /\ h + 1 = k + 0
    BY <1>2
  <2>2. WriteBeat(n, h) = [data |-> g, last |-> \E i \in 1 .. Len(L) : h + 1 = L[i].first + L[i].length]
    BY DEF WriteBeat
  <2>3. a \in Nat /\ b \in Int /\ Before(c, h) \in Int
    <3>1. /\ c.addr \in Nat /\ c.len \in Nat /\ c.num_bytes \in Nat /\ c.num_bytes > 0
          /\ c.addr % c.num_bytes \in Nat
      BY <1>1, CallIs, Remainder
    <3>2. LaneOffset(c, h) \in Nat /\ a \in Nat
      BY <1>1, <2>1, LanesAre
    <3>3. StopLane(c, h) \in Int
      <4>1. ((c.addr + c.len - 1) % BW) + 1 \in Int
        <5>0. c.len > 0
          BY <1>1, CallIs
        <5>1. c.addr + c.len - 1 \in Nat
          BY <3>1, <5>0
        <5> QED
          BY <5>1, Sizes, Remainder
      <4> QED
        BY <3>1, <3>2, <4>1 DEF StopLane
    <3>4. Before(c, h) \in Int
      BY <2>1, <3>1 DEF Before
    <3> QED
      BY <3>2, <3>3, <3>4
  <2> HIDE DEF a, b, h
  <2>4. g \in Data
    <3>1. a .. b \in SUBSET Int
      BY <2>3
    <3>2. \A j \in a .. b : Byte(n, Before(c, h) + j - a) \in Val
      BY <1>1, <2>3 DEF Byte, Val
    <3>3. g \in [a .. b -> Val]
      BY <3>2
    <3> QED
      BY <3>1, <3>3 DEF Data
  <2> HIDE DEF g
  <2>5. WriteBeat(n, h) \in BeatIn
    BY <2>2, <2>4 DEF BeatIn
  <2>6. WriteBeat(n, h).last <=> \E i \in 1 .. Len(L) : h + 1 = L[i].first + L[i].length
    BY <2>2
  <2> QED
    BY <2>1, <2>5, <2>6 DEF h
<1>5. W \in Seq(BeatIn) /\ Len(W) = Cycles(c)
  BY <1>2, <1>3, <1>4
<1>6. T \in Seq(Bit) /\ Len(T) = Cycles(c)
      /\ \A k \in 1 .. Cycles(c) : T[k] = IF \E i \in 1 .. Len(L) : k + 0 = L[i].first + L[i].length THEN 1 ELSE 0
  <2>1. Cycles(c) - 0 = Cycles(c)
    BY <1>2
  <2>2. T = [k \in 1 .. Cycles(c) |-> IF \E i \in 1 .. Len(L) : k + 0 = L[i].first + L[i].length THEN 1 ELSE 0]
    BY <2>1, Zenon DEF Marked
  <2> HIDE DEF T, L
  <2> QED
    BY <1>2, <2>2 DEF Bit
<1>7. \A k \in 1 .. Len(W) : MarkOf(BeatIn)[W[k]] = <<T[k]>>
  <2>1. ASSUME NEW k \in 1 .. Cycles(c) PROVE MarkOf(BeatIn)[W[k]] = <<T[k]>>
    <3>1. W[k] = WriteBeat(n, k - 1) /\ W[k] \in BeatIn
      BY <1>3, <1>4
    <3> HIDE DEF W, T, L
    <3>2. MarkOf(BeatIn)[W[k]] = <<IF W[k].last THEN 1 ELSE 0>>
      BY <3>1, Zenon DEF MarkOf
    <3>3. (IF W[k].last THEN 1 ELSE 0) = T[k]
      BY <1>4, <1>6, <3>1
    <3> QED
      BY <3>2, <3>3
  <2> QED
    BY <1>5, <2>1
<1> DEFINE f == MarkOf(BeatIn)
<1>8. Each(f, W) = T
  <2>1. f \in Lists(BeatIn, Bit) /\ Len(T) = Len(W) /\ \A k \in 1 .. Len(W) : f[W[k]] = <<T[k]>>
    BY <1>5, <1>6, <1>7, MarksAre
  <2> HIDE DEF W, T, f
  <2> QED
    BY <1>5, <1>6, <2>1, EachSingle
<1> QED
  BY <1>1, <1>5, <1>8 DEF W, T

---------------------------------------------------------------------------
(* A channel: what is in its queues and on its signals, in order *)

Iface(I) == [queue : Seq(I), signals : I \union {Nothing}, valid : BOOLEAN, sink : Seq(I)]

Well(ch, I) == ch \in Iface(I) /\ (ch.valid => ch.signals # Nothing)

Signals(ch) == IF ch.signals = Nothing THEN <<>> ELSE <<ch.signals>>
Flow(ch)    == ch.sink \o (Signals(ch) \o ch.queue)

LEMMA FlowIs ==
  ASSUME NEW I, NEW ch, Well(ch, I)
  PROVE  /\ ch.sink \in Seq(I) /\ Signals(ch) \in Seq(I) /\ ch.queue \in Seq(I)
         /\ Signals(ch) \o ch.queue \in Seq(I) /\ Flow(ch) \in Seq(I)
<1>1. /\ ch.sink \in Seq(I) /\ ch.queue \in Seq(I)
      /\ ch.signals # Nothing => ch.signals \in I
  BY DEF Well, Iface
<1>2. Signals(ch) \in Seq(I)
  BY <1>1, EmptySeq DEF Signals
<1>3. Signals(ch) \o ch.queue \in Seq(I)
  BY <1>1, <1>2, ConcatProperties
<1>4. ch.sink \o (Signals(ch) \o ch.queue) \in Seq(I)
  BY <1>1, <1>3, ConcatProperties
<1> QED
  BY <1>1, <1>2, <1>3, <1>4 DEF Flow

\* A channel with items put into it, and one of which the first is taken.
With(ch, items) == [ch EXCEPT !.queue = @ \o items]
Behind(ch)      == [ch EXCEPT !.sink = Tail(@)]

LEMMA FlowPut ==
  ASSUME NEW I, NEW ch, Well(ch, I), NEW items \in Seq(I)
  PROVE  Well(With(ch, items), I) /\ Flow(With(ch, items)) = Flow(ch) \o items
<1> DEFINE q == ch.queue \o items
           dh == [ch EXCEPT !.queue = q]
<1>0. /\ ch.sink \in Seq(I) /\ Signals(ch) \in Seq(I) /\ ch.queue \in Seq(I)
      /\ Signals(ch) \o ch.queue \in Seq(I)
  BY FlowIs
<1>1. q \in Seq(I)
  BY <1>0, ConcatProperties
<1>00. \A f, g, h \in Seq(I) : (f \o g) \o h = f \o (g \o h)
  BY ConcatAssociative
<1>2. Signals(ch) \o q = (Signals(ch) \o ch.queue) \o items
  BY <1>0, <1>00, ZenonT(60)
<1>3. ch.sink \o ((Signals(ch) \o ch.queue) \o items) = (ch.sink \o (Signals(ch) \o ch.queue)) \o items
  BY <1>0, <1>00, ZenonT(60)
<1> HIDE DEF q
<1>4. Well(dh, I) /\ dh.sink = ch.sink /\ dh.signals = ch.signals /\ dh.queue = q
  BY <1>1 DEF Well, Iface
<1> HIDE DEF dh
<1>5. Flow(dh) = ch.sink \o (Signals(ch) \o q)
  BY <1>4, Zenon DEF Flow, Signals
<1>6. Flow(dh) = Flow(ch) \o items
  BY <1>2, <1>3, <1>5, Zenon DEF Flow
<1>7. dh = With(ch, items)
  BY DEF dh, q, With
<1> QED
  BY <1>4, <1>6, <1>7, Zenon

LEMMA FlowTake ==
  ASSUME NEW I, NEW ch, Well(ch, I), ch.sink # <<>>
  PROVE  /\ Well(Behind(ch), I)
         /\ Flow(ch) # <<>> /\ Head(Flow(ch)) = Head(ch.sink) /\ Head(ch.sink) \in I
         /\ Flow(Behind(ch)) = Tail(Flow(ch))
<1> DEFINE t == Tail(ch.sink)
           rest == Signals(ch) \o ch.queue
           dh == [ch EXCEPT !.sink = t]
<1>0. ch.sink \in Seq(I) /\ rest \in Seq(I)
  BY FlowIs
<1>1. t \in Seq(I) /\ Head(ch.sink) \in I
  BY <1>0, HeadTailProperties
<1>2. /\ ch.sink \o rest # <<>> /\ Head(ch.sink \o rest) = Head(ch.sink)
      /\ Tail(ch.sink \o rest) = t \o rest
  <2> HIDE DEF rest
  <2> QED
    BY <1>0, FirstMoves
<1> HIDE DEF t
<1>3. Well(dh, I) /\ dh.sink = t /\ dh.signals = ch.signals /\ dh.queue = ch.queue
  BY <1>1 DEF Well, Iface
<1> HIDE DEF dh
<1>4. Flow(dh) = t \o rest
  BY <1>3, Zenon DEF Flow, Signals
<1>5. Flow(ch) = ch.sink \o rest
  BY DEF Flow
<1>6. dh = Behind(ch)
  BY DEF dh, t, Behind
<1> QED
  BY <1>1, <1>2, <1>3, <1>4, <1>5, <1>6, Zenon

\* A channel of which the i-th item is taken.
Without(ch, i) == [ch EXCEPT !.sink = RemoveAt(@, i)]

\* v is all that is behind that item.
IsBehind(v, ch, i) == /\ Flow(ch) = SubSeq(ch.sink, 1, i - 1) \o (<<ch.sink[i]>> \o v)
                      /\ Flow(Without(ch, i)) = SubSeq(ch.sink, 1, i - 1) \o v

LEMMA FlowRemove ==
  ASSUME NEW I, NEW ch, Well(ch, I), NEW i \in 1 .. Len(ch.sink)
  PROVE  /\ Well(Without(ch, i), I)
         /\ ch.sink[i] \in I
         /\ \E v \in Seq(I) : IsBehind(v, ch, i)
<1> DEFINE s == ch.sink
           u == SubSeq(s, 1, i - 1)
           w == SubSeq(s, i + 1, Len(s))
           x == s[i]
           rest == Signals(ch) \o ch.queue
           r == RemoveAt(s, i)
           dh == [ch EXCEPT !.sink = r]
<1>0. s \in Seq(I) /\ rest \in Seq(I)
  BY FlowIs
<1>1. /\ u \in Seq(I) /\ w \in Seq(I) /\ <<x>> \in Seq(I) /\ x \in I
      /\ s = u \o (<<x>> \o w)
  BY <1>0, AtPlace
<1>2. r = u \o w
  BY DEF RemoveAt
<1>3. r \in Seq(I)
  BY <1>1, <1>2, ConcatProperties
<1>4. Well(dh, I) /\ dh.sink = r /\ dh.signals = ch.signals /\ dh.queue = ch.queue
  <2> HIDE DEF r
  <2> QED
    BY <1>3 DEF Well, Iface
<1> HIDE DEF dh
<1>5. Flow(dh) = r \o rest /\ Flow(ch) = s \o rest
  BY <1>4, Zenon DEF Flow, Signals
<1> HIDE DEF s, u, w, x, r, rest
<1>6. <<x>> \o w \in Seq(I) /\ w \o rest \in Seq(I)
  BY <1>0, <1>1, ConcatProperties
<1>7. (u \o (<<x>> \o w)) \o rest = u \o ((<<x>> \o w) \o rest)
  BY <1>0, <1>1, <1>6, ConcatAssociative, SMTT(30)
<1>8. (<<x>> \o w) \o rest = <<x>> \o (w \o rest)
  BY <1>0, <1>1, ConcatAssociative, SMTT(30)
<1>9. (u \o w) \o rest = u \o (w \o rest)
  BY <1>0, <1>1, ConcatAssociative
<1>10. Flow(ch) = u \o (<<x>> \o (w \o rest)) /\ Flow(dh) = u \o (w \o rest)
  BY <1>1, <1>2, <1>5, <1>7, <1>8, <1>9, Zenon
<1>11. \E v \in Seq(I) : Flow(ch) = u \o (<<x>> \o v) /\ Flow(dh) = u \o v
  BY <1>6, <1>10, Zenon
<1>12. dh = Without(ch, i)
  BY DEF dh, r, s, Without
<1> QED
  BY <1>1, <1>4, <1>11, <1>12, Zenon DEF s, u, x, IsBehind

\* A channel of which the i-th item to be sent and the next change places.
Swapped(ch, i) ==
  [ch EXCEPT !.queue = [ch.queue EXCEPT ![i] = ch.queue[i + 1], ![i + 1] = ch.queue[i]]]

\* u and v are all that is in front of them and behind them.
AreAround(u, v, ch, i) ==
  LET x == ch.queue[i]
      y == ch.queue[i + 1]
  IN  /\ Flow(ch) = u \o (<<x>> \o (<<y>> \o v))
      /\ Flow(Swapped(ch, i)) = u \o (<<y>> \o (<<x>> \o v))

LEMMA FlowSwap ==
  ASSUME NEW I, NEW ch, Well(ch, I), NEW i \in 1 .. Len(ch.queue) - 1
  PROVE  /\ Well(Swapped(ch, i), I) /\ ch.queue[i] \in I /\ ch.queue[i + 1] \in I
         /\ \E u, v \in Seq(I) : AreAround(u, v, ch, i)
<1> DEFINE q == ch.queue
           x == q[i]
           y == q[i + 1]
           r == [q EXCEPT ![i] = y, ![i + 1] = x]
           dh == [ch EXCEPT !.queue = r]
           a == SubSeq(q, 1, i - 1)
           v == SubSeq(q, i + 2, Len(q))
           before == ch.sink \o Signals(ch)
<1>0. ch.sink \in Seq(I) /\ Signals(ch) \in Seq(I) /\ q \in Seq(I) /\ before \in Seq(I)
      /\ Len(q) \in Nat
  <2>1. ch.sink \in Seq(I) /\ Signals(ch) \in Seq(I) /\ q \in Seq(I)
    BY FlowIs
  <2> QED
    BY <2>1, ConcatProperties, LenProperties
<1>1. /\ i \in 1 .. Len(q) /\ i + 1 \in 1 .. Len(q) /\ i + 1 # i /\ (i + 1) + 1 = i + 2
      /\ i \in Nat /\ i - 1 \in Nat /\ i - 1 <= Len(q)
  BY <1>0
<1>2. x \in I /\ y \in I /\ <<x>> \in Seq(I) /\ <<y>> \in Seq(I)
  <2>1. x \in I /\ y \in I
    BY <1>0, <1>1, ElementOfSeq
  <2> QED
    BY <2>1
<1>3. /\ r \in Seq(I) /\ Len(r) = Len(q) /\ r[i] = y /\ r[i + 1] = x
      /\ \A j \in 1 .. Len(q) : j # i /\ j # i + 1 => r[j] = q[j]
  BY <1>0, <1>1, <1>2
<1> DEFINE tq == SubSeq(q, i + 1, Len(q))
           tr == SubSeq(r, i + 1, Len(r))
           ar == SubSeq(r, 1, i - 1)
           vr == SubSeq(r, i + 2, Len(r))
<1>4. /\ a \in Seq(I) /\ tq \in Seq(I) /\ q = a \o (<<x>> \o tq)
  BY <1>0, <1>1, AtPlace
<1>5. /\ v \in Seq(I) /\ tq = <<y>> \o v
  <2>1. tq = <<q[i + 1]>> \o SubSeq(q, (i + 1) + 1, Len(q))
    <3>1. Len(q) \in i + 1 .. Len(q)
      BY <1>0, <1>1
    <3> QED
      BY <1>0, <1>1, <3>1, SubSeqRecursiveFirst
  <2>2. SubSeq(q, (i + 1) + 1, Len(q)) \in Seq(I)
    BY <1>0, <1>1, AtPlace
  <2> QED
    BY <1>1, <2>1, <2>2
<1>6. /\ ar \in Seq(I) /\ tr \in Seq(I) /\ r = ar \o (<<y>> \o tr)
  <2> HIDE DEF r
  <2>1. i \in 1 .. Len(r)
    BY <1>1, <1>3
  <2>2. ar \in Seq(I) /\ tr \in Seq(I) /\ r = ar \o (<<r[i]>> \o tr)
    BY <1>3, <2>1, AtPlace
  <2> QED
    BY <1>3, <2>2
<1>7. /\ vr \in Seq(I) /\ tr = <<x>> \o vr
  <2> HIDE DEF r
  <2>1. tr = <<r[i + 1]>> \o SubSeq(r, (i + 1) + 1, Len(r))
    <3>1. Len(r) \in i + 1 .. Len(r) /\ i + 1 \in 1 .. Len(r)
      BY <1>0, <1>1, <1>3
    <3> QED
      BY <1>3, <3>1, SubSeqRecursiveFirst
  <2>2. SubSeq(r, (i + 1) + 1, Len(r)) \in Seq(I)
    <3>1. i + 1 \in 1 .. Len(r)
      BY <1>1, <1>3
    <3> QED
      BY <1>3, <3>1, AtPlace
  <2> QED
    BY <1>1, <1>3, <2>1, <2>2
<1> HIDE DEF r, x, y
<1>8. ar = a
  <2>1. Len(a) = i - 1 /\ Len(ar) = i - 1
    BY <1>0, <1>1, <1>3, SplitAt
  <2>2. \A j \in 1 .. i - 1 : a[j] = q[j] /\ ar[j] = r[j] /\ r[j] = q[j]
    BY <1>0, <1>1, <1>3
  <2> HIDE DEF a, ar
  <2> QED
    BY <1>4, <1>6, <2>1, <2>2, SeqEqual
<1>9. vr = v
  <2> DEFINE n == Len(q) - (i + 1)
  <2>1. Len(v) = n /\ Len(vr) = n /\ n \in Nat
    BY <1>0, <1>1, <1>3
  <2>2. \A j \in 1 .. n : v[j] = q[(i + 1) + j] /\ vr[j] = r[(i + 1) + j] /\ r[(i + 1) + j] = q[(i + 1) + j]
    <3>1. ASSUME NEW j \in 1 .. n
          PROVE  v[j] = q[(i + 1) + j] /\ vr[j] = r[(i + 1) + j] /\ r[(i + 1) + j] = q[(i + 1) + j]
      <4>1. (i + 1) + j \in 1 .. Len(q) /\ (i + 1) + j # i /\ (i + 1) + j # i + 1
            /\ i + 2 + j - 1 = (i + 1) + j
        BY <1>0, <1>1
      <4> QED
        BY <1>0, <1>1, <1>3, <4>1
    <3> QED
      BY <3>1
  <2> HIDE DEF v, vr, n
  <2> QED
    BY <1>5, <1>7, <2>1, <2>2, SeqEqual
<1>10. q = a \o (<<x>> \o (<<y>> \o v)) /\ r = a \o (<<y>> \o (<<x>> \o v))
  BY <1>4, <1>5, <1>6, <1>7, <1>8, <1>9, Zenon
<1>11. Well(dh, I) /\ dh.sink = ch.sink /\ dh.signals = ch.signals /\ dh.queue = r
  BY <1>3 DEF Well, Iface
<1> HIDE DEF dh
<1>12. /\ Flow(ch) = ch.sink \o (Signals(ch) \o q)
       /\ Flow(dh) = ch.sink \o (Signals(ch) \o r)
  BY <1>11, Zenon DEF Flow, Signals
<1> HIDE DEF q, a, v
<1>00. \A f, g, h \in Seq(I) : (f \o g) \o h = f \o (g \o h)
  BY ConcatAssociative
<1>13. /\ ch.sink \o (Signals(ch) \o q) = before \o q
       /\ ch.sink \o (Signals(ch) \o r) = before \o r
  <2>1. r \in Seq(I)
    BY <1>3
  <2>2. ch.sink \o (Signals(ch) \o q) = (ch.sink \o Signals(ch)) \o q
    BY <1>0, <1>00, Zenon
  <2>3. ch.sink \o (Signals(ch) \o r) = (ch.sink \o Signals(ch)) \o r
    BY <1>0, <1>00, <2>1, ZenonT(60)
  <2> QED
    BY <2>2, <2>3, Zenon
<1>14. /\ <<x>> \o (<<y>> \o v) \in Seq(I) /\ <<y>> \o (<<x>> \o v) \in Seq(I)
  <2>1. <<y>> \o v \in Seq(I) /\ <<x>> \o v \in Seq(I)
    BY <1>2, <1>5, ConcatProperties
  <2> QED
    BY <1>2, <2>1, ConcatProperties
<1> HIDE DEF before
<1>15. /\ before \o (a \o (<<x>> \o (<<y>> \o v))) = (before \o a) \o (<<x>> \o (<<y>> \o v))
       /\ before \o (a \o (<<y>> \o (<<x>> \o v))) = (before \o a) \o (<<y>> \o (<<x>> \o v))
  BY <1>0, <1>00, <1>4, <1>14, ZenonT(60)
<1>16. before \o a \in Seq(I)
  BY <1>0, <1>4, ConcatProperties
<1>17. \E u, w \in Seq(I) :
         /\ Flow(ch) = u \o (<<x>> \o (<<y>> \o w))
         /\ Flow(dh) = u \o (<<y>> \o (<<x>> \o w))
  BY <1>5, <1>10, <1>12, <1>13, <1>15, <1>16, Zenon
<1>18. dh = Swapped(ch, i)
  BY DEF dh, r, x, y, q, Swapped
<1>19. \E u, w \in Seq(I) : AreAround(u, w, ch, i)
  BY <1>17, <1>18, Zenon DEF AreAround, x, y, q
<1> QED
  BY <1>2, <1>11, <1>18, <1>19, Zenon DEF q, x, y

LEMMA FlowEdge ==
  ASSUME NEW I, Nothing \notin I, NEW ch, Well(ch, I), NEW from \in BOOLEAN, NEW to \in BOOLEAN
  PROVE  LET taken == Handshake(ch, to)
             dh == Drive(Collect(ch, taken), taken, from)
         IN  Well(dh, I) /\ Flow(dh) = Flow(ch)
<1> DEFINE taken == Handshake(ch, to)
           mid == Collect(ch, taken)
           dh == Drive(mid, taken, from)
           sink == ch.sink \o Signals(ch)
<1>0. /\ ch.sink \in Seq(I) /\ Signals(ch) \in Seq(I) /\ ch.queue \in Seq(I)
      /\ Signals(ch) \o ch.queue \in Seq(I) /\ ch \in Iface(I) /\ ch.valid \in BOOLEAN
      /\ ch.valid => ch.signals # Nothing
      /\ ch.signals # Nothing => ch.signals \in I
      /\ sink \in Seq(I)
  <2>1. ch.sink \in Seq(I) /\ Signals(ch) \in Seq(I)
    BY FlowIs
  <2>2. sink \in Seq(I)
    BY <2>1, ConcatProperties
  <2> QED
    BY <2>2, FlowIs DEF Well, Iface
<1>1. CASE ch.signals # Nothing /\ ~taken
  <2>1. mid = ch
    BY <1>1 DEF Collect
  <2>2. dh = [ch EXCEPT !.valid = @ \/ ~from]
    BY <1>1, <2>1 DEF Drive
  <2> HIDE DEF dh
  <2>3. Well(dh, I) /\ dh.sink = ch.sink /\ dh.signals = ch.signals /\ dh.queue = ch.queue
    BY <1>0, <1>1, <2>2 DEF Well, Iface
  <2>4. Flow(dh) = Flow(ch)
    BY <2>3, Zenon DEF Flow, Signals
  <2> QED
    BY <2>3, <2>4 DEF dh
<1>2. CASE ~(ch.signals # Nothing /\ ~taken)
  <2>1. mid \in Iface(I) /\ mid.signals = ch.signals /\ mid.queue = ch.queue /\ mid.sink = sink
    <3>1. CASE taken
      <4>1. ch.signals # Nothing /\ ch.signals \in I
        BY <1>0, <3>1 DEF Handshake
      <4>2. Signals(ch) = <<ch.signals>>
        BY <4>1 DEF Signals
      <4>3. Append(ch.sink, ch.signals) = sink
        BY <1>0, <4>1, <4>2, AppendIsConcat
      <4>4. mid = [ch EXCEPT !.sink = sink]
        BY <3>1, <4>3 DEF Collect
      <4> HIDE DEF mid, sink
      <4> QED
        BY <1>0, <4>4 DEF Iface
    <3>2. CASE ~taken
      <4>1. ch.signals = Nothing
        BY <1>2, <3>2
      <4>2. Signals(ch) = <<>>
        BY <4>1 DEF Signals
      <4>3. sink = ch.sink
        BY <1>0, <4>2, ConcatEmptySeq
      <4>4. mid = ch
        BY <3>2 DEF Collect
      <4> QED
        BY <1>0, <4>3, <4>4
    <3> QED
      BY <3>1, <3>2
  <2> HIDE DEF sink, mid
  <2>2. Flow(ch) = sink \o ch.queue
    <3>1. \A f, g, h \in Seq(I) : (f \o g) \o h = f \o (g \o h)
      BY ConcatAssociative
    <3> QED
      BY <1>0, <3>1, ZenonT(60) DEF Flow, sink
  <2>3. ~(mid.signals # Nothing /\ ~taken)
    BY <1>2, <2>1
  <2> HIDE DEF taken
  <2>4. CASE ch.queue = <<>>
    <3>1. dh = [mid EXCEPT !.signals = Nothing, !.valid = FALSE]
      BY <2>1, <2>3, <2>4 DEF Drive
    <3> HIDE DEF dh
    <3>2. Well(dh, I) /\ dh.sink = sink /\ dh.signals = Nothing /\ dh.queue = ch.queue
      BY <2>1, <3>1 DEF Well, Iface
    <3>3. Flow(dh) = sink \o (<<>> \o ch.queue)
      BY <3>2, Zenon DEF Flow, Signals
    <3>4. <<>> \o ch.queue = ch.queue
      BY <1>0, ConcatEmptySeq
    <3>5. Well(dh, I) /\ Flow(dh) = Flow(ch)
      BY <2>2, <3>2, <3>3, <3>4, Zenon
    <3> QED
      BY <3>5, Zenon DEF dh, mid, taken
  <2>5. CASE ch.queue # <<>>
    <3> DEFINE x == Head(ch.queue)
               t == Tail(ch.queue)
    <3>1. x \in I /\ t \in Seq(I) /\ ch.queue = <<x>> \o t
      BY <1>0, <2>5, HeadFirst
    <3>2. dh = [mid EXCEPT !.signals = x, !.valid = ~from, !.queue = t]
      BY <2>1, <2>3, <2>5 DEF Drive
    <3> HIDE DEF dh, x, t
    <3>3. x # Nothing
      BY <3>1
    <3>4. Well(dh, I) /\ dh.sink = sink /\ dh.signals = x /\ dh.queue = t
      BY <2>1, <3>1, <3>2, <3>3 DEF Well, Iface
    <3>5. Flow(dh) = sink \o (<<x>> \o t)
      BY <3>3, <3>4, Zenon DEF Flow, Signals
    <3>6. Well(dh, I) /\ Flow(dh) = Flow(ch)
      BY <2>2, <3>1, <3>4, <3>5, Zenon
    <3> QED
      BY <3>6, Zenon DEF dh, mid, taken
  <2> QED
    BY <2>4, <2>5
<1> QED
  BY <1>1, <1>2

---------------------------------------------------------------------------
(* Writing: the beats on their way are those of the bursts on theirs *)

InStep(A, W, n) ==
  /\ After(Bit, Each(EndsOf(Burst), A), n, Each(MarkOf(BeatIn), W))
  /\ A = <<>> => n = 0
  /\ A # <<>> => n < Head(A).length

LEMMA BurstIs ==
  ASSUME NEW b \in Burst
  PROVE  /\ b.length \in Nat /\ b.length > 0 /\ b.id \in Id /\ InOnePage(b)
         /\ EndsOf(Burst)[b] = Ends(b)
         /\ Ends(b) \in Seq(Bit) /\ Len(Ends(b)) = b.length
         /\ \A n \in 1 .. b.length : Ends(b)[n] = IF n = b.length THEN 1 ELSE 0
<1>1. b.length \in Nat /\ b.length > 0 /\ b.id \in Id /\ InOnePage(b) /\ EndsOf(Burst)[b] = Ends(b)
  BY DEF Burst, EndsOf
<1> QED
  BY <1>1, EndsAre

LEMMA WritePut ==
  ASSUME NEW A \in Seq(Burst), NEW W \in Seq(BeatIn), NEW n \in Nat, InStep(A, W, n),
         NEW bs \in Seq(Burst), NEW ws \in Seq(BeatIn), bs # <<>>,
         Each(EndsOf(Burst), bs) = Each(MarkOf(BeatIn), ws)
  PROVE  InStep(A \o bs, W \o ws, n)
<1> DEFINE f == EndsOf(Burst)
           g == MarkOf(BeatIn)
<1>1. f \in Lists(Burst, Bit) /\ g \in Lists(BeatIn, Bit)
  BY MarksAre
<1>2. After(Bit, Each(f, A), n, Each(g, W)) /\ Each(f, bs) = Each(g, ws)
  BY DEF InStep
<1> HIDE DEF f, g
<1>3. /\ Each(f, A) \in Seq(Bit) /\ Each(f, bs) \in Seq(Bit)
      /\ Each(f, A \o bs) = Each(f, A) \o Each(f, bs)
  BY <1>1, EachConcat
<1>4. /\ Each(g, W) \in Seq(Bit) /\ Each(g, W \o ws) = Each(g, W) \o Each(g, ws)
  BY <1>1, EachConcat
<1>5. After(Bit, Each(f, A) \o Each(f, bs), n, Each(g, W) \o Each(f, bs))
  BY <1>2, <1>3, <1>4, AfterPut
<1>6. After(Bit, Each(f, A \o bs), n, Each(g, W \o ws))
  BY <1>2, <1>3, <1>4, <1>5
<1>7. A \o bs # <<>> /\ n < Head(A \o bs).length
  <2>1. CASE A = <<>>
    <3>1. A \o bs = bs /\ n = 0
      BY <2>1, ConcatEmptySeq DEF InStep
    <3>2. Head(bs) \in Burst
      BY HeadTailProperties
    <3> QED
      BY <3>1, <3>2, BurstIs
  <2>2. CASE A # <<>>
    <3>1. A \o bs # <<>> /\ Head(A \o bs) = Head(A)
      BY <2>2, FirstMoves
    <3> QED
      BY <2>2, <3>1 DEF InStep
  <2> QED
    BY <2>1, <2>2
<1> QED
  BY <1>6, <1>7 DEF InStep, f, g

LEMMA WriteTake ==
  ASSUME NEW A \in Seq(Burst), NEW W \in Seq(BeatIn), NEW n \in Nat, InStep(A, W, n),
         A # <<>>, W # <<>>
  PROVE  /\ Head(W).last <=> n = Head(A).length - 1
         /\ n = Head(A).length - 1 => InStep(Tail(A), Tail(W), 0)
         /\ n # Head(A).length - 1 => InStep(A, Tail(W), n + 1)
<1> DEFINE f == EndsOf(Burst)
           g == MarkOf(BeatIn)
           b == Head(A)
           x == Head(W)
           s == Each(f, Tail(A))
           t == Each(g, Tail(W))
           m == IF x.last THEN 1 ELSE 0
<1>1. f \in Lists(Burst, Bit) /\ g \in Lists(BeatIn, Bit)
  BY MarksAre
<1>2. b \in Burst /\ x \in BeatIn /\ Tail(A) \in Seq(Burst) /\ Tail(W) \in Seq(BeatIn)
  BY HeadTailProperties
<1>3. After(Bit, Each(f, A), n, Each(g, W)) /\ n < b.length
  BY DEF InStep
<1>4. /\ b.length \in Nat /\ b.length > 0 /\ f[b] = Ends(b)
      /\ Ends(b) \in Seq(Bit) /\ Len(Ends(b)) = b.length
      /\ \A i \in 1 .. b.length : Ends(b)[i] = IF i = b.length THEN 1 ELSE 0
  BY <1>2, BurstIs
<1>5. g[x] = <<m>> /\ m \in Bit
  BY <1>2 DEF MarkOf, Bit
<1> HIDE DEF f, g
<1>6. s \in Seq(Bit) /\ Each(f, A) = Ends(b) \o s
  <2>1. Each(f, Tail(A)) \in Seq(Bit) /\ Each(f, A) = f[Head(A)] \o Each(f, Tail(A))
    BY <1>1, EachFirst
  <2> QED
    BY <1>4, <2>1
<1>7. t \in Seq(Bit) /\ Each(g, W) = <<m>> \o t /\ Each(g, W) \in Seq(Bit)
  <2>1. /\ Each(g, W) \in Seq(Bit) /\ Each(g, Tail(W)) \in Seq(Bit)
        /\ Each(g, W) = g[Head(W)] \o Each(g, Tail(W))
    BY <1>1, EachFirst
  <2> QED
    BY <1>5, <2>1
<1>8. Head(<<m>> \o t) = m /\ Tail(<<m>> \o t) = t
  <2>1. <<m>> \in Seq(Bit) /\ <<m>> # <<>> /\ Head(<<m>>) = m /\ Tail(<<m>>) = <<>>
    BY <1>5
  <2> HIDE DEF t, m
  <2>2. Head(<<m>> \o t) = Head(<<m>>) /\ Tail(<<m>> \o t) = Tail(<<m>>) \o t
    BY <1>7, <2>1, FirstMoves
  <2> QED
    BY <1>7, <2>1, <2>2, ConcatEmptySeq
<1> HIDE DEF m, s, t, b, x
<1>9. /\ Head(Each(g, W)) = Ends(b)[n + 1] 
      /\ n + 1 = Len(Ends(b)) => After(Bit, s, 0, Tail(Each(g, W)))
      /\ n + 1 # Len(Ends(b)) => After(Bit, Ends(b) \o s, n + 1, Tail(Each(g, W)))
  <2> DEFINE e == Ends(b)
             w == Each(g, W)
  <2>1. e \in Seq(Bit) /\ w \in Seq(Bit) /\ After(Bit, e \o s, n, w) /\ n < Len(e)
    BY <1>3, <1>4, <1>6, <1>7
  <2> HIDE DEF e, w
  <2>2. /\ Head(w) = e[n + 1]
        /\ n + 1 = Len(e) => After(Bit, s, 0, Tail(w))
        /\ n + 1 # Len(e) => After(Bit, e \o s, n + 1, Tail(w))
    BY <1>6, <2>1, AfterTake
  <2> QED
    BY <2>2 DEF e, w
<1>10. m = IF n = b.length - 1 THEN 1 ELSE 0
  <2>1. n + 1 \in 1 .. b.length /\ (n + 1 = b.length <=> n = b.length - 1)
    BY <1>3, <1>4
  <2> QED
    BY <1>4, <1>7, <1>8, <1>9, <2>1
<1>11. x.last <=> n = b.length - 1
  BY <1>10 DEF m
<1>12. ASSUME n = b.length - 1 PROVE InStep(Tail(A), Tail(W), 0)
  <2>1. n + 1 = Len(Ends(b))
    BY <1>4, <1>12
  <2>2. After(Bit, s, 0, t)
    BY <1>7, <1>8, <1>9, <2>1
  <2>3. Tail(A) # <<>> => 0 < Head(Tail(A)).length
    <3>1. ASSUME Tail(A) # <<>> PROVE 0 < Head(Tail(A)).length
      <4>1. Head(Tail(A)) \in Burst
        BY <1>2, <3>1, HeadTailProperties
      <4> QED
        BY <4>1, BurstIs
    <3> QED
      BY <3>1
  <2> QED
    BY <2>2, <2>3 DEF InStep, s, t, f, g
<1>13. ASSUME n # b.length - 1 PROVE InStep(A, Tail(W), n + 1)
  <2>1. n + 1 # Len(Ends(b)) /\ n + 1 < b.length
    BY <1>3, <1>4, <1>13
  <2>2. After(Bit, Each(f, A), n + 1, t)
    BY <1>6, <1>7, <1>8, <1>9, <2>1
  <2> QED
    BY <2>1, <2>2 DEF InStep, t, f, g, b
<1> QED
  BY <1>11, <1>12, <1>13 DEF b, x

---------------------------------------------------------------------------
(* Reading: with each id, the beats on their way are those the master waits for *)

\* The marks of the beats of a burst, or of a beat, if it has this id.
Due(id)  == [b \in Burst |-> IF b.id = id THEN Ends(b) ELSE <<>>]
Came(id) == [x \in BeatOut |-> IF x.id = id THEN <<IF x.last THEN 1 ELSE 0>> ELSE <<>>]

\* How many beats of the bursts d with this id were taken, if k were of the first burst.
Gone(d, k, id) == IF d # <<>> /\ Head(d).id = id THEN k ELSE 0

\* Of the bursts X the master waits for, those of A are still to be read from the memory;
\* R is what was read and k says how far the master is with the first.
Awaited(X, A, R, k) ==
  \E d \in Seq(Burst) :
    /\ X = d \o A
    /\ d = <<>> => k = 0
    /\ X # <<>> => k < Head(X).length
    /\ \A id \in Id : After(Bit, Each(Due(id), d), Gone(d, k, id), Each(Came(id), R))

LEMMA DueCame ==
  ASSUME NEW id
  PROVE  Due(id) \in Lists(Burst, Bit) /\ Came(id) \in Lists(BeatOut, Bit)
<1>1. \A b \in Burst : (IF b.id = id THEN Ends(b) ELSE <<>>) \in Seq(Bit)
  BY BurstIs, EmptySeq
<1>2. \A x \in BeatOut : (IF x.id = id THEN <<IF x.last THEN 1 ELSE 0>> ELSE <<>>) \in Seq(Bit)
  <2>1. \A x : <<IF x.last THEN 1 ELSE 0>> \in Seq(Bit)
    BY DEF Bit
  <2>2. <<>> \in Seq(Bit)
    BY EmptySeq
  <2> QED
    BY <2>1, <2>2
<1> QED
  BY <1>1, <1>2 DEF Due, Came, Lists

LEMMA DueConcat ==
  ASSUME NEW id
  PROVE  /\ \A a, c \in Seq(Burst) : /\ Each(Due(id), a) \in Seq(Bit)
                                     /\ Each(Due(id), a \o c) = Each(Due(id), a) \o Each(Due(id), c)
         /\ \A b \in Burst : Each(Due(id), <<b>>) = Due(id)[b] /\ Due(id)[b] \in Seq(Bit)
<1> DEFINE f == Due(id)
<1>1. f \in Lists(Burst, Bit)
  BY DueCame
<1> HIDE DEF f
<1>2. ASSUME NEW a \in Seq(Burst), NEW c \in Seq(Burst)
      PROVE  Each(f, a) \in Seq(Bit) /\ Each(f, a \o c) = Each(f, a) \o Each(f, c)
  BY <1>1, EachConcat
<1>3. ASSUME NEW b \in Burst PROVE Each(f, <<b>>) = f[b] /\ f[b] \in Seq(Bit)
  BY <1>1, EachOne DEF Lists
<1> QED
  BY <1>2, <1>3 DEF f

LEMMA CameConcat ==
  ASSUME NEW id
  PROVE  /\ \A a, c \in Seq(BeatOut) : /\ Each(Came(id), a) \in Seq(Bit)
                                       /\ Each(Came(id), a \o c) = Each(Came(id), a) \o Each(Came(id), c)
         /\ \A x \in BeatOut : Each(Came(id), <<x>>) = Came(id)[x] /\ Came(id)[x] \in Seq(Bit)
<1> DEFINE g == Came(id)
<1>1. g \in Lists(BeatOut, Bit)
  BY DueCame
<1> HIDE DEF g
<1>2. ASSUME NEW a \in Seq(BeatOut), NEW c \in Seq(BeatOut)
      PROVE  Each(g, a) \in Seq(Bit) /\ Each(g, a \o c) = Each(g, a) \o Each(g, c)
  BY <1>1, EachConcat
<1>3. ASSUME NEW x \in BeatOut PROVE Each(g, <<x>>) = g[x] /\ g[x] \in Seq(Bit)
  BY <1>1, EachOne DEF Lists
<1> QED
  BY <1>2, <1>3 DEF g

LEMMA Associative ==
  \A a, b, c \in Seq(Burst) : (a \o b) \o c = a \o (b \o c)
BY ConcatAssociative

LEMMA ReadAsk ==
  ASSUME NEW X \in Seq(Burst), NEW A \in Seq(Burst), NEW R, NEW k \in Nat, Awaited(X, A, R, k),
         NEW bs \in Seq(Burst)
  PROVE  Awaited(X \o bs, A \o bs, R, k)
<1>1. PICK d \in Seq(Burst) :
        /\ X = d \o A
        /\ d = <<>> => k = 0
        /\ X # <<>> => k < Head(X).length
        /\ \A id \in Id : After(Bit, Each(Due(id), d), Gone(d, k, id), Each(Came(id), R))
  BY DEF Awaited
<1>2. X \o bs = d \o (A \o bs)
  <2>1. (d \o A) \o bs = d \o (A \o bs)
    BY Associative, Zenon
  <2> QED
    BY <1>1, <2>1, Zenon
<1>3. X \o bs # <<>> => k < Head(X \o bs).length
  <2>1. CASE X # <<>>
    <3>1. Head(X \o bs) = Head(X)
      BY <2>1, FirstMoves
    <3> QED
      BY <1>1, <2>1, <3>1
  <2>2. CASE X = <<>> /\ bs # <<>>
    <3>0. d \o A = <<>>
      BY <1>1, <2>2
    <3>1. d = <<>>
      BY <3>0, ConcatSimplifications!concIsEmpty, Zenon
    <3>2. X \o bs = bs
      BY <2>2, ConcatEmptySeq
    <3>3. Head(bs) \in Burst
      BY <2>2, HeadTailProperties
    <3> QED
      BY <1>1, <3>1, <3>2, <3>3, BurstIs
  <2>3. CASE X = <<>> /\ bs = <<>>
    <3>1. X \o bs = <<>>
      BY <2>3, ConcatEmptySeq
    <3> QED
      BY <3>1
  <2> QED
    BY <2>1, <2>2, <2>3
<1> QED
  BY <1>1, <1>2, <1>3, Zenon DEF Awaited

LEMMA ReadServe ==
  ASSUME NEW X \in Seq(Burst), NEW A \in Seq(Burst), NEW R \in Seq(BeatOut), NEW k \in Nat,
         Awaited(X, A, R, k), A # <<>>, NEW beats \in Seq(BeatOut),
         \A id \in Id : Each(Came(id), beats) = Due(id)[Head(A)]
  PROVE  Awaited(X, Tail(A), R \o beats, k)
<1> DEFINE b == Head(A)
           t == Tail(A)
<1>1. PICK d \in Seq(Burst) :
        /\ X = d \o A
        /\ d = <<>> => k = 0
        /\ X # <<>> => k < Head(X).length
        /\ \A id \in Id : After(Bit, Each(Due(id), d), Gone(d, k, id), Each(Came(id), R))
  BY DEF Awaited
<1>2. /\ b \in Burst /\ t \in Seq(Burst) /\ A = <<b>> \o t /\ <<b>> \in Seq(Burst)
  BY HeadFirst
<1> HIDE DEF b, t
<1> DEFINE one == <<b>>
           e == d \o one
<1>3. one \in Seq(Burst) /\ e \in Seq(Burst)
  <2>1. one \in Seq(Burst)
    BY <1>2
  <2> HIDE DEF one
  <2> QED
    BY <2>1, ConcatProperties
<1>4. X = e \o t
  <2>0. d \in Seq(Burst) /\ one \in Seq(Burst) /\ t \in Seq(Burst)
    BY <1>2, <1>3
  <2> HIDE DEF one
  <2>1. (d \o one) \o t = d \o (one \o t)
    BY <2>0, Associative, Zenon
  <2> QED
    BY <1>1, <1>2, <2>1 DEF one
<1>5. e # <<>> /\ (d # <<>> => Head(e) = Head(d))
  <2>1. CASE d = <<>>
    <3>1. e = one
      BY <1>3, <2>1, ConcatEmptySeq
    <3> QED
      BY <2>1, <3>1
  <2>2. CASE d # <<>>
    <3> HIDE DEF one
    <3> QED
      BY <1>3, <2>2, FirstMoves
  <2> QED
    BY <2>1, <2>2
<1>6. ASSUME NEW id \in Id
      PROVE  After(Bit, Each(Due(id), e), Gone(e, k, id), Each(Came(id), R \o beats))
  <2> DEFINE f == Due(id)
             g == Came(id)
             p == Each(f, d)
             u == f[b]
             q == Each(g, R)
  <2>1. f \in Lists(Burst, Bit) /\ g \in Lists(BeatOut, Bit)
    BY DueCame
  <2>2. After(Bit, p, Gone(d, k, id), q) /\ Each(g, beats) = u
    BY <1>1 DEF b
  <2> HIDE DEF f, g
  <2>3. Each(f, one) = u
    BY <1>2, DueConcat, Zenon DEF f
  <2> HIDE DEF one, u
  <2>4. p \in Seq(Bit) /\ Each(f, one) \in Seq(Bit) /\ Each(f, e) = p \o Each(f, one)
    BY <1>3, DueConcat, Zenon DEF f
  <2>5. q \in Seq(Bit) /\ Each(g, R \o beats) = q \o Each(g, beats)
    BY CameConcat, Zenon DEF g
  <2> HIDE DEF p, q
  <2>6. After(Bit, p \o u, Gone(d, k, id), q \o u)
    BY <2>2, <2>3, <2>4, <2>5, AfterPut
  <2>7. Gone(e, k, id) = Gone(d, k, id)
    BY <1>1, <1>5 DEF Gone
  <2> QED
    BY <2>2, <2>3, <2>4, <2>5, <2>6, <2>7 DEF f, g
<1> HIDE DEF e
<1> QED
  BY <1>1, <1>3, <1>4, <1>5, <1>6, Zenon DEF Awaited, t

LEMMA ReadSwap ==
  ASSUME NEW X, NEW A, NEW k,
         NEW u \in Seq(BeatOut), NEW x \in BeatOut, NEW y \in BeatOut, NEW v \in Seq(BeatOut),
         x.id # y.id, Awaited(X, A, u \o (<<x>> \o (<<y>> \o v)), k)
  PROVE  Awaited(X, A, u \o (<<y>> \o (<<x>> \o v)), k)
<1> DEFINE R == u \o (<<x>> \o (<<y>> \o v))
           S == u \o (<<y>> \o (<<x>> \o v))
<1>1. ASSUME NEW id \in Id PROVE Each(Came(id), S) = Each(Came(id), R)
  <2> DEFINE g == Came(id)
  <2>1. g \in Lists(BeatOut, Bit) /\ (g[x] = <<>> \/ g[y] = <<>>)
    <3>1. g[x] = <<>> \/ g[y] = <<>>
      BY DEF Came
    <3> QED
      BY <3>1, DueCame
  <2> HIDE DEF g
  <2>2. Each(g, S) = Each(g, R)
    BY <2>1, EachSwap
  <2> QED
    BY <2>2 DEF g
<1> HIDE DEF R, S
<1>2. Awaited(X, A, R, k)
  BY DEF R
<1>3. Awaited(X, A, S, k)
  BY <1>1, <1>2 DEF Awaited
<1> QED
  BY <1>3 DEF S

\* A beat or a burst of another id changes nothing for this one.
LEMMA OtherId ==
  ASSUME NEW id, NEW u \in Seq(BeatOut), NEW x \in BeatOut, NEW v \in Seq(BeatOut), x.id # id
  PROVE  Each(Came(id), u \o (<<x>> \o v)) = Each(Came(id), u \o v)
<1> DEFINE g == Came(id)
<1>1. g \in Lists(BeatOut, Bit) /\ g[x] = <<>>
  <2>1. g[x] = <<>>
    BY DEF Came
  <2> QED
    BY <2>1, DueCame
<1> HIDE DEF g
<1>2. Each(g, u \o (<<x>> \o v)) = Each(g, u \o v)
  BY <1>1, EachSkip
<1> QED
  BY <1>2 DEF g

LEMMA OtherBurst ==
  ASSUME NEW id, NEW d \in Seq(Burst), d # <<>>, Head(d).id # id
  PROVE  Each(Due(id), d) = Each(Due(id), Tail(d))
<1> DEFINE f == Due(id)
<1>1. f \in Lists(Burst, Bit) /\ f[Head(d)] = <<>>
  <2>1. Head(d) \in Burst
    BY HeadTailProperties
  <2>2. f[Head(d)] = <<>>
    BY <2>1 DEF Due
  <2> QED
    BY <2>2, DueCame
<1> HIDE DEF f
<1>2. Each(f, Tail(d)) \in Seq(Bit) /\ Each(f, d) = f[Head(d)] \o Each(f, Tail(d))
  BY <1>1, EachFirst
<1>3. Each(f, d) = Each(f, Tail(d))
  BY <1>1, <1>2, ConcatEmptySeq
<1> QED
  BY <1>3 DEF f

\* The first beat of an id is the next of the burst that waits for it.
LEMMA OwnId ==
  ASSUME NEW d \in Seq(Burst), NEW k \in Nat,
         NEW u \in Seq(BeatOut), NEW x \in BeatOut, NEW v \in Seq(BeatOut),
         d # <<>> => Head(d).id = x.id /\ k < Head(d).length,
         \A i \in 1 .. Len(u) : u[i].id # x.id,
         After(Bit, Each(Due(x.id), d), Gone(d, k, x.id), Each(Came(x.id), u \o (<<x>> \o v)))
  PROVE  /\ d # <<>>
         /\ x.last <=> k + 1 = Head(d).length
         /\ k + 1 = Head(d).length =>
              After(Bit, Each(Due(x.id), Tail(d)), 0, Each(Came(x.id), u \o v))
         /\ k + 1 # Head(d).length =>
              After(Bit, Each(Due(x.id), d), k + 1, Each(Came(x.id), u \o v))
<1> DEFINE id == x.id
           f == Due(id)
           g == Came(id)
           m == IF x.last THEN 1 ELSE 0
           e == Each(g, v)
           b == Head(d)
           s == Each(f, Tail(d))
           t == <<m>> \o e
<1>1. f \in Lists(Burst, Bit) /\ g \in Lists(BeatOut, Bit)
  BY DueCame
<1>2. g[x] = <<m>> /\ m \in Bit
  BY DEF Came, Bit
<1>3. \A i \in 1 .. Len(u) : g[u[i]] = <<>>
  <2>1. ASSUME NEW i \in 1 .. Len(u) PROVE g[u[i]] = <<>>
    <3>1. u[i] \in BeatOut /\ u[i].id # id
      BY ElementOfSeq
    <3> QED
      BY <3>1 DEF Came
  <2> QED
    BY <2>1
<1>4. /\ d # <<>> => b \in Burst /\ f[b] = Ends(b)
  <2>1. ASSUME d # <<>> PROVE b \in Burst /\ f[b] = Ends(b)
    <3>1. b \in Burst /\ b.id = id
      BY <2>1, HeadTailProperties
    <3> QED
      BY <3>1 DEF Due
  <2> QED
    BY <2>1
<1>5. After(Bit, Each(f, d), Gone(d, k, id), Each(g, u \o (<<x>> \o v)))
  OBVIOUS
<1>6. d # <<>> => Gone(d, k, id) = k
  BY DEF Gone
<1>7. d = <<>> => Gone(d, k, id) = 0
  BY DEF Gone
<1> HIDE DEF f, g, id
<1>8. Each(g, u) = <<>>
  BY <1>1, <1>3, EachNone
<1>9. Each(g, u \o (<<x>> \o v)) = t /\ Each(g, u \o v) = e /\ e \in Seq(Bit)
  <2>1. /\ Each(g, u \o (<<x>> \o v)) = g[x] \o Each(g, v)
        /\ Each(g, u \o v) = Each(g, v) /\ Each(g, v) \in Seq(Bit) /\ g[x] \in Seq(Bit)
    <3> HIDE DEF e, m, b, s, t
    <3> QED
      BY <1>1, <1>8, EachNext, ZenonT(60)
  <2> QED
    BY <1>2, <2>1
<1> HIDE DEF e, m
<1>10. t \in Seq(Bit) /\ t # <<>> /\ Head(t) = m /\ Tail(t) = e
  <2>1. <<m>> \in Seq(Bit) /\ <<m>> # <<>> /\ Head(<<m>>) = m /\ Tail(<<m>>) = <<>>
    BY <1>2
  <2>2. /\ <<m>> \o e \in Seq(Bit) /\ <<m>> \o e # <<>>
        /\ Head(<<m>> \o e) = Head(<<m>>) /\ Tail(<<m>> \o e) = Tail(<<m>>) \o e
    BY <1>9, <2>1, FirstMoves
  <2> QED
    BY <1>9, <2>1, <2>2, ConcatEmptySeq
<1> HIDE DEF t, s, b
<1>11. d # <<>>
  <2>1. SUFFICES ASSUME d = <<>> PROVE FALSE
    OBVIOUS
  <2>2. Each(f, d) = <<>>
    BY <1>1, <2>1, EachOne
  <2>3. After(Bit, <<>>, 0, t)
    BY <1>5, <1>7, <1>9, <2>1, <2>2
  <2>4. <<>> \in Seq(Bit)
    BY EmptySeq
  <2> QED
    BY <1>10, <2>3, <2>4, AfterNone
<1>12. /\ s \in Seq(Bit) /\ Each(f, d) = Ends(b) \o s
       /\ b \in Burst /\ k < b.length
  <2>1. Each(f, Tail(d)) \in Seq(Bit) /\ Each(f, d) = f[Head(d)] \o Each(f, Tail(d))
    BY <1>1, <1>11, EachFirst
  <2> QED
    BY <1>4, <1>11, <2>1 DEF s, b
<1>13. /\ b.length \in Nat /\ Ends(b) \in Seq(Bit) /\ Len(Ends(b)) = b.length
       /\ \A i \in 1 .. b.length : Ends(b)[i] = IF i = b.length THEN 1 ELSE 0
  BY <1>12, BurstIs
<1>14. After(Bit, Ends(b) \o s, k, t)
  BY <1>5, <1>6, <1>9, <1>11, <1>12
<1>15. /\ m = Ends(b)[k + 1]
       /\ k + 1 = b.length => After(Bit, s, 0, e)
       /\ k + 1 # b.length => After(Bit, Ends(b) \o s, k + 1, e)
  <2> DEFINE z == Ends(b)
  <2>1. z \in Seq(Bit) /\ After(Bit, z \o s, k, t) /\ k < Len(z) /\ Len(z) = b.length
    BY <1>12, <1>13, <1>14
  <2> HIDE DEF z
  <2>2. /\ Head(t) = z[k + 1]
        /\ k + 1 = Len(z) => After(Bit, s, 0, Tail(t))
        /\ k + 1 # Len(z) => After(Bit, z \o s, k + 1, Tail(t))
    BY <1>10, <1>12, <2>1, AfterTake, SMTT(30)
  <2> QED
    BY <1>10, <2>1, <2>2 DEF z
<1>16. x.last <=> k + 1 = b.length
  <2>1. k + 1 \in 1 .. b.length
    BY <1>12, <1>13
  <2>2. m = IF k + 1 = b.length THEN 1 ELSE 0
    BY <1>13, <1>15, <2>1
  <2> QED
    BY <2>2 DEF m
<1> QED
  BY <1>9, <1>11, <1>12, <1>15, <1>16 DEF b, s, f, g, id

LEMMA ReadTake ==
  ASSUME NEW X \in Seq(Burst), NEW A \in Seq(Burst), NEW k \in Nat, X # <<>>,
         NEW u \in Seq(BeatOut), NEW x \in BeatOut, NEW v \in Seq(BeatOut),
         x.id = Head(X).id, \A i \in 1 .. Len(u) : u[i].id # x.id,
         Awaited(X, A, u \o (<<x>> \o v), k)
  PROVE  /\ x.last <=> k + 1 = Head(X).length
         /\ k + 1 = Head(X).length => Awaited(Tail(X), A, u \o v, 0)
         /\ k + 1 # Head(X).length => Awaited(X, A, u \o v, k + 1)
<1> DEFINE R == u \o (<<x>> \o v)
           S == u \o v
           b == Head(X)
<1>1. PICK d \in Seq(Burst) :
        /\ X = d \o A
        /\ d = <<>> => k = 0
        /\ X # <<>> => k < Head(X).length
        /\ \A id \in Id : After(Bit, Each(Due(id), d), Gone(d, k, id), Each(Came(id), R))
  BY DEF Awaited
<1>2. b \in Burst /\ x.id = b.id /\ b.id \in Id /\ Tail(X) \in Seq(Burst)
  <2>1. b \in Burst /\ Tail(X) \in Seq(Burst)
    BY HeadTailProperties
  <2> QED
    BY <2>1, BurstIs DEF Burst
<1>3. d # <<>> => Head(d) = b /\ Tail(X) = Tail(d) \o A /\ Tail(d) \in Seq(Burst)
  <2>1. ASSUME d # <<>> PROVE Head(d \o A) = Head(d) /\ Tail(d \o A) = Tail(d) \o A
    BY <2>1, FirstMoves, SMTT(30)
  <2>2. ASSUME d # <<>> PROVE Tail(d) \in Seq(Burst)
    BY <2>2, HeadTailProperties
  <2> QED
    BY <1>1, <2>1, <2>2
<1>4. \A id \in Id : id # x.id => Each(Came(id), S) = Each(Came(id), R)
  BY OtherId
<1>5. After(Bit, Each(Due(x.id), d), Gone(d, k, x.id), Each(Came(x.id), R))
  BY <1>1, <1>2, Zenon
<1>6. d # <<>> => Head(d).id = x.id /\ k < Head(d).length
  BY <1>1, <1>2, <1>3
<1>7. /\ d # <<>>
      /\ x.last <=> k + 1 = Head(d).length
      /\ k + 1 = Head(d).length =>
           After(Bit, Each(Due(x.id), Tail(d)), 0, Each(Came(x.id), u \o v))
      /\ k + 1 # Head(d).length =>
           After(Bit, Each(Due(x.id), d), k + 1, Each(Came(x.id), u \o v))
  BY <1>5, <1>6, OwnId, Zenon
<1> HIDE DEF R, S, b
<1>8. ASSUME k + 1 = b.length PROVE Awaited(Tail(X), A, S, 0)
  <2>1. ASSUME NEW id \in Id
        PROVE  After(Bit, Each(Due(id), Tail(d)), Gone(Tail(d), 0, id), Each(Came(id), S))
    <3>0. Gone(Tail(d), 0, id) = 0
      BY DEF Gone
    <3>1. CASE id = x.id
      <4>1. After(Bit, Each(Due(x.id), Tail(d)), 0, Each(Came(x.id), S))
        BY <1>3, <1>7, <1>8 DEF S
      <4> QED
        BY <3>0, <3>1, <4>1
    <3>2. CASE id # x.id
      <4>1. After(Bit, Each(Due(id), d), Gone(d, k, id), Each(Came(id), S))
        BY <1>1, <1>4, <3>2
      <4>2. Gone(d, k, id) = 0
        BY <1>2, <1>3, <1>7, <3>2 DEF Gone
      <4>3. Each(Due(id), d) = Each(Due(id), Tail(d))
        BY <1>2, <1>3, <1>7, <3>2, OtherBurst
      <4> QED
        BY <3>0, <4>1, <4>2, <4>3
    <3> QED
      BY <3>1, <3>2
  <2>2. Tail(X) # <<>> => 0 < Head(Tail(X)).length
    <3>1. ASSUME Tail(X) # <<>> PROVE 0 < Head(Tail(X)).length
      <4>1. Head(Tail(X)) \in Burst
        BY <1>2, <3>1, HeadTailProperties
      <4> QED
        BY <4>1, BurstIs
    <3> QED
      BY <3>1
  <2>3. Tail(d) \in Seq(Burst) /\ Tail(X) = Tail(d) \o A
    BY <1>3, <1>7
  <2> QED
    BY <2>1, <2>2, <2>3, Zenon DEF Awaited
<1>9. ASSUME k + 1 # b.length PROVE Awaited(X, A, S, k + 1)
  <2>1. ASSUME NEW id \in Id
        PROVE  After(Bit, Each(Due(id), d), Gone(d, k + 1, id), Each(Came(id), S))
    <3>1. CASE id = x.id
      <4>1. After(Bit, Each(Due(x.id), d), k + 1, Each(Came(x.id), S))
        BY <1>3, <1>7, <1>9 DEF S
      <4>2. Gone(d, k + 1, id) = k + 1
        BY <1>2, <1>3, <1>7, <3>1 DEF Gone
      <4> QED
        BY <3>1, <4>1, <4>2
    <3>2. CASE id # x.id
      <4>1. After(Bit, Each(Due(id), d), Gone(d, k, id), Each(Came(id), S))
        BY <1>1, <1>4, <3>2
      <4>2. Gone(d, k, id) = 0 /\ Gone(d, k + 1, id) = 0
        BY <1>2, <1>3, <1>7, <3>2 DEF Gone
      <4> QED
        BY <4>1, <4>2
    <3> QED
      BY <3>1, <3>2
  <2>2. k + 1 < Head(X).length
    <3>1. k < b.length /\ b.length \in Nat
      BY <1>1, <1>2, BurstIs DEF b
    <3> QED
      BY <1>9, <3>1 DEF b
  <2> QED
    BY <1>1, <1>7, <2>1, <2>2, Zenon DEF Awaited
<1> QED
  BY <1>3, <1>7, <1>8, <1>9 DEF S, b

---------------------------------------------------------------------------
(* The memory *)

LEMMA CellIs ==
  ASSUME NEW b \in Burst, NEW n \in Nat, NEW j \in Nat
  PROVE  Cell(b, n, j) \in 0 .. Size - 1
<1> DEFINE m == b.addr + n * b.num_bytes
           w == m \div BW
<1>1. m \in Nat
  BY DEF Burst
<1>2. w \in Nat
  BY <1>1, Sizes, Remainder
<1> HIDE DEF w
<1>3. w * BW + j \in Nat
  BY <1>2, Sizes
<1>4. (w * BW + j) % Size \in 0 .. Size - 1
  BY <1>3, Sizes, Remainder
<1> QED
  BY <1>4 DEF Cell, WordAddr, w

\* The beats of a burst that is read.
BeatRead(b, m, n) == [data |-> [j \in Lane |-> m[Cell(b, n - 1, j)]],
                      id |-> b.id, last |-> n = b.length]
BeatsRead(b, m)   == [n \in 1 .. b.length |-> BeatRead(b, m, n)]

LEMMA BeatsReadAre ==
  ASSUME NEW b \in Burst, NEW m \in [0 .. Size - 1 -> Val]
  PROVE  /\ BeatsRead(b, m) \in Seq(BeatOut)
         /\ \A id \in Id : Each(Came(id), BeatsRead(b, m)) = Due(id)[b]
<1> DEFINE s == BeatsRead(b, m)
<1>1. /\ b.length \in Nat /\ b.id \in Id /\ Ends(b) \in Seq(Bit) /\ Len(Ends(b)) = b.length
      /\ \A n \in 1 .. b.length : Ends(b)[n] = IF n = b.length THEN 1 ELSE 0
  BY BurstIs
<1>2. ASSUME NEW n \in 1 .. b.length
      PROVE  /\ BeatRead(b, m, n) \in BeatOut
             /\ BeatRead(b, m, n).id = b.id /\ (BeatRead(b, m, n).last <=> n = b.length)
  <2> DEFINE g == [j \in Lane |-> m[Cell(b, n - 1, j)]]
  <2>1. g \in [Lane -> Val]
    <3>1. ASSUME NEW j \in Lane PROVE m[Cell(b, n - 1, j)] \in Val
      <4>1. n - 1 \in Nat /\ j \in Nat
        BY <1>1, Sizes DEF Lane
      <4>2. Cell(b, n - 1, j) \in 0 .. Size - 1
        BY <4>1, CellIs
      <4> QED
        BY <4>2
    <3> QED
      BY <3>1
  <2> DEFINE z == n = b.length
             y == [data |-> g, id |-> b.id, last |-> z]
  <2>2. BeatRead(b, m, n) = y /\ z \in BOOLEAN
    BY Zenon DEF BeatRead
  <2> HIDE DEF g, z
  <2>3. y \in BeatOut /\ y.id = b.id
    BY <1>1, <2>1, <2>2 DEF BeatOut
  <2>4. y.last = z
    BY Zenon
  <2> HIDE DEF y
  <2> QED
    BY <2>2, <2>3, <2>4, Zenon DEF z
<1>3. s = [n \in 1 .. b.length |-> BeatRead(b, m, n)]
  BY DEF BeatsRead
<1> HIDE DEF s
<1>4. s \in Seq(BeatOut) /\ Len(s) = b.length
  BY <1>1, <1>2, <1>3
<1>5. \A n \in 1 .. b.length : s[n] \in BeatOut /\ s[n].id = b.id /\ (s[n].last <=> n = b.length)
  BY <1>2, <1>3
<1> HIDE DEF s
<1>6. ASSUME NEW id \in Id PROVE Each(Came(id), s) = Due(id)[b]
  <2> DEFINE g == Came(id)
             t == Ends(b)
  <2>1. g \in Lists(BeatOut, Bit)
    BY DueCame
  <2>2. CASE id = b.id
    <3>1. \A n \in 1 .. Len(s) : g[s[n]] = <<t[n]>>
      <4>1. ASSUME NEW n \in 1 .. b.length PROVE g[s[n]] = <<t[n]>>
        <5>1. g[s[n]] = <<IF s[n].last THEN 1 ELSE 0>>
          BY <1>5, <2>2 DEF Came
        <5>2. (IF s[n].last THEN 1 ELSE 0) = t[n]
          BY <1>1, <1>5
        <5> QED
          BY <5>1, <5>2
      <4> QED
        BY <1>4, <4>1
    <3>2. t \in Seq(Bit) /\ Len(t) = Len(s)
      BY <1>1, <1>4
    <3>3. Due(id)[b] = t
      BY <2>2 DEF Due
    <3> HIDE DEF g, t
    <3>4. Each(g, s) = t
      BY <1>4, <2>1, <3>1, <3>2, EachSingle
    <3> QED
      BY <3>3, <3>4 DEF g
  <2>3. CASE id # b.id
    <3>1. \A n \in 1 .. Len(s) : g[s[n]] = <<>>
      BY <1>4, <1>5, <2>3 DEF Came
    <3>2. Due(id)[b] = <<>>
      BY <2>3 DEF Due
    <3> HIDE DEF g
    <3>3. Each(g, s) = <<>>
      BY <1>4, <2>1, <3>1, EachNone
    <3> QED
      BY <3>2, <3>3 DEF g
  <2> QED
    BY <2>2, <2>3
<1> QED
  BY <1>4, <1>6 DEF s

\* Data written to some of the memory's cells.
Stored(m, data, b, n) == [a \in DOMAIN m |-> IF \E j \in DOMAIN data : a = Cell(b, n, j)
                                             THEN data[CHOOSE j \in DOMAIN data : a = Cell(b, n, j)]
                                             ELSE m[a]]

LEMMA StoredIs ==
  ASSUME NEW m \in [0 .. Size - 1 -> Val], NEW data \in Data, NEW b, NEW n
  PROVE  Stored(m, data, b, n) \in [0 .. Size - 1 -> Val]
<1> SUFFICES ASSUME NEW a \in 0 .. Size - 1
             PROVE  (IF \E j \in DOMAIN data : a = Cell(b, n, j)
                     THEN data[CHOOSE j \in DOMAIN data : a = Cell(b, n, j)] ELSE m[a]) \in Val
  BY DEF Stored
<1>1. CASE \E j \in DOMAIN data : a = Cell(b, n, j)
  <2> DEFINE i == CHOOSE j \in DOMAIN data : a = Cell(b, n, j)
  <2>1. i \in DOMAIN data
    BY <1>1, Zenon
  <2>2. PICK D \in SUBSET Int : data \in [D -> Val]
    BY DEF Data
  <2> HIDE DEF i
  <2>3. data[i] \in Val
    BY <2>1, <2>2
  <2> QED
    BY <1>1, <2>3 DEF i
<1>2. CASE ~ \E j \in DOMAIN data : a = Cell(b, n, j)
  BY <1>2
<1> QED
  BY <1>1, <1>2

---------------------------------------------------------------------------
(* The invariant *)

\* A read the master waits for: the bursts it has yet to take, and how many beats it has
\* of the first of them.
Reading == {at \in [call : Nat, burst_list : Seq(Burst), k : Nat, beats : Nat, data : Seq(Val)] :
              at.burst_list # <<>>}

BurstList == [at \in Reading |-> at.burst_list]

Reads   == int_read_resp_command_queue
ReadSoFar(q) == IF q = <<>> THEN 0 ELSE Head(q).k

Asking == /\ calls \in Seq(Calls)
          /\ write_command_queue \in Seq(1 .. Len(calls))
          /\ read_command_queue \in Seq(1 .. Len(calls))
          /\ cur_write_id \in Id /\ cur_read_id \in Id

Channelling == /\ chan = [c \in Channels |-> chan[c]]
               /\ Well(chan.aw, Burst) /\ Well(chan.w, BeatIn) /\ Well(chan.b, Response)
               /\ Well(chan.ar, Burst) /\ Well(chan.r, BeatOut)

Storing == served \in Nat /\ mem \in [0 .. Size - 1 -> Val]

\* The first read may be under way, the others wait behind it.
Waiting == /\ Reads \in Seq(Reading)
           /\ \A i \in 1 .. Len(Reads) : Reads[i].call \in 1 .. Len(calls) /\ (i # 1 => Reads[i].k = 0)

InFlight == /\ InStep(Flow(chan.aw), Flow(chan.w), served)
            /\ Awaited(Each(BurstList, Reads), Flow(chan.ar), Flow(chan.r), ReadSoFar(Reads))

Inv == Asking /\ Channelling /\ Storing /\ Waiting /\ InFlight

\* No item is the absence of one.
LEMMA NothingIs == /\ Nothing \notin Burst /\ Nothing \notin BeatIn /\ Nothing \notin BeatOut
                   /\ Nothing \notin Response
BY DEF Nothing, Burst, BeatIn, BeatOut, Response

\* The bursts of the first read, and those behind them.
LEMMA ReadsAre ==
  ASSUME NEW q \in Seq(Reading)
  PROVE  /\ Each(BurstList, q) \in Seq(Burst) /\ ReadSoFar(q) \in Nat
         /\ q = <<>> => Each(BurstList, q) = <<>>
         /\ q # <<>> =>
              /\ Head(q) \in Reading /\ ReadSoFar(q) = Head(q).k
              /\ Head(q).burst_list \in Seq(Burst) /\ Head(q).burst_list # <<>>
              /\ Tail(q) \in Seq(Reading) /\ Each(BurstList, Tail(q)) \in Seq(Burst)
              /\ Each(BurstList, q) = Head(q).burst_list \o Each(BurstList, Tail(q))
              /\ Each(BurstList, q) # <<>>
              /\ Head(Each(BurstList, q)) = Head(Head(q).burst_list)
              /\ Tail(Each(BurstList, q)) = Tail(Head(q).burst_list) \o Each(BurstList, Tail(q))
<1> DEFINE f == BurstList
           t == Tail(q)
           l == Head(q).burst_list
<1>1. /\ f \in Lists(Reading, Burst)
      /\ \A at \in Reading : f[at] = at.burst_list /\ at.burst_list \in Seq(Burst)
                             /\ at.burst_list # <<>> /\ at.k \in Nat
  BY DEF BurstList, Reading, Lists
<1> HIDE DEF f
<1>2. CASE q = <<>>
  <2>1. Each(f, q) = <<>>
    BY <1>1, <1>2, EachOne
  <2>2. <<>> \in Seq(Burst)
    BY EmptySeq
  <2> QED
    BY <1>2, <2>1, <2>2 DEF ReadSoFar, f
<1>3. CASE q # <<>>
  <2>1. Head(q) \in Reading /\ t \in Seq(Reading)
    BY <1>3, HeadTailProperties
  <2>2. ReadSoFar(q) = Head(q).k /\ Head(q).k \in Nat /\ f[Head(q)] = l /\ l \in Seq(Burst) /\ l # <<>>
    BY <1>1, <1>3, <2>1 DEF ReadSoFar
  <2>3. /\ Each(f, q) \in Seq(Burst) /\ Each(f, t) \in Seq(Burst)
        /\ Each(f, q) = f[Head(q)] \o Each(f, t)
    BY <1>1, <1>3, EachFirst
  <2> DEFINE e == Each(f, t)
  <2> HIDE DEF l, e
  <2>4. l \o e # <<>> /\ Head(l \o e) = Head(l) /\ Tail(l \o e) = Tail(l) \o e
    BY <2>2, <2>3, FirstMoves DEF e
  <2> QED
    BY <1>3, <2>1, <2>2, <2>3, <2>4 DEF f, l, t, e
<1> QED
  BY <1>2, <1>3

\* The beat the first read takes.
LEMMA BeatTaken ==
  ASSUME Inv, Reads # <<>>, NEW i \in BeatOf(Head(Head(Reads).burst_list).id)
  PROVE  LET at == Head(Reads)
             b  == Head(at.burst_list)
             X  == Each(BurstList, Reads)
             A  == Flow(chan.ar)
             dh == Without(chan.r, i)
         IN  /\ Well(dh, BeatOut) /\ chan.r.sink[i] \in BeatOut
             /\ chan.r.sink[i].last <=> at.k + 1 = b.length
             /\ at.k + 1 = b.length => Awaited(Tail(X), A, Flow(dh), 0)
             /\ at.k + 1 # b.length => Awaited(X, A, Flow(dh), at.k + 1)
<1> DEFINE at == Head(Reads)
           b  == Head(at.burst_list)
           X  == Each(BurstList, Reads)
           A  == Flow(chan.ar)
           s  == chan.r.sink
           x  == s[i]
           u  == SubSeq(s, 1, i - 1)
           dh == Without(chan.r, i)
<1>1. i \in 1 .. Len(s) /\ x.id = b.id /\ \A j \in 1 .. i - 1 : s[j].id # b.id
  BY DEF BeatOf
<1>2. Well(chan.r, BeatOut) /\ Well(chan.ar, Burst)
  BY DEF Inv, Channelling
<1>3. /\ Well(dh, BeatOut) /\ x \in BeatOut
      /\ \E v \in Seq(BeatOut) : Flow(chan.r) = u \o (<<x>> \o v) /\ Flow(dh) = u \o v
  <2> DEFINE ch == chan.r
  <2>1. Well(ch, BeatOut) /\ i \in 1 .. Len(ch.sink)
    BY <1>1, <1>2
  <2> HIDE DEF ch
  <2>2. /\ Well(Without(ch, i), BeatOut)
        /\ ch.sink[i] \in BeatOut
        /\ \E v \in Seq(BeatOut) :
             IsBehind(v, ch, i)
    BY <2>1, FlowRemove
  <2> QED
    BY <2>2 DEF ch, IsBehind
<1>4. A \in Seq(Burst) /\ s \in Seq(BeatOut)
  BY <1>2, FlowIs
<1>5. u \in Seq(BeatOut) /\ \A j \in 1 .. Len(u) : u[j].id # x.id
  <2>0. Len(s) \in Nat
    BY <1>4, LenProperties
  <2>1. u \in Seq(BeatOut) /\ Len(u) = i - 1 /\ \A j \in 1 .. i - 1 : u[j] = s[j]
    <3>1. i - 1 \in 0 .. Len(s)
      BY <1>1, <2>0
    <3>2. Len(u) = i - 1 /\ u \in Seq(BeatOut)
      BY <1>1, <1>4, <2>0, <3>1, SubSeqProperties, AtPlace
    <3>3. \A j \in 1 .. i - 1 : u[j] = s[j]
      BY <1>1, <1>4, <2>0, <3>1, SubSeqProperties
    <3> QED
      BY <3>2, <3>3
  <2> QED
    BY <1>1, <2>1
<1>6. /\ X \in Seq(Burst) /\ X # <<>> /\ Head(X) = b /\ at.k \in Nat /\ ReadSoFar(Reads) = at.k
  <2>1. Reads \in Seq(Reading)
    BY DEF Inv, Waiting
  <2> QED
    BY <2>1, ReadsAre
<1>7. Awaited(X, A, Flow(chan.r), at.k)
  BY <1>6 DEF Inv, InFlight
<1>8. PICK v \in Seq(BeatOut) : Flow(chan.r) = u \o (<<x>> \o v) /\ Flow(dh) = u \o v
  BY <1>3, Zenon
<1> HIDE DEF u, x, s, A, X, dh, at, b
<1> DEFINE k == at.k
<1>9. k \in Nat /\ Awaited(X, A, u \o (<<x>> \o v), k) /\ x.id = Head(X).id
  BY <1>1, <1>6, <1>7, <1>8
<1> HIDE DEF k
<1>10. /\ x.last <=> k + 1 = Head(X).length
       /\ k + 1 = Head(X).length => Awaited(Tail(X), A, u \o v, 0)
       /\ k + 1 # Head(X).length => Awaited(X, A, u \o v, k + 1)
  BY <1>3, <1>4, <1>5, <1>6, <1>9, ReadTake, Zenon
<1> QED
  BY <1>3, <1>6, <1>8, <1>10, Zenon DEF u, x, s, A, X, dh, at, b, k

\* The invariant gives the assertions.
LEMMA Safe == Inv => AssertsHold
<1> SUFFICES ASSUME Inv PROVE AssertsHold
  OBVIOUS
<1> USE DEF Inv
<1>1. ASSUME NEW c \in {"aw", "ar"}, NEW i \in 1 .. Len(chan[c].sink)
      PROVE  InOnePage(chan[c].sink[i])
  <2>1. chan[c].sink \in Seq(Burst)
    BY FlowIs DEF Channelling
  <2>2. chan[c].sink[i] \in Burst
    BY <2>1, ElementOfSeq
  <2> QED
    BY <2>2, BurstIs
<1>2. ASSUME chan.aw.sink # <<>>, chan.w.sink # <<>>
      PROVE  Head(chan.w.sink).last <=> served = Head(chan.aw.sink).length - 1
  <2>1. /\ Flow(chan.aw) \in Seq(Burst) /\ Flow(chan.aw) # <<>>
        /\ Head(Flow(chan.aw)) = Head(chan.aw.sink)
    BY <1>2, FlowIs, FlowTake DEF Channelling
  <2>2. /\ Flow(chan.w) \in Seq(BeatIn) /\ Flow(chan.w) # <<>>
        /\ Head(Flow(chan.w)) = Head(chan.w.sink)
    BY <1>2, FlowIs, FlowTake DEF Channelling
  <2>3. Head(Flow(chan.w)).last <=> served = Head(Flow(chan.aw)).length - 1
    BY <2>1, <2>2, WriteTake DEF InFlight, Storing
  <2> QED
    BY <2>1, <2>2, <2>3
<1>3. ASSUME Reads # <<>>, NEW i \in BeatOf(Head(Head(Reads).burst_list).id)
      PROVE  chan.r.sink[i].last <=> Head(Reads).k + 1 = Head(Head(Reads).burst_list).length
  BY <1>3, BeatTaken, Zenon
<1> QED
  BY <1>1, <1>2, <1>3 DEF AssertsHold, Reads

---------------------------------------------------------------------------
(* Every step keeps the invariant *)

LEMMA Begins == Init => Inv
<1> SUFFICES ASSUME Init PROVE Inv
  OBVIOUS
<1> USE DEF Init
<1>1. \A I : Idling \in Iface(I)
  BY EmptySeq DEF Idling, Iface
<1>2. \A I : Well(Idling, I)
  BY <1>1 DEF Idling, Well
<1>3. Flow(Idling) = <<>>
  <2>1. Signals(Idling) = <<>> /\ Idling.sink = <<>> /\ Idling.queue = <<>>
    BY DEF Signals, Idling
  <2>2. <<>> \o (<<>> \o <<>>) = <<>>
    <3>1. <<>> \in Seq({})
      BY EmptySeq
    <3> QED
      BY <3>1, ConcatEmptySeq
  <2> QED
    BY <2>1, <2>2, Zenon DEF Flow
<1>4. \A c \in Channels : chan[c] = Idling
  OBVIOUS
<1>5. chan.aw = Idling /\ chan.w = Idling /\ chan.b = Idling /\ chan.ar = Idling /\ chan.r = Idling
  BY DEF Channels
<1>6. Asking
  <2>1. 0 \in Id
    BY Sizes DEF Id
  <2> QED
    BY <2>1, EmptySeq DEF Asking
<1>7. Channelling
  <2>1. chan = [c \in Channels |-> chan[c]]
    OBVIOUS
  <2> QED
    BY <1>2, <1>5, <2>1, Zenon DEF Channelling
<1>8. Storing
  <2>1. Zero \in Val
    BY DEF Zero, Byte, Val
  <2> QED
    BY <2>1 DEF Storing
<1>9. Reads = <<>> /\ Waiting
  BY EmptySeq DEF Reads, Waiting
<1>10. InStep(<<>>, <<>>, 0)
  <2>1. Each(EndsOf(Burst), <<>>) = <<>> /\ Each(MarkOf(BeatIn), <<>>) = <<>>
    BY MarksAre, EachOne
  <2>2. After(Bit, <<>>, 0, <<>>)
    BY EmptySeq, AfterNone
  <2> QED
    BY <2>1, <2>2 DEF InStep
<1>11. Awaited(<<>>, <<>>, <<>>, 0)
  <2>1. <<>> \in Seq(Burst) /\ <<>> \o <<>> = <<>>
    BY EmptySeq, ConcatEmptySeq
  <2>2. ASSUME NEW id \in Id
        PROVE  After(Bit, Each(Due(id), <<>>), Gone(<<>>, 0, id), Each(Came(id), <<>>))
    <3>1. Each(Due(id), <<>>) = <<>> /\ Each(Came(id), <<>>) = <<>>
      BY DueCame, EachOne
    <3>2. Gone(<<>>, 0, id) = 0
      BY DEF Gone
    <3>3. After(Bit, <<>>, 0, <<>>)
      BY EmptySeq, AfterNone
    <3> QED
      BY <3>1, <3>2, <3>3
  <2> QED
    BY <2>1, <2>2 DEF Awaited
<1>12. InFlight
  <2>1. <<>> \in Seq(Reading)
    BY EmptySeq
  <2>2. Each(BurstList, <<>>) = <<>> /\ ReadSoFar(<<>>) = 0
    BY <2>1, ReadsAre DEF ReadSoFar
  <2>3. served = 0
    OBVIOUS
  <2> QED
    BY <1>3, <1>5, <1>9, <1>10, <1>11, <2>2, <2>3, Zenon DEF InFlight
<1> QED
  BY <1>6, <1>7, <1>8, <1>9, <1>12 DEF Inv

LEMMA Wider ==
  ASSUME NEW A, NEW B, A \subseteq B, NEW s \in Seq(A)
  PROVE  s \in Seq(B)
<1>1. Len(s) \in Nat /\ s \in [1 .. Len(s) -> B]
  BY LenProperties, ElementOfSeq
<1> QED
  BY <1>1

\* A call is put into the queue of its kind.
LEMMA Asks ==
  ASSUME Inv, NEW c \in Calls, init_write(c) \/ init_read(c)
  PROVE  Inv'
<1> DEFINE n == Len(calls)
<1>1. n \in Nat /\ calls' = Append(calls, c) /\ calls' \in Seq(Calls) /\ Len(calls') = n + 1
  <2>1. calls \in Seq(Calls) /\ calls' = Append(calls, c)
    BY DEF Inv, Asking, init_write, init_read, Ask
  <2> QED
    BY <2>1, LenProperties, AppendProperties
<1>2. UNCHANGED <<cur_write_id, cur_read_id, int_read_resp_command_queue, chan, served, mem>>
  BY DEF init_write, init_read, Ask, ids, resps, ram
<1>3. /\ write_command_queue \in Seq(1 .. n + 1) /\ read_command_queue \in Seq(1 .. n + 1)
      /\ n + 1 \in 1 .. n + 1
  <2>1. 1 .. n \subseteq 1 .. n + 1 /\ n + 1 \in 1 .. n + 1
    BY <1>1
  <2>2. write_command_queue \in Seq(1 .. n) /\ read_command_queue \in Seq(1 .. n)
    BY DEF Inv, Asking
  <2> QED
    BY <2>1, <2>2, Wider
<1>4. write_command_queue' \in Seq(1 .. n + 1) /\ read_command_queue' \in Seq(1 .. n + 1)
  <2> DEFINE B == 1 .. n + 1
  <2>0. \A q \in Seq(B) : Append(q, n + 1) \in Seq(B)
    <3>1. n + 1 \in B
      BY <1>3
    <3> HIDE DEF B
    <3> QED
      BY <3>1, AppendProperties
  <2>1. \/ /\ write_command_queue' = Append(write_command_queue, n + 1)
           /\ read_command_queue' = read_command_queue
        \/ /\ read_command_queue' = Append(read_command_queue, n + 1)
           /\ write_command_queue' = write_command_queue
    BY <1>1 DEF init_write, init_read
  <2> QED
    BY <1>3, <2>0, <2>1
<1>5. Asking'
  BY <1>1, <1>2, <1>4 DEF Inv, Asking
<1>6. Channelling' /\ Storing' /\ InFlight'
  BY <1>2 DEF Inv, Channelling, Storing, InFlight, Reads
<1>7. Waiting'
  <2>1. \A m \in 1 .. n : m \in 1 .. n + 1
    BY <1>1
  <2> QED
    BY <1>1, <1>2, <2>1 DEF Inv, Waiting, Reads
<1> QED
  BY <1>5, <1>6, <1>7 DEF Inv

\* One channel changes, the others do not.
LEMMA OneChannel ==
  ASSUME Channelling, NEW c \in Channels, NEW z, chan' = [chan EXCEPT ![c] = z]
  PROVE  /\ chan' = [d \in Channels |-> chan'[d]]
         /\ chan'[c] = z /\ \A d \in Channels : d # c => chan'[d] = chan[d]
<1>1. chan = [d \in Channels |-> chan[d]]
  BY DEF Channelling
<1> QED
  BY <1>1

\* An edge moves items along the channel, none of them past another.
LEMMA EdgeMoves ==
  ASSUME Channelling, NEW c \in Channels, Edge(c)
  PROVE  /\ Channelling'
         /\ Flow(chan'.aw) = Flow(chan.aw) /\ Flow(chan'.w) = Flow(chan.w)
         /\ Flow(chan'.b) = Flow(chan.b)
         /\ Flow(chan'.ar) = Flow(chan.ar) /\ Flow(chan'.r) = Flow(chan.r)
<1>1. PICK from \in BOOLEAN, to \in BOOLEAN :
        chan' = [chan EXCEPT ![c] = Drive(Collect(chan[c], Handshake(chan[c], to)),
                                          Handshake(chan[c], to), from)]
  BY DEF Edge
<1> DEFINE z == Drive(Collect(chan[c], Handshake(chan[c], to)), Handshake(chan[c], to), from)
<1>2. ASSUME NEW I, Nothing \notin I, Well(chan[c], I)
      PROVE  Well(z, I) /\ Flow(z) = Flow(chan[c])
  BY <1>2, FlowEdge, Zenon
<1> HIDE DEF z
<1>3. /\ chan' = [d \in Channels |-> chan'[d]]
      /\ chan'[c] = z /\ \A d \in Channels : d # c => chan'[d] = chan[d]
  BY <1>1, OneChannel DEF z
<1>4. ASSUME NEW d \in Channels, NEW I, Nothing \notin I, Well(chan[d], I)
      PROVE  Well(chan'[d], I) /\ Flow(chan'[d]) = Flow(chan[d])
  <2>1. CASE d = c
    BY <1>2, <1>3, <1>4, <2>1, Zenon
  <2>2. CASE d # c
    BY <1>3, <1>4, <2>2, Zenon
  <2> QED
    BY <2>1, <2>2
<1>5. /\ Well(chan'.aw, Burst) /\ Flow(chan'.aw) = Flow(chan.aw)
      /\ Well(chan'.w, BeatIn) /\ Flow(chan'.w) = Flow(chan.w)
      /\ Well(chan'.b, Response) /\ Flow(chan'.b) = Flow(chan.b)
      /\ Well(chan'.ar, Burst) /\ Flow(chan'.ar) = Flow(chan.ar)
      /\ Well(chan'.r, BeatOut) /\ Flow(chan'.r) = Flow(chan.r)
  <2>1. Well(chan.aw, Burst) /\ Well(chan.w, BeatIn) /\ Well(chan.b, Response)
        /\ Well(chan.ar, Burst) /\ Well(chan.r, BeatOut)
    BY DEF Channelling
  <2>2. "aw" \in Channels /\ "w" \in Channels /\ "b" \in Channels /\ "ar" \in Channels /\ "r" \in Channels
    BY DEF Channels
  <2> QED
    BY <1>4, <2>1, <2>2, NothingIs, Zenon
<1>6. Channelling'
  BY <1>3, <1>5, Zenon DEF Channelling
<1> QED
  BY <1>5, <1>6, Zenon

LEMMA Edges ==
  ASSUME Inv, NEW c \in Channels, Edge(c)
  PROVE  Inv'
<1>1. UNCHANGED <<calls, write_command_queue, read_command_queue, cur_write_id, cur_read_id,
                  int_read_resp_command_queue, served, mem>>
  BY DEF Edge, asked, queues, ids, resps, ram
<1>2. /\ Channelling'
      /\ Flow(chan'.aw) = Flow(chan.aw) /\ Flow(chan'.w) = Flow(chan.w)
      /\ Flow(chan'.ar) = Flow(chan.ar) /\ Flow(chan'.r) = Flow(chan.r)
  BY EdgeMoves, Zenon DEF Inv
<1>3. Asking' /\ Storing' /\ Waiting'
  BY <1>1 DEF Inv, Asking, Storing, Waiting, Reads
<1>4. InFlight'
  BY <1>1, <1>2, Zenon DEF Inv, InFlight, Reads
<1> QED
  BY <1>2, <1>3, <1>4 DEF Inv

\* Beats that overtake each other are of different ids, and no read waits for their order.
LEMMA Overtakes ==
  ASSUME Inv, Overtake
  PROVE  Inv'
<1>1. PICK i \in 1 .. Len(chan.r.queue) - 1 :
        /\ chan.r.queue[i].id # chan.r.queue[i + 1].id
        /\ chan' = [chan EXCEPT !.r = Swapped(chan.r, i)]
  BY DEF Overtake, Swapped
<1> DEFINE z == Swapped(chan.r, i)
<1>2. "r" \in Channels
  BY DEF Channels
<1>3. /\ chan' = [d \in Channels |-> chan'[d]]
      /\ chan'["r"] = z /\ \A d \in Channels : d # "r" => chan'[d] = chan[d]
  BY <1>1, <1>2, OneChannel DEF Inv
<1>4. chan'.r = z /\ UNCHANGED <<chan.aw, chan.w, chan.b, chan.ar>>
  BY <1>3 DEF Channels
<1>5. Well(chan.r, BeatOut)
  BY DEF Inv, Channelling
<1>6. /\ Well(z, BeatOut) /\ chan.r.queue[i] \in BeatOut /\ chan.r.queue[i + 1] \in BeatOut
      /\ \E u, v \in Seq(BeatOut) : AreAround(u, v, chan.r, i)
  BY <1>1, <1>5, FlowSwap
<1>7. PICK u \in Seq(BeatOut), v \in Seq(BeatOut) : AreAround(u, v, chan.r, i)
  BY <1>6
<1>8. ASSUME NEW X, NEW A, NEW k, Awaited(X, A, Flow(chan.r), k)
      PROVE  Awaited(X, A, Flow(z), k)
  BY <1>1, <1>6, <1>7, <1>8, ReadSwap DEF AreAround
<1> HIDE DEF z
<1>9. UNCHANGED <<calls, write_command_queue, read_command_queue, cur_write_id, cur_read_id,
                  int_read_resp_command_queue, served, mem>>
  BY DEF Overtake, asked, queues, ids, resps, ram
<1>10. Asking' /\ Storing' /\ Waiting'
  BY <1>9 DEF Inv, Asking, Storing, Waiting, Reads
<1>11. Channelling'
  BY <1>3, <1>4, <1>6, Zenon DEF Inv, Channelling
<1>12. InFlight'
  BY <1>4, <1>8, <1>9, Zenon DEF Inv, InFlight, Reads
<1> QED
  BY <1>10, <1>11, <1>12 DEF Inv

\* The memory writes a beat; with the last it answers the burst.
LEMMA RamWriteMoves ==
  ASSUME Inv, RamWrite
  PROVE  LET b    == Head(chan.aw.sink)
             x    == Head(chan.w.sink)
             last == served = b.length - 1
             A    == Flow(chan.aw)
             W    == Flow(chan.w)
         IN  /\ Channelling'
             /\ A \in Seq(Burst) /\ A # <<>> /\ Head(A) = b /\ b \in Burst
             /\ W \in Seq(BeatIn) /\ W # <<>> /\ Head(W) = x /\ x \in BeatIn
             /\ Flow(chan'.aw) = (IF last THEN Tail(A) ELSE A) /\ Flow(chan'.w) = Tail(W)
             /\ Flow(chan'.b) = Flow(chan.b) \o (IF last THEN <<[id |-> b.id]>> ELSE <<>>)
             /\ chan'.ar = chan.ar /\ chan'.r = chan.r
             /\ mem' = Stored(mem, x.data, b, served)
             /\ served' = IF last THEN 0 ELSE served + 1
<1> DEFINE b    == Head(chan.aw.sink)
           data == Head(chan.w.sink).data
           last == served = b.length - 1
           resp == IF last THEN <<[id |-> b.id]>> ELSE <<>>
           A    == Flow(chan.aw)
           W    == Flow(chan.w)
<1>1. /\ chan.aw.sink # <<>> /\ chan.w.sink # <<>>
      /\ mem' = [a \in DOMAIN mem |->
                   IF \E j \in DOMAIN data : a = Cell(b, served, j)
                   THEN data[CHOOSE j \in DOMAIN data : a = Cell(b, served, j)]
                   ELSE mem[a]]
      /\ served' = IF last THEN 0 ELSE served + 1
      /\ chan' = [chan EXCEPT !.w.sink = Tail(@), !.b.queue = @ \o resp,
                              !.aw.sink = IF last THEN Tail(@) ELSE @]
  BY DEF RamWrite
<1>3. /\ chan = [c \in Channels |-> chan[c]]
      /\ Well(chan.aw, Burst) /\ Well(chan.w, BeatIn) /\ Well(chan.b, Response)
      /\ Well(chan.ar, Burst) /\ Well(chan.r, BeatOut)
  BY DEF Inv, Channelling
<1>4. /\ A \in Seq(Burst) /\ A # <<>> /\ Head(A) = b /\ b \in Burst
      /\ Well(Behind(chan.aw), Burst) /\ Flow(Behind(chan.aw)) = Tail(A)
  BY <1>1, <1>3, FlowTake, FlowIs
<1>5. /\ W \in Seq(BeatIn) /\ W # <<>> /\ Head(W) = Head(chan.w.sink) /\ Head(W) \in BeatIn
      /\ Well(Behind(chan.w), BeatIn) /\ Flow(Behind(chan.w)) = Tail(W)
  BY <1>1, <1>3, FlowTake, FlowIs
<1>6. Well(With(chan.b, resp), Response) /\ Flow(With(chan.b, resp)) = Flow(chan.b) \o resp
  <2>1. b.id \in Id
    BY <1>4, BurstIs
  <2>2. [id |-> b.id] \in Response
    BY <2>1 DEF Response
  <2>3. resp \in Seq(Response)
    BY <2>2, EmptySeq
  <2> HIDE DEF resp
  <2> QED
    BY <1>3, <2>3, FlowPut
<1>8. /\ chan' = [c \in Channels |-> chan'[c]]
      /\ chan'.w = Behind(chan.w) /\ chan'.b = With(chan.b, resp)
      /\ last => chan'.aw = Behind(chan.aw)
      /\ ~last => chan'.aw = chan.aw
      /\ chan'.ar = chan.ar /\ chan'.r = chan.r
  <2> DEFINE z == [chan.aw EXCEPT !.sink = IF last THEN Tail(@) ELSE @]
  <2>1. chan' = [chan EXCEPT !["w"] = Behind(chan.w), !["b"] = With(chan.b, resp), !["aw"] = z]
    BY <1>1 DEF Behind, With
  <2>2. last => z = Behind(chan.aw)
    BY DEF Behind
  <2>3. ~last => z = chan.aw
    BY <1>3 DEF Well, Iface
  <2> HIDE DEF z, last, resp
  <2>4. /\ chan' = [c \in Channels |-> chan'[c]]
        /\ chan'.w = Behind(chan.w) /\ chan'.b = With(chan.b, resp) /\ chan'.aw = z
        /\ chan'.ar = chan.ar /\ chan'.r = chan.r
    BY <1>3, <2>1 DEF Channels
  <2> QED
    BY <2>2, <2>3, <2>4
<1>9. mem' = Stored(mem, data, b, served)
  BY <1>1, Zenon DEF Stored
<1>10. served' = IF last THEN 0 ELSE served + 1
  BY <1>1, Zenon
<1> HIDE DEF last, b, data
<1>11. Flow(chan'.b) = Flow(chan.b) \o (IF last THEN <<[id |-> b.id]>> ELSE <<>>)
  BY <1>6, <1>8, Zenon
<1> HIDE DEF resp
<1>12. Channelling'
  <2>1. Well(chan'.aw, Burst)
    BY <1>3, <1>4, <1>8, Zenon
  <2> QED
    BY <1>3, <1>5, <1>6, <1>8, <2>1, Zenon DEF Channelling
<1>13. Flow(chan'.aw) = (IF last THEN Tail(A) ELSE A) /\ Flow(chan'.w) = Tail(W)
  <2>1. Flow(chan'.w) = Tail(W)
    BY <1>5, <1>8, Zenon
  <2>2. CASE last
    BY <1>4, <1>8, <2>1, <2>2, Zenon
  <2>3. CASE ~last
    BY <1>8, <2>1, <2>3, Zenon
  <2> QED
    BY <2>2, <2>3
<1> QED
  BY <1>4, <1>5, <1>8, <1>9, <1>10, <1>11, <1>12, <1>13, Zenon DEF last, b, data

LEMMA RamWrites ==
  ASSUME Inv, RamWrite
  PROVE  Inv'
<1> DEFINE b    == Head(chan.aw.sink)
           x    == Head(chan.w.sink)
           last == served = b.length - 1
           A    == Flow(chan.aw)
           W    == Flow(chan.w)
<1>1. /\ Channelling'
      /\ A \in Seq(Burst) /\ A # <<>> /\ Head(A) = b
      /\ W \in Seq(BeatIn) /\ W # <<>> /\ x \in BeatIn
      /\ Flow(chan'.aw) = (IF last THEN Tail(A) ELSE A) /\ Flow(chan'.w) = Tail(W)
      /\ chan'.ar = chan.ar /\ chan'.r = chan.r
      /\ mem' = Stored(mem, x.data, b, served)
      /\ served' = IF last THEN 0 ELSE served + 1
  BY RamWriteMoves, Zenon
<1>2. UNCHANGED <<calls, write_command_queue, read_command_queue, cur_write_id, cur_read_id,
                  int_read_resp_command_queue>>
  BY DEF RamWrite, asked, queues, ids, resps
<1>3. served \in Nat /\ mem \in [0 .. Size - 1 -> Val] /\ InStep(A, W, served)
  BY DEF Inv, Storing, InFlight
<1>4. x.data \in Data
  BY <1>1 DEF BeatIn
<1> HIDE DEF A, W, b, x
<1>5. mem' \in [0 .. Size - 1 -> Val]
  BY <1>1, <1>3, <1>4, StoredIs
<1>6. /\ last => InStep(Tail(A), Tail(W), 0)
      /\ ~last => InStep(A, Tail(W), served + 1)
  BY <1>1, <1>3, WriteTake
<1>7. served' \in Nat
  BY <1>1, <1>3
<1> HIDE DEF last
<1>8. Asking' /\ Waiting' /\ Storing'
  BY <1>2, <1>5, <1>7 DEF Inv, Asking, Waiting, Storing, Reads
<1>9. InStep(Flow(chan'.aw), Flow(chan'.w), served')
  <2>1. CASE last
    BY <1>1, <1>6, <2>1, Zenon
  <2>2. CASE ~last
    BY <1>1, <1>6, <2>2, Zenon
  <2> QED
    BY <2>1, <2>2
<1>10. InFlight'
  BY <1>1, <1>2, <1>9, Zenon DEF Inv, InFlight, Reads
<1> QED
  BY <1>1, <1>8, <1>10 DEF Inv

\* The memory reads a burst and sends its beats, the last of them marked.
LEMMA RamReads ==
  ASSUME Inv, RamRead
  PROVE  Inv'
<1> DEFINE b     == Head(chan.ar.sink)
           beats == BeatsRead(b, mem)
           A     == Flow(chan.ar)
           R     == Flow(chan.r)
           X     == Each(BurstList, Reads)
           k     == ReadSoFar(Reads)
<1>1. /\ chan.ar.sink # <<>>
      /\ chan' = [chan EXCEPT !["ar"] = Behind(chan.ar), !["r"] = With(chan.r, beats)]
  BY DEF RamRead, BeatsRead, BeatRead, Behind, With
<1>2. UNCHANGED <<calls, write_command_queue, read_command_queue, cur_write_id, cur_read_id,
                  int_read_resp_command_queue, served, mem>>
  BY DEF RamRead, asked, queues, ids, resps, ram
<1>3. /\ chan = [c \in Channels |-> chan[c]]
      /\ Well(chan.ar, Burst) /\ Well(chan.r, BeatOut)
      /\ mem \in [0 .. Size - 1 -> Val] /\ Reads \in Seq(Reading)
      /\ Awaited(X, A, R, k)
  BY DEF Inv, Channelling, Storing, InFlight, Waiting
<1>4. /\ A \in Seq(Burst) /\ A # <<>> /\ Head(A) = b /\ b \in Burst
      /\ Well(Behind(chan.ar), Burst) /\ Flow(Behind(chan.ar)) = Tail(A)
  BY <1>1, <1>3, FlowTake, FlowIs
<1>5. /\ beats \in Seq(BeatOut)
      /\ \A id \in Id : Each(Came(id), beats) = Due(id)[Head(A)]
  BY <1>3, <1>4, BeatsReadAre
<1> HIDE DEF beats
<1>6. /\ R \in Seq(BeatOut)
      /\ Well(With(chan.r, beats), BeatOut) /\ Flow(With(chan.r, beats)) = R \o beats
  BY <1>3, <1>5, FlowPut, FlowIs
<1>7. X \in Seq(Burst) /\ k \in Nat
  BY <1>3, ReadsAre
<1> HIDE DEF A, R, X, k, b
<1>8. Awaited(X, Tail(A), R \o beats, k)
  BY <1>3, <1>4, <1>5, <1>6, <1>7, ReadServe
<1>9. /\ chan' = [c \in Channels |-> chan'[c]]
      /\ chan'.ar = Behind(chan.ar) /\ chan'.r = With(chan.r, beats)
      /\ chan'.aw = chan.aw /\ chan'.w = chan.w /\ chan'.b = chan.b
  BY <1>1, <1>3 DEF Channels
<1>10. Asking' /\ Waiting' /\ Storing'
  BY <1>2 DEF Inv, Asking, Waiting, Storing, Reads
<1>11. Channelling'
  BY <1>4, <1>6, <1>9, Zenon DEF Inv, Channelling
<1>12. InFlight'
  <2>1. Awaited(X, Flow(chan'.ar), Flow(chan'.r), k)
    BY <1>4, <1>6, <1>8, <1>9, Zenon
  <2> QED
    BY <1>2, <1>9, <2>1, Zenon DEF Inv, InFlight, Reads, X, k
<1> QED
  BY <1>10, <1>11, <1>12 DEF Inv

\* The master counts a response.
LEMMA Responds ==
  ASSUME Inv, write_resp_logic
  PROVE  Inv'
<1>1. chan.b.sink # <<>> /\ chan' = [chan EXCEPT !["b"] = Behind(chan.b)]
  BY DEF write_resp_logic, Behind
<1>2. UNCHANGED <<calls, write_command_queue, read_command_queue, cur_write_id, cur_read_id,
                  int_read_resp_command_queue, served, mem>>
  BY DEF write_resp_logic, asked, queues, ids, ram
<1>3. /\ chan = [c \in Channels |-> chan[c]] /\ Well(chan.b, Response)
  BY DEF Inv, Channelling
<1>4. Well(Behind(chan.b), Response)
  BY <1>1, <1>3, FlowTake
<1>5. /\ chan' = [c \in Channels |-> chan'[c]] /\ chan'.b = Behind(chan.b)
      /\ chan'.aw = chan.aw /\ chan'.w = chan.w /\ chan'.ar = chan.ar /\ chan'.r = chan.r
  BY <1>1, <1>3 DEF Channels
<1>6. Asking' /\ Storing' /\ Waiting'
  BY <1>2 DEF Inv, Asking, Storing, Waiting, Reads
<1>7. Channelling'
  BY <1>4, <1>5, Zenon DEF Inv, Channelling
<1>8. InFlight'
  BY <1>2, <1>5, Zenon DEF Inv, InFlight, Reads
<1> QED
  BY <1>6, <1>7, <1>8 DEF Inv

\* A write goes out as its bursts and their beats.
LEMMA WriteMoves ==
  ASSUME Inv, write_logic
  PROVE  LET n  == Head(write_command_queue)
             c  == calls[n]
             bs == Addresses(c, cur_write_id)
             ws == WriteBeats(n)
             A  == Flow(chan.aw)
             W  == Flow(chan.w)
         IN  /\ Channelling'
             /\ n \in 1 .. Len(calls) /\ Tail(write_command_queue) \in Seq(1 .. Len(calls))
             /\ c \in Calls /\ A \in Seq(Burst) /\ W \in Seq(BeatIn)
             /\ ws \in Seq(BeatIn) /\ Each(MarkOf(BeatIn), ws) = Marked(c, 0, Bursts(c))
             /\ bs \in Seq(Burst) /\ bs # <<>> /\ Len(bs) = Len(Bursts(c)) /\ Len(Bursts(c)) \in Nat
             /\ Each(EndsOf(Burst), bs) = Marked(c, 0, Bursts(c))
             /\ Each(PlacesOf(Burst), bs) = Slice(Words(c), 0, Cycles(c))
             /\ Flow(chan'.aw) = A \o bs /\ Flow(chan'.w) = W \o ws
             /\ chan'.b = chan.b /\ chan'.ar = chan.ar /\ chan'.r = chan.r
<1> DEFINE n  == Head(write_command_queue)
           c  == calls[n]
           bs == Addresses(c, cur_write_id)
           ws == WriteBeats(n)
           A  == Flow(chan.aw)
           W  == Flow(chan.w)
<1>1. /\ write_command_queue # <<>> /\ write_command_queue' = Tail(write_command_queue)
      /\ chan' = Put(Put(chan, "aw", bs), "w", ws)
  BY DEF write_logic
<1>3. /\ calls \in Seq(Calls) /\ write_command_queue \in Seq(1 .. Len(calls))
      /\ cur_write_id \in Id
      /\ chan = [d \in Channels |-> chan[d]] /\ Well(chan.aw, Burst) /\ Well(chan.w, BeatIn)
  BY DEF Inv, Asking, Channelling
<1>4. /\ n \in 1 .. Len(calls) /\ Tail(write_command_queue) \in Seq(1 .. Len(calls))
  BY <1>1, <1>3, HeadTailProperties
<1>5. /\ c \in Calls /\ ws \in Seq(BeatIn)
      /\ Each(MarkOf(BeatIn), ws) = Marked(c, 0, Bursts(c))
  BY <1>3, <1>4, WriteBeatsAre
<1>6. /\ bs \in Seq(Burst) /\ bs # <<>> /\ Len(bs) = Len(Bursts(c)) /\ Len(Bursts(c)) \in Nat
      /\ Each(EndsOf(Burst), bs) = Marked(c, 0, Bursts(c))
      /\ Each(PlacesOf(Burst), bs) = Slice(Words(c), 0, Cycles(c))
  BY <1>3, <1>5, AddressesAre
<1> HIDE DEF ws, bs, c, n
<1>7. /\ A \in Seq(Burst) /\ Well(With(chan.aw, bs), Burst) /\ Flow(With(chan.aw, bs)) = A \o bs
  BY <1>3, <1>6, FlowPut, FlowIs
<1>8. /\ W \in Seq(BeatIn) /\ Well(With(chan.w, ws), BeatIn) /\ Flow(With(chan.w, ws)) = W \o ws
  BY <1>3, <1>5, FlowPut, FlowIs
<1>9. /\ chan' = [d \in Channels |-> chan'[d]]
      /\ chan'.aw = With(chan.aw, bs) /\ chan'.w = With(chan.w, ws)
      /\ chan'.b = chan.b /\ chan'.ar = chan.ar /\ chan'.r = chan.r
  <2>1. chan' = [chan EXCEPT !["aw"] = With(chan.aw, bs), !["w"] = With(chan.w, ws)]
    BY <1>1, <1>3 DEF Put, With, Channels
  <2> QED
    BY <1>3, <2>1 DEF Channels
<1>10. Channelling'
  BY <1>7, <1>8, <1>9, Zenon DEF Inv, Channelling
<1>11. Flow(chan'.aw) = A \o bs /\ Flow(chan'.w) = W \o ws
  BY <1>7, <1>8, <1>9, Zenon
<1> QED
  BY <1>4, <1>5, <1>6, <1>7, <1>8, <1>9, <1>10, <1>11, Zenon DEF ws, bs, c, n

LEMMA Writes ==
  ASSUME Inv, write_logic
  PROVE  Inv'
<1> DEFINE n  == Head(write_command_queue)
           c  == calls[n]
           bs == Addresses(c, cur_write_id)
           ws == WriteBeats(n)
           A  == Flow(chan.aw)
           W  == Flow(chan.w)
<1>1. /\ write_command_queue' = Tail(write_command_queue)
      /\ cur_write_id' = (cur_write_id + Len(Bursts(c))) % NumIds
  BY DEF write_logic
<1>2. UNCHANGED <<calls, read_command_queue, cur_read_id, int_read_resp_command_queue, served, mem>>
  BY DEF write_logic, asked, ram
<1>3. calls \in Seq(Calls) /\ cur_write_id \in Id /\ served \in Nat /\ InStep(A, W, served)
  BY DEF Inv, Asking, Storing, InFlight
<1>4. /\ Channelling' /\ Tail(write_command_queue) \in Seq(1 .. Len(calls))
      /\ A \in Seq(Burst) /\ W \in Seq(BeatIn)
      /\ ws \in Seq(BeatIn) /\ bs \in Seq(Burst) /\ bs # <<>> /\ Len(Bursts(c)) \in Nat
      /\ Each(EndsOf(Burst), bs) = Each(MarkOf(BeatIn), ws)
      /\ Flow(chan'.aw) = A \o bs /\ Flow(chan'.w) = W \o ws
      /\ chan'.ar = chan.ar /\ chan'.r = chan.r
  BY WriteMoves, Zenon
<1> HIDE DEF A, W, ws, bs, c, n
<1>10. InStep(A \o bs, W \o ws, served)
  BY <1>3, <1>4, WritePut
<1>11. cur_write_id' \in Id
  <2> DEFINE m == Len(Bursts(c))
  <2>1. m \in Nat /\ cur_write_id' = (cur_write_id + m) % NumIds
    BY <1>1, <1>4
  <2> HIDE DEF m
  <2>2. cur_write_id + m \in Nat
    <3>1. cur_write_id \in Nat
      BY <1>3 DEF Id
    <3> QED
      BY <2>1, <3>1
  <2> QED
    BY <2>1, <2>2, Sizes, Remainder DEF Id
<1>12. Asking'
  BY <1>1, <1>2, <1>3, <1>4, <1>11 DEF Inv, Asking
<1>13. Storing' /\ Waiting'
  BY <1>2 DEF Inv, Storing, Waiting, Reads
<1>15. InFlight'
  <2>1. InStep(Flow(chan'.aw), Flow(chan'.w), served)
    BY <1>4, <1>10, Zenon
  <2> QED
    BY <1>2, <1>4, <2>1, Zenon DEF Inv, InFlight, Reads
<1> QED
  BY <1>4, <1>12, <1>13, <1>15 DEF Inv

\* A read put behind those that wait.
LEMMA ReadBehind ==
  ASSUME NEW q \in Seq(Reading), NEW at \in Reading, at.k = 0
  PROVE  /\ Append(q, at) \in Seq(Reading) /\ Len(Append(q, at)) = Len(q) + 1
         /\ \A i \in 1 .. Len(q) + 1 : Append(q, at)[i] = IF i <= Len(q) THEN q[i] ELSE at
         /\ Each(BurstList, Append(q, at)) = Each(BurstList, q) \o at.burst_list
         /\ ReadSoFar(Append(q, at)) = ReadSoFar(q)
<1> DEFINE f == BurstList
           one == <<at>>
<1>1. f \in Lists(Reading, Burst) /\ f[at] = at.burst_list
  BY DEF BurstList, Reading, Lists
<1> HIDE DEF f
<1>2. /\ Append(q, at) \in Seq(Reading) /\ Len(Append(q, at)) = Len(q) + 1
      /\ \A i \in 1 .. Len(q) + 1 : Append(q, at)[i] = IF i <= Len(q) THEN q[i] ELSE at
      /\ Len(q) \in Nat
  BY AppendProperties, LenProperties
<1>3. one \in Seq(Reading) /\ Each(f, one) = f[at] /\ Append(q, at) = q \o one
  BY <1>1, EachOne, AppendIsConcat
<1> HIDE DEF one
<1>4. /\ \A a, b \in Seq(Reading) : a \o b \in Seq(Reading) /\ Each(f, a \o b) = Each(f, a) \o Each(f, b)
      /\ \A a \in Seq(Reading) : Each(f, a) \in Seq(Burst)
  BY <1>1, EachSplits, Zenon
<1>5. Each(f, q \o one) = Each(f, q) \o Each(f, one)
  BY <1>3, <1>4, Zenon
<1>6. ReadSoFar(Append(q, at)) = ReadSoFar(q)
  <2>1. CASE q = <<>>
    <3>1. Append(q, at) # <<>> /\ Head(Append(q, at)) = at
      BY <1>2, <2>1, EmptySeq
    <3> QED
      BY <2>1, <3>1 DEF ReadSoFar
  <2>2. CASE q # <<>>
    <3>1. Len(q) >= 1
      BY <1>2, <2>2, EmptySeq
    <3>2. Append(q, at) # <<>> /\ Head(Append(q, at)) = Head(q)
      BY <1>2, <2>2, <3>1, EmptySeq
    <3> QED
      BY <2>2, <3>2 DEF ReadSoFar
  <2> QED
    BY <2>1, <2>2
<1> QED
  BY <1>1, <1>2, <1>3, <1>5, <1>6 DEF f

\* A read goes out as its bursts, and waits for them behind the others.
LEMMA ReadsOut ==
  ASSUME Inv, read_logic
  PROVE  Inv'
<1> DEFINE n  == Head(read_command_queue)
           c  == calls[n]
           bs == Addresses(c, cur_read_id)
           at == [call |-> n, burst_list |-> bs, k |-> 0, beats |-> 0, data |-> <<>>]
           A  == Flow(chan.ar)
           R  == Flow(chan.r)
           X  == Each(BurstList, Reads)
           k  == ReadSoFar(Reads)
<1>1. /\ read_command_queue # <<>> /\ read_command_queue' = Tail(read_command_queue)
      /\ chan' = Put(chan, "ar", bs) /\ Reads' = Append(Reads, at)
      /\ cur_read_id' = (cur_read_id + Len(Bursts(c))) % NumIds
  BY DEF read_logic, Reads
<1>2. UNCHANGED <<calls, write_command_queue, cur_write_id, served, mem>>
  BY DEF read_logic, asked, ram
<1>3. /\ calls \in Seq(Calls) /\ read_command_queue \in Seq(1 .. Len(calls)) /\ cur_read_id \in Id
      /\ chan = [d \in Channels |-> chan[d]] /\ Well(chan.ar, Burst) /\ Well(chan.r, BeatOut)
      /\ Reads \in Seq(Reading) /\ Awaited(X, A, R, k)
      /\ \A i \in 1 .. Len(Reads) : Reads[i].call \in 1 .. Len(calls) /\ (i # 1 => Reads[i].k = 0)
  BY DEF Inv, Asking, Channelling, Waiting, InFlight
<1>4. n \in 1 .. Len(calls) /\ Tail(read_command_queue) \in Seq(1 .. Len(calls))
  BY <1>1, <1>3, HeadTailProperties
<1>5. c \in Calls
  BY <1>3, <1>4, ElementOfSeq
<1>6. bs \in Seq(Burst) /\ bs # <<>> /\ Len(Bursts(c)) \in Nat
  BY <1>3, <1>5, AddressesAre
<1> HIDE DEF bs, c
<1>7. at \in Reading /\ at.k = 0 /\ at.burst_list = bs /\ at.call = n
  <2>1. n \in Nat /\ <<>> \in Seq(Val)
    BY <1>4, EmptySeq
  <2> HIDE DEF n
  <2> QED
    BY <1>6, <2>1 DEF Reading
<1> HIDE DEF n, at
<1>8. A \in Seq(Burst) /\ Well(With(chan.ar, bs), Burst) /\ Flow(With(chan.ar, bs)) = A \o bs
  BY <1>3, <1>6, FlowPut, FlowIs
<1>9. X \in Seq(Burst) /\ k \in Nat
  BY <1>3, ReadsAre
<1>10. /\ Append(Reads, at) \in Seq(Reading) /\ Len(Append(Reads, at)) = Len(Reads) + 1
       /\ \A i \in 1 .. Len(Reads) + 1 : Append(Reads, at)[i] = IF i <= Len(Reads) THEN Reads[i] ELSE at
       /\ Each(BurstList, Append(Reads, at)) = X \o at.burst_list
       /\ ReadSoFar(Append(Reads, at)) = k
  BY <1>3, <1>7, ReadBehind
<1> HIDE DEF A, R, X, k
<1>11. Awaited(X \o bs, A \o bs, R, k)
  BY <1>3, <1>6, <1>8, <1>9, ReadAsk
<1>12. /\ chan' = [d \in Channels |-> chan'[d]] /\ chan'.ar = With(chan.ar, bs)
       /\ chan'.aw = chan.aw /\ chan'.w = chan.w /\ chan'.b = chan.b /\ chan'.r = chan.r
  <2>1. chan' = [chan EXCEPT !["ar"] = With(chan.ar, bs)]
    BY <1>1, <1>3 DEF Put, With, Channels
  <2> QED
    BY <1>3, <2>1 DEF Channels
<1>13. cur_read_id' \in Id
  <2> DEFINE m == Len(Bursts(c))
  <2>1. m \in Nat /\ cur_read_id' = (cur_read_id + m) % NumIds
    BY <1>1, <1>6
  <2> HIDE DEF m
  <2>2. cur_read_id + m \in Nat
    <3>1. cur_read_id \in Nat
      BY <1>3 DEF Id
    <3> QED
      BY <2>1, <3>1
  <2> QED
    BY <2>1, <2>2, Sizes, Remainder DEF Id
<1>14. Asking' /\ Storing'
  BY <1>1, <1>2, <1>3, <1>4, <1>13 DEF Inv, Asking, Storing
<1>15. Waiting'
  <2>1. Len(Reads) \in Nat
    BY <1>3, LenProperties
  <2>2. ASSUME NEW i \in 1 .. Len(Reads) + 1
        PROVE  Reads'[i].call \in 1 .. Len(calls) /\ (i # 1 => Reads'[i].k = 0)
    <3>1. CASE i <= Len(Reads)
      <4>1. i \in 1 .. Len(Reads) /\ Reads'[i] = Reads[i]
        BY <1>1, <1>10, <2>1, <3>1
      <4> QED
        BY <1>3, <4>1
    <3>2. CASE ~(i <= Len(Reads))
      <4>1. Reads'[i] = at
        BY <1>1, <1>10, <2>1, <3>2
      <4> QED
        BY <1>4, <1>7, <4>1
    <3> QED
      BY <3>1, <3>2
  <2>3. Reads' \in Seq(Reading) /\ Len(Reads') = Len(Reads) + 1
    BY <1>1, <1>10
  <2> QED
    BY <1>2, <2>2, <2>3 DEF Waiting
<1>16. Channelling'
  BY <1>8, <1>12, Zenon DEF Inv, Channelling
<1>17. InFlight'
  <2>1. Each(BurstList, Reads') = X \o bs /\ ReadSoFar(Reads') = k
    BY <1>1, <1>7, <1>10, Zenon
  <2>2. Awaited(Each(BurstList, Reads'), Flow(chan'.ar), Flow(chan'.r), ReadSoFar(Reads'))
    BY <1>8, <1>11, <1>12, <2>1, Zenon DEF R
  <2> QED
    BY <1>2, <1>12, <2>2, Zenon DEF Inv, InFlight
<1> QED
  BY <1>14, <1>15, <1>16, <1>17 DEF Inv

\* The first read as far as it is now.
LEMMA ReadFurther ==
  ASSUME NEW q \in Seq(Reading), q # <<>>, NEW at \in Reading
  PROVE  LET r == [q EXCEPT ![1] = at]
         IN  /\ r \in Seq(Reading) /\ Len(r) = Len(q) /\ r[1] = at
             /\ \A i \in 1 .. Len(q) : i # 1 => r[i] = q[i]
             /\ Each(BurstList, r) = at.burst_list \o Each(BurstList, Tail(q))
             /\ ReadSoFar(r) = at.k
<1> DEFINE r == [q EXCEPT ![1] = at]
<1>1. /\ r \in Seq(Reading) /\ r # <<>> /\ Head(r) = at /\ Tail(r) = Tail(q) /\ Len(r) = Len(q)
      /\ \A i \in 1 .. Len(q) : i # 1 => r[i] = q[i]
  BY FirstReplaced
<1> HIDE DEF r
<1>2. Each(BurstList, r) = Head(r).burst_list \o Each(BurstList, Tail(r)) /\ ReadSoFar(r) = Head(r).k
  BY <1>1, ReadsAre
<1>3. r[1] = at
  BY <1>1, HeadTailProperties
<1> QED
  BY <1>1, <1>2, <1>3 DEF r

\* A read with one more beat.
OneMore(at, data, k, l) == [at EXCEPT !.data = data, !.beats = @ + 1, !.k = k, !.burst_list = l]

LEMMA OneMoreIs ==
  ASSUME NEW at \in Reading, NEW data \in Seq(Val), NEW k \in Nat, NEW l \in Seq(Burst), l # <<>>
  PROVE  /\ OneMore(at, data, k, l) \in Reading /\ OneMore(at, data, k, l).call = at.call
         /\ OneMore(at, data, k, l).k = k /\ OneMore(at, data, k, l).burst_list = l
<1>1. at \in [call : Nat, burst_list : Seq(Burst), k : Nat, beats : Nat, data : Seq(Val)]
  BY DEF Reading
<1> DEFINE n == at.beats + 1
           new == [at EXCEPT !.data = data, !.beats = n, !.k = k, !.burst_list = l]
<1>2. n \in Nat
  BY <1>1
<1> HIDE DEF n
<1>3. /\ new \in [call : Nat, burst_list : Seq(Burst), k : Nat, beats : Nat, data : Seq(Val)]
      /\ new.call = at.call /\ new.k = k /\ new.burst_list = l
  BY <1>1, <1>2
<1> HIDE DEF new
<1>4. new \in Reading
  BY <1>3 DEF Reading
<1> QED
  BY <1>3, <1>4 DEF new, n, OneMore

\* The first read takes a beat; with the last beat of a burst it goes on to the next, and
\* with the last burst it is done.
LEMMA Takes ==
  ASSUME Inv, read_resp_logic
  PROVE  Inv'
<1> DEFINE at   == Head(Reads)
           l    == at.burst_list
           b    == Head(l)
           c    == calls[at.call]
           over == at.k + 1 = b.length
           X    == Each(BurstList, Reads)
           E    == Each(BurstList, Tail(Reads))
           A    == Flow(chan.ar)
<1>1. /\ Reads # <<>>
      /\ \E i \in BeatOf(b.id) :
           LET data == at.data \o Taken(c, at.beats, chan.r.sink[i])
           IN  /\ chan' = [chan EXCEPT !["r"] = Without(chan.r, i)]
               /\ \/ over /\ Len(l) = 1 /\ Reads' = Tail(Reads)
                  \/ /\ ~(over /\ Len(l) = 1)
                     /\ Reads' = [Reads EXCEPT ![1] =
                                    [at EXCEPT !.data = data, !.beats = @ + 1,
                                       !.k = IF over THEN 0 ELSE @ + 1,
                                       !.burst_list = IF over THEN Tail(@) ELSE @]]
  BY DEF read_resp_logic, Without, Reads
<1>2. UNCHANGED <<calls, write_command_queue, read_command_queue, cur_write_id, cur_read_id,
                  served, mem>>
  BY DEF read_resp_logic, asked, queues, ids, ram
<1>3. PICK i \in BeatOf(b.id) :
        /\ chan' = [chan EXCEPT !["r"] = Without(chan.r, i)]
        /\ \/ over /\ Len(l) = 1 /\ Reads' = Tail(Reads)
           \/ /\ ~(over /\ Len(l) = 1)
              /\ Reads' = [Reads EXCEPT ![1] =
                             [at EXCEPT !.data = at.data \o Taken(c, at.beats, chan.r.sink[i]),
                                !.beats = @ + 1,
                                !.k = IF over THEN 0 ELSE @ + 1,
                                !.burst_list = IF over THEN Tail(@) ELSE @]]
  BY <1>1, Zenon
<1> DEFINE dh   == Without(chan.r, i)
           x    == chan.r.sink[i]
           data == at.data \o Taken(c, at.beats, x)
           new  == [at EXCEPT !.data = data, !.beats = @ + 1,
                      !.k = IF over THEN 0 ELSE @ + 1,
                      !.burst_list = IF over THEN Tail(@) ELSE @]
<1>4. /\ Well(dh, BeatOut) /\ x \in BeatOut
      /\ over => Awaited(Tail(X), A, Flow(dh), 0)
      /\ ~over => Awaited(X, A, Flow(dh), at.k + 1)
  BY <1>1, BeatTaken, Zenon
<1>5. /\ chan = [d \in Channels |-> chan[d]] /\ Reads \in Seq(Reading) /\ calls \in Seq(Calls)
      /\ \A j \in 1 .. Len(Reads) : Reads[j].call \in 1 .. Len(calls) /\ (j # 1 => Reads[j].k = 0)
  BY DEF Inv, Asking, Channelling, Waiting
<1>6. /\ at \in Reading /\ l \in Seq(Burst) /\ l # <<>>
      /\ Tail(Reads) \in Seq(Reading) /\ E \in Seq(Burst) /\ X = l \o E
      /\ Tail(X) = Tail(l) \o E
  BY <1>1, <1>5, ReadsAre
<1>7. at \in [call : Nat, burst_list : Seq(Burst), k : Nat, beats : Nat, data : Seq(Val)]
  BY <1>6 DEF Reading
<1>8. Len(Reads) \in Nat /\ Len(Reads) >= 1 /\ at = Reads[1]
  BY <1>1, <1>5, LenProperties, EmptySeq, HeadTailProperties
<1>9. /\ chan' = [d \in Channels |-> chan'[d]] /\ chan'.r = dh
      /\ chan'.aw = chan.aw /\ chan'.w = chan.w /\ chan'.b = chan.b /\ chan'.ar = chan.ar
  <2>1. chan' = [chan EXCEPT !["r"] = dh]
    BY <1>3
  <2> HIDE DEF dh
  <2> QED
    BY <1>5, <2>1 DEF Channels
<1>10. Asking' /\ Storing'
  BY <1>2 DEF Inv, Asking, Storing
<1> HIDE DEF dh
<1>11. Channelling'
  BY <1>4, <1>9, Zenon DEF Inv, Channelling
<1>12. CASE over /\ Len(l) = 1 /\ Reads' = Tail(Reads)
  <2>1. Tail(l) = <<>>
    <3>1. Tail(l) \in Seq(Burst) /\ Len(Tail(l)) = 0
      BY <1>6, <1>12, HeadTailProperties
    <3> QED
      BY <3>1, EmptySeq
  <2>2. Tail(X) = E
    <3> HIDE DEF E
    <3> QED
      BY <1>6, <2>1, ConcatEmptySeq
  <2>3. Reads' \in Seq(Reading) /\ Len(Reads') = Len(Reads) - 1
        /\ \A j \in 1 .. Len(Reads) - 1 : Reads'[j] = Reads[j + 1]
    BY <1>1, <1>5, <1>12, HeadTailProperties
  <2>4. \A j \in 1 .. Len(Reads') : Reads'[j].call \in 1 .. Len(calls) /\ Reads'[j].k = 0
    <3>1. ASSUME NEW j \in 1 .. Len(Reads')
          PROVE  Reads'[j].call \in 1 .. Len(calls) /\ Reads'[j].k = 0
      <4>1. j + 1 \in 1 .. Len(Reads) /\ j + 1 # 1 /\ Reads'[j] = Reads[j + 1]
        BY <1>8, <2>3
      <4> QED
        BY <1>5, <4>1
    <3> QED
      BY <3>1
  <2>5. Waiting'
    BY <1>2, <2>3, <2>4 DEF Waiting
  <2>6. ReadSoFar(Reads') = 0
    <3>1. CASE Reads' = <<>>
      BY <3>1 DEF ReadSoFar
    <3>2. CASE Reads' # <<>>
      <4>1. Head(Reads') = Reads'[1] /\ 1 \in 1 .. Len(Reads')
        BY <2>3, <3>2, EmptySeq, HeadTailProperties, LenProperties
      <4> QED
        BY <2>4, <3>2, <4>1 DEF ReadSoFar
    <3> QED
      BY <3>1, <3>2
  <2>7. Awaited(Each(BurstList, Reads'), Flow(chan'.ar), Flow(chan'.r), ReadSoFar(Reads'))
    BY <1>4, <1>9, <1>12, <2>2, <2>6, Zenon
  <2>8. InFlight'
    BY <1>2, <1>9, <2>7, Zenon DEF Inv, InFlight
  <2> QED
    BY <1>10, <1>11, <2>5, <2>8 DEF Inv
<1>13. CASE ~(over /\ Len(l) = 1) /\ Reads' = [Reads EXCEPT ![1] = new]
  <2>1. data \in Seq(Val) /\ at.call \in 1 .. Len(calls)
    <3>1. at.call \in 1 .. Len(calls)
      BY <1>5, <1>8
    <3>2. c \in Calls
      BY <1>5, <3>1, ElementOfSeq
    <3>3. Taken(c, at.beats, x) \in Seq(Val)
      BY <1>4, <1>7, <3>2, TakenIs
    <3>4. at.data \in Seq(Val)
      BY <1>7
    <3> QED
      BY <3>1, <3>3, <3>4, ConcatProperties
  <2>2. over => Tail(l) \in Seq(Burst) /\ Tail(l) # <<>>
    <3>1. ASSUME over PROVE Tail(l) \in Seq(Burst) /\ Tail(l) # <<>>
      <4>1. Tail(l) \in Seq(Burst) /\ Len(Tail(l)) = Len(l) - 1 /\ Len(l) \in Nat /\ Len(l) # 1
        BY <1>6, <1>13, <3>1, HeadTailProperties, LenProperties
      <4> HIDE DEF at, l, over, data, new
      <4>2. Len(Tail(l)) # 0
        BY <4>1
      <4> QED
        BY <4>1, <4>2, EmptySeq
    <3> QED
      BY <3>1
  <2>3. /\ new \in Reading /\ new.call = at.call
        /\ over => new.k = 0 /\ new.burst_list = Tail(l)
        /\ ~over => new.k = at.k + 1 /\ new.burst_list = l
    <3> DEFINE nk == IF over THEN 0 ELSE at.k + 1
               nl == IF over THEN Tail(l) ELSE l
    <3>1. new = OneMore(at, data, nk, nl)
      BY DEF OneMore
    <3> HIDE DEF new, data, over, at
    <3>2. nk \in Nat /\ nl \in Seq(Burst) /\ nl # <<>>
      BY <1>6, <1>7, <2>2
    <3> HIDE DEF nk, nl
    <3>3. new \in Reading /\ new.call = at.call /\ new.k = nk /\ new.burst_list = nl
      <4>1. at \in Reading /\ data \in Seq(Val)
        BY <1>6, <2>1
      <4>2. /\ OneMore(at, data, nk, nl) \in Reading /\ OneMore(at, data, nk, nl).call = at.call
            /\ OneMore(at, data, nk, nl).k = nk /\ OneMore(at, data, nk, nl).burst_list = nl
        BY <3>2, <4>1, OneMoreIs
      <4> QED
        BY <3>1, <4>2
    <3> QED
      BY <3>3 DEF nk, nl
  <2> HIDE DEF new, data, over
  <2>4. /\ Reads' \in Seq(Reading) /\ Len(Reads') = Len(Reads) /\ Reads'[1] = new
        /\ \A j \in 1 .. Len(Reads) : j # 1 => Reads'[j] = Reads[j]
        /\ Each(BurstList, Reads') = new.burst_list \o E
        /\ ReadSoFar(Reads') = new.k
    <3> DEFINE r == [Reads EXCEPT ![1] = new]
    <3>1. Reads' = r
      BY <1>13
    <3>2. /\ r \in Seq(Reading) /\ Len(r) = Len(Reads) /\ r[1] = new
          /\ \A j \in 1 .. Len(Reads) : j # 1 => r[j] = Reads[j]
          /\ Each(BurstList, r) = new.burst_list \o Each(BurstList, Tail(Reads))
          /\ ReadSoFar(r) = new.k
      BY <1>1, <1>5, <2>3, ReadFurther, ZenonT(60)
    <3> HIDE DEF r
    <3> QED
      BY <3>1, <3>2
  <2>5. Waiting'
    <3>1. ASSUME NEW j \in 1 .. Len(Reads')
          PROVE  Reads'[j].call \in 1 .. Len(calls) /\ (j # 1 => Reads'[j].k = 0)
      <4>1. CASE j = 1
        BY <2>1, <2>3, <2>4, <4>1
      <4>2. CASE j # 1
        BY <1>5, <2>4, <4>2
      <4> QED
        BY <4>1, <4>2
    <3> QED
      BY <1>2, <2>4, <3>1 DEF Waiting
  <2>6. Awaited(Each(BurstList, Reads'), Flow(chan'.ar), Flow(chan'.r), ReadSoFar(Reads'))
    <3>1. CASE over
      BY <1>4, <1>6, <1>9, <2>3, <2>4, <3>1, Zenon
    <3>2. CASE ~over
      BY <1>4, <1>6, <1>9, <2>3, <2>4, <3>2, Zenon
    <3> QED
      BY <3>1, <3>2
  <2>7. InFlight'
    BY <1>2, <1>9, <2>6, Zenon DEF Inv, InFlight
  <2> QED
    BY <1>10, <1>11, <2>5, <2>7 DEF Inv
<1> QED
  BY <1>3, <1>12, <1>13, Zenon

LEMMA Keeps == Inv /\ [Next]_vars => Inv'
<1> SUFFICES ASSUME Inv, [Next]_vars PROVE Inv'
  OBVIOUS
<1>1. ASSUME NEW c \in Calls, init_write(c) \/ init_read(c) PROVE Inv'
  BY <1>1, Asks
<1>2. CASE write_logic
  BY <1>2, Writes
<1>3. CASE read_logic
  BY <1>3, ReadsOut
<1>4. CASE write_resp_logic
  BY <1>4, Responds
<1>5. CASE read_resp_logic
  BY <1>5, Takes
<1>6. ASSUME NEW c \in Channels, Edge(c) PROVE Inv'
  BY <1>6, Edges
<1>7. CASE write_addr_edge \/ write_data_edge \/ write_resp_edge \/ read_addr_edge \/ read_data_edge
  BY <1>6, <1>7 DEF Channels, write_addr_edge, write_data_edge, write_resp_edge,
                    read_addr_edge, read_data_edge
<1>8. CASE Overtake
  BY <1>8, Overtakes
<1>9. CASE RamWrite
  BY <1>9, RamWrites
<1>10. CASE RamRead
  BY <1>10, RamReads
<1>11. CASE UNCHANGED vars
  <2>1. UNCHANGED <<calls, write_command_queue, read_command_queue, cur_write_id, cur_read_id,
                    int_read_resp_command_queue, chan, served, mem>>
    BY <1>11 DEF vars, asked, queues, ids, resps, ram
  <2> QED
    BY <2>1 DEF Inv, Asking, Channelling, Storing, Waiting, InFlight, Reads
<1> QED
  BY <1>1, <1>2, <1>3, <1>4, <1>5, <1>7, <1>8, <1>9, <1>10, <1>11 DEF Next

\* The assertions of axi.py hold in every run of it, whatever the width of the bus, the
\* longest burst and the number of ids, whoever is paused, and whichever beats overtake
\* each other.
THEOREM AssertionsHold == Spec => []AssertsHold
<1>1. Spec => []Inv
  BY Begins, Keeps, PTL DEF Spec
<1> QED
  BY <1>1, Safe, PTL

---------------------------------------------------------------------------
(* Where the bytes of a write go *)

\* The bytes of beat k are those at First .. Past - 1, of the word that begins at Word.
First(c, k) == IF k = 0 THEN c.addr ELSE Here(c, k)
Past(c, k)  == IF k = Cycles(c) - 1 THEN c.addr + c.len ELSE Here(c, k) + c.num_bytes

LEMMA CycleSpan ==
  ASSUME NEW c \in Calls
  PROVE  LET n == c.num_bytes
             C == Cycles(c)
         IN  /\ Here(c, 0) \in Nat /\ Here(c, 0) <= c.addr /\ c.addr < Here(c, 0) + n
             /\ c.addr - Here(c, 0) = c.addr % n
             /\ Here(c, C - 1) < c.addr + c.len /\ c.addr + c.len <= Here(c, C - 1) + n
             /\ \A k \in Nat : Here(c, k) = Here(c, 0) + k * n /\ Here(c, k) \in Nat
<1> DEFINE n == c.num_bytes
           C == Cycles(c)
           q == c.addr \div n
           r == c.addr % n
           x == c.len + n - 1 + r
<1>1. c.addr \in Nat /\ c.len \in Nat /\ c.len > 0 /\ n \in Nat /\ n > 0 /\ C \in Nat /\ C > 0
  BY CallIs, CyclesIs
<1>2. q \in Nat /\ r \in 0 .. n - 1 /\ c.addr = n * q + r
  BY <1>1, Remainder
<1>3. x \in Nat /\ C = x \div n
  <2>1. C = (c.len + n - 1 + (c.addr % n)) \div n
    BY DEF Cycles
  <2>2. c.len + n - 1 + r \in Nat
    BY <1>1, <1>2
  <2> QED
    BY <2>1, <2>2
<1>4. \A k \in Nat : Here(c, k) = q * n + k * n
  BY DEF Here, AlignedAddr
<1> HIDE DEF n, C, q, r
<1> HIDE DEF x
<1>5. x % n \in 0 .. n - 1 /\ x = n * C + (x % n)
  BY <1>1, <1>3, Remainder
<1>6. q * n = n * q /\ n * q \in Nat /\ 0 * n = 0 /\ (C - 1) * n = n * C - n /\ C - 1 \in Nat /\ n * C \in Nat
  BY <1>1, <1>2
<1>7. Here(c, 0) = n * q /\ Here(c, C - 1) = n * q + (n * C - n)
  BY <1>4, <1>6
<1>8. \A k \in Nat : k * n \in Nat
  BY <1>1
<1>9. \A k \in Nat : Here(c, k) = Here(c, 0) + k * n /\ Here(c, k) \in Nat
  <2> TAKE k \in Nat
  <2> DEFINE y == k * n
             z == n * q
  <2>1. y \in Nat /\ z \in Nat /\ Here(c, k) = z + y /\ Here(c, 0) = z
    BY <1>4, <1>6, <1>7, <1>8
  <2> HIDE DEF y, z
  <2>2. Here(c, k) = Here(c, 0) + y /\ Here(c, k) \in Nat
    BY <2>1
  <2> QED
    BY <2>2 DEF y
<1> DEFINE z == n * q
           y == n * C
           t == x % n
<1>10. /\ Here(c, 0) = z /\ Here(c, C - 1) = z + (y - n) /\ c.addr = z + r
       /\ x = y + t /\ z \in Nat /\ y \in Nat /\ t \in 0 .. n - 1
  BY <1>2, <1>5, <1>6, <1>7
<1> HIDE DEF z, y, t
<1>11. /\ Here(c, 0) \in Nat /\ Here(c, 0) <= c.addr /\ c.addr < Here(c, 0) + n
       /\ c.addr - Here(c, 0) = r
  BY <1>1, <1>2, <1>10
<1>12. Here(c, C - 1) < c.addr + c.len /\ c.addr + c.len <= Here(c, C - 1) + n
  BY <1>1, <1>2, <1>10 DEF x
<1> QED
  BY <1>9, <1>11, <1>12 DEF n, C, r

\* The beats of a call follow each other from its first byte to its last.
LEMMA BeatsFollow ==
  ASSUME NEW c \in Calls
  PROVE  /\ First(c, 0) = c.addr /\ Past(c, Cycles(c) - 1) = c.addr + c.len
         /\ \A k \in 0 .. Cycles(c) - 1 :
              /\ First(c, k) \in Nat /\ Past(c, k) \in Nat /\ First(c, k) < Past(c, k)
              /\ c.addr <= First(c, k) /\ Past(c, k) <= c.addr + c.len
              /\ Here(c, k) <= First(c, k) /\ Past(c, k) <= Here(c, k) + c.num_bytes
              /\ k # Cycles(c) - 1 => First(c, k + 1) = Past(c, k)
         /\ \A k, m \in 0 .. Cycles(c) - 1 : k < m => Past(c, k) <= First(c, m)
<1> DEFINE n == c.num_bytes
           C == Cycles(c)
           h == Here(c, 0)
<1>1. c.addr \in Nat /\ c.len \in Nat /\ c.len > 0 /\ n \in Nat /\ n > 0 /\ C \in Nat /\ C > 0
  BY CallIs, CyclesIs
<1>2. /\ h \in Nat /\ h <= c.addr /\ c.addr < h + n
      /\ Here(c, C - 1) < c.addr + c.len /\ c.addr + c.len <= Here(c, C - 1) + n
      /\ \A k \in Nat : Here(c, k) = h + k * n /\ Here(c, k) \in Nat
  BY CycleSpan
<1> HIDE DEF n, C, h
<1>3. \A k, m \in Nat : k < m => k * n + n <= m * n
  <2> TAKE k, m \in Nat
  <2>1. ASSUME k < m PROVE k * n + n <= m * n
    <3>1. (m - k - 1) * n \in Nat
      <4>1. m - k - 1 \in Nat
        BY <2>1
      <4> QED
        BY <1>1, <4>1
    <3>2. m * n = k * n + n + (m - k - 1) * n
      BY <1>1
    <3>3. k * n \in Nat /\ m * n \in Nat
      BY <1>1
    <3> QED
      BY <1>1, <3>1, <3>2, <3>3
  <2> QED
    BY <2>1
<1>4. \A k, m \in Nat : k < m => Here(c, k) + n <= Here(c, m)
  <2> TAKE k, m \in Nat
  <2>1. ASSUME k < m PROVE Here(c, k) + n <= Here(c, m)
    <3> DEFINE y == k * n
               z == m * n
    <3>1. y + n <= z /\ y \in Nat /\ z \in Nat
      BY <1>1, <1>3, <2>1
    <3>2. Here(c, k) = h + y /\ Here(c, m) = h + z
      BY <1>2
    <3> HIDE DEF y, z
    <3> QED
      BY <1>1, <1>2, <3>1, <3>2
  <2> QED
    BY <2>1
<1>5. Here(c, 0) = h
  BY DEF h
<1>6. /\ \A k \in Nat : First(c, k) = IF k = 0 THEN c.addr ELSE Here(c, k)
      /\ \A k \in Nat : Past(c, k) = IF k = C - 1 THEN c.addr + c.len ELSE Here(c, k) + n
  BY DEF First, Past, C, n
<1>7. ASSUME NEW k \in 0 .. C - 1
      PROVE  /\ First(c, k) \in Nat /\ Past(c, k) \in Nat
             /\ First(c, k) < Past(c, k)
             /\ c.addr <= First(c, k) /\ Past(c, k) <= c.addr + c.len
             /\ Here(c, k) <= First(c, k) /\ Past(c, k) <= Here(c, k) + n
             /\ k # C - 1 => First(c, k + 1) = Past(c, k)
  <2>1. k \in Nat /\ C - 1 \in Nat /\ Here(c, k) \in Nat /\ k + 1 \in Nat /\ k + 1 # 0
    BY <1>1, <1>2
  <2>2. k # 0 => h + n <= Here(c, k)
    BY <1>4, <1>5, <2>1
  <2>3. k # C - 1 => Here(c, k) + n <= Here(c, C - 1)
    BY <1>1, <1>4, <2>1
  <2>4. /\ First(c, k) \in Nat /\ c.addr <= First(c, k) /\ Here(c, k) <= First(c, k)
        /\ First(c, k) < Here(c, k) + n /\ First(c, k) < c.addr + c.len
    <3>1. CASE k = 0
      BY <1>1, <1>2, <1>5, <1>6, <3>1
    <3>2. CASE k # 0
      <4>1. First(c, k) = Here(c, k)
        BY <1>6, <2>1, <3>2
      <4>2. Here(c, k) < c.addr + c.len
        BY <1>1, <1>2, <2>1, <2>3
      <4> QED
        BY <1>1, <1>2, <2>1, <2>2, <3>2, <4>1, <4>2
    <3> QED
      BY <3>1, <3>2
  <2>5. Past(c, k) \in Nat /\ Past(c, k) <= c.addr + c.len /\ Past(c, k) <= Here(c, k) + n
        /\ (Past(c, k) = c.addr + c.len \/ Past(c, k) = Here(c, k) + n)
    <3>1. CASE k = C - 1
      BY <1>1, <1>2, <1>6, <2>1, <3>1
    <3>2. CASE k # C - 1
      <4>1. Past(c, k) = Here(c, k) + n
        BY <1>6, <2>1, <3>2
      <4>2. Here(c, C - 1) \in Nat
        BY <1>2, <2>1
      <4> QED
        BY <1>1, <1>2, <2>1, <2>3, <3>2, <4>1, <4>2
    <3> QED
      BY <3>1, <3>2
  <2>6. First(c, k) < Past(c, k)
    BY <2>4, <2>5
  <2>7. k # C - 1 => First(c, k + 1) = Past(c, k)
    <3>1. Here(c, k + 1) = Here(c, k) + n
      <4>1. (k + 1) * n = k * n + n
        BY <1>1, <2>1
      <4>2. k * n \in Nat
        BY <1>1, <2>1
      <4>3. Here(c, k + 1) = h + (k * n + n) /\ Here(c, k) = h + k * n
        BY <1>2, <2>1, <4>1
      <4> QED
        BY <1>1, <1>2, <4>2, <4>3
    <3> QED
      BY <1>6, <2>1, <3>1
  <2> QED
    BY <2>4, <2>5, <2>6, <2>7
<1>8. ASSUME NEW k \in 0 .. C - 1, NEW m \in 0 .. C - 1, k < m
      PROVE  Past(c, k) <= First(c, m)
  <2>1. k \in Nat /\ m \in Nat /\ k # C - 1 /\ m # 0
    BY <1>1, <1>8
  <2>2. Here(c, k) + n <= Here(c, m)
    BY <1>4, <1>8, <2>1
  <2> QED
    BY <1>6, <2>1, <2>2
<1>9. First(c, 0) = c.addr /\ Past(c, C - 1) = c.addr + c.len
  <2>1. C - 1 \in Nat
    BY <1>1
  <2> QED
    BY <1>6, <2>1
<1> QED
  BY <1>7, <1>8, <1>9 DEF C, n

\* Every byte of a call is in one of its beats.
LEMMA BeatOfByte ==
  ASSUME NEW c \in Calls, NEW x \in c.addr .. c.addr + c.len - 1
  PROVE  \E k \in 0 .. Cycles(c) - 1 : First(c, k) <= x /\ x < Past(c, k)
<1> DEFINE C == Cycles(c)
           S == {k \in 0 .. C - 1 : x < Past(c, k)}
<1>1. c.addr \in Nat /\ c.len \in Nat /\ c.len > 0 /\ C \in Nat /\ C > 0
  BY CallIs, CyclesIs
<1>2. /\ First(c, 0) = c.addr /\ Past(c, C - 1) = c.addr + c.len
      /\ \A k \in 0 .. C - 1 : k # C - 1 => First(c, k + 1) = Past(c, k)
      /\ \A k \in 0 .. C - 1 : First(c, k) \in Nat /\ Past(c, k) \in Nat
  BY BeatsFollow
<1> HIDE DEF C
<1>3. C - 1 \in S /\ S \subseteq Nat
  BY <1>1, <1>2
<1>4. PICK k \in S : \A m \in S : ~(m < k)
  BY <1>3, FirstNumber
<1>5. First(c, k) <= x
  <2>1. CASE k = 0
    BY <1>1, <1>2, <2>1
  <2>2. CASE k # 0
    <3>1. k - 1 \in 0 .. C - 1 /\ k - 1 # C - 1 /\ (k - 1) + 1 = k /\ k - 1 < k
      BY <1>1, <2>2
    <3>2. ~(x < Past(c, k - 1))
      BY <1>4, <3>1
    <3>3. First(c, k) = Past(c, k - 1) /\ Past(c, k - 1) \in Nat
      BY <1>2, <3>1
    <3> QED
      BY <1>1, <3>2, <3>3
  <2> QED
    BY <2>1, <2>2
<1> QED
  BY <1>4, <1>5 DEF C

\* The lanes of a beat are the places of its bytes in their word.
LEMMA LanesOfBeat ==
  ASSUME NEW c \in Calls, NEW k \in 0 .. Cycles(c) - 1
  PROVE  /\ Word(c, k) \in Nat
         /\ Word(c, k) <= First(c, k) /\ Past(c, k) <= Word(c, k) + BW
         /\ StartLane(c, k) = First(c, k) - Word(c, k)
         /\ StopLane(c, k) = Past(c, k) - Word(c, k)
         /\ Before(c, k) = First(c, k) - c.addr
<1> DEFINE n == c.num_bytes
           C == Cycles(c)
           X == Here(c, k)
           w == Word(c, k)
           o == LaneOffset(c, k)
<1>1. c.addr \in Nat /\ c.len \in Nat /\ c.len > 0 /\ n \in Nat /\ n > 0 /\ C \in Nat /\ C > 0 /\ k \in Nat
      /\ BW \in Nat /\ BW > 0
  BY CallIs, CyclesIs, Sizes
<1>2. /\ X \in Nat /\ Here(c, 0) \in Nat /\ Here(c, 0) <= c.addr /\ c.addr < Here(c, 0) + n
      /\ c.addr - Here(c, 0) = c.addr % n
      /\ X = Here(c, 0) + k * n
      /\ Here(c, C - 1) < c.addr + c.len /\ c.addr + c.len <= Here(c, C - 1) + n
  BY <1>1, CycleSpan
<1>3. /\ First(c, k) \in Nat /\ Past(c, k) \in Nat /\ First(c, k) < Past(c, k)
      /\ X <= First(c, k) /\ Past(c, k) <= X + n
  BY BeatsFollow
<1>4. o = X % BW /\ o + n <= BW
  BY <1>1, LanesAre DEF LaneOffset, Here
<1>5. w = (X \div BW) * BW
  BY DEF Word
<1>6. X \div BW \in Nat /\ X % BW \in 0 .. BW - 1 /\ X = BW * (X \div BW) + (X % BW)
  BY <1>1, <1>2, Remainder
<1> DEFINE d == X \div BW
<1>7. w = d * BW /\ d * BW = BW * d /\ BW * d \in Nat /\ X = BW * d + o /\ o \in 0 .. BW - 1
  BY <1>1, <1>4, <1>5, <1>6
<1>8. w \in Nat /\ X = w + o /\ w <= X /\ X + n <= w + BW
  <2> HIDE DEF w, d, X, o, n
  <2> QED
    BY <1>1, <1>4, <1>7
<1>9. /\ First(c, k) = IF k = 0 THEN c.addr ELSE X
      /\ Past(c, k) = IF k = C - 1 THEN c.addr + c.len ELSE X + n
      /\ StartLane(c, k) = IF k = 0 THEN c.addr % BW ELSE o
      /\ StopLane(c, k) = IF k = C - 1 THEN ((c.addr + c.len - 1) % BW) + 1 ELSE o + n
      /\ Before(c, k) = IF k = 0 THEN 0 ELSE k * n - (c.addr % n)
  BY DEF First, Past, StartLane, StopLane, Before
\* A byte of the word of the beat is in the lane that its distance from it says.
<1>10. ASSUME NEW x \in Nat, w <= x, x < w + BW PROVE x % BW = x - w
  <2> DEFINE e == x \div BW
             t == x % BW
  <2>1. e \in Nat /\ t \in 0 .. BW - 1 /\ x = BW * e + t
    BY <1>1, Remainder
  <2>2. d \in Nat /\ w = BW * d
    BY <1>6, <1>7
  <2> HIDE DEF e, t, d, w
  <2>3. e = d
    <3>1. ~(e < d)
      <4> SUFFICES ASSUME e < d PROVE FALSE
        OBVIOUS
      <4>1. BW * (e + 1) <= BW * d
        BY <1>1, <2>1, <2>2
      <4>2. BW * (e + 1) = BW * e + BW /\ BW * e \in Nat
        BY <1>1, <2>1
      <4> QED
        BY <1>1, <1>10, <2>1, <2>2, <4>1, <4>2
    <3>2. ~(d < e)
      <4> SUFFICES ASSUME d < e PROVE FALSE
        OBVIOUS
      <4>1. BW * (d + 1) <= BW * e
        BY <1>1, <2>1, <2>2
      <4>2. BW * (d + 1) = BW * d + BW /\ BW * d \in Nat /\ BW * e \in Nat
        BY <1>1, <2>1, <2>2
      <4> QED
        BY <1>1, <1>10, <2>1, <2>2, <4>1, <4>2
    <3> QED
      BY <2>1, <2>2, <3>1, <3>2
  <2>4. BW * e \in Nat
    BY <1>1, <2>1
  <2> QED
    BY <2>1, <2>2, <2>3, <2>4 DEF t
<1> HIDE DEF n, C, X, w, o, d
<1>11. w <= First(c, k) /\ Past(c, k) <= w + BW
  BY <1>1, <1>2, <1>3, <1>8
<1>12. StartLane(c, k) = First(c, k) - w
  <2>1. CASE k = 0
    <3>1. First(c, k) = c.addr /\ StartLane(c, k) = c.addr % BW
      BY <1>9, <2>1
    <3>2. c.addr < w + BW
      BY <1>1, <1>3, <1>8, <1>11, <3>1
    <3> QED
      BY <1>1, <1>10, <1>11, <3>1, <3>2
  <2>2. CASE k # 0
    <3>1. First(c, k) = X /\ StartLane(c, k) = o
      BY <1>9, <2>2
    <3> QED
      BY <1>2, <1>7, <1>8, <3>1
  <2> QED
    BY <2>1, <2>2
<1>13. StopLane(c, k) = Past(c, k) - w
  <2>1. CASE k = C - 1
    <3>1. Past(c, k) = c.addr + c.len /\ StopLane(c, k) = ((c.addr + c.len - 1) % BW) + 1
      BY <1>9, <2>1
    <3>2. c.addr + c.len - 1 \in Nat /\ w <= c.addr + c.len - 1 /\ c.addr + c.len - 1 < w + BW
      BY <1>1, <1>3, <1>8, <1>11, <3>1
    <3> DEFINE x == c.addr + c.len - 1
    <3>3. x \in Nat /\ w <= x /\ x < w + BW
      BY <3>2
    <3> HIDE DEF x
    <3>4. x % BW = x - w
      BY <1>10, <3>3
    <3>5. StopLane(c, k) = (x - w) + 1
      BY <3>1, <3>4 DEF x
    <3> QED
      BY <1>1, <1>8, <3>1, <3>5 DEF x
  <2>2. CASE k # C - 1
    <3>1. Past(c, k) = X + n /\ StopLane(c, k) = o + n
      BY <1>9, <2>2
    <3> QED
      BY <1>1, <1>2, <1>7, <1>8, <3>1
  <2> QED
    BY <2>1, <2>2
<1>14. Before(c, k) = First(c, k) - c.addr
  <2>1. CASE k = 0
    BY <1>1, <1>9, <2>1
  <2>2. CASE k # 0
    <3> DEFINE y == k * n
    <3>1. y \in Nat /\ X = Here(c, 0) + y /\ First(c, k) = X /\ Before(c, k) = y - (c.addr % n)
      BY <1>1, <1>2, <1>9, <2>2
    <3> HIDE DEF y
    <3> QED
      BY <1>1, <1>2, <3>1
  <2> QED
    BY <2>1, <2>2
<1> QED
  BY <1>8, <1>11, <1>12, <1>13, <1>14 DEF w

\* What the memory does with a beat, and all a call has it do.
Store     == [place : Nat, data : Data]
Stores(n) == [k \in 1 .. Cycles(calls[n]) |->
                [place |-> Word(calls[n], k - 1), data |-> WriteBeat(n, k - 1).data]]

Touches(st, a) == \E j \in DOMAIN st.data : a = (st.place + j) % Size
Leaves(st, a)  == st.data[CHOOSE j \in DOMAIN st.data : a = (st.place + j) % Size]

LEMMA StoresAre ==
  ASSUME calls \in Seq(Calls), NEW n \in 1 .. Len(calls)
  PROVE  /\ Stores(n) \in Seq(Store) /\ Len(Stores(n)) = Cycles(calls[n])
         /\ \A k \in 1 .. Cycles(calls[n]) :
              Stores(n)[k] = [place |-> Word(calls[n], k - 1), data |-> WriteBeat(n, k - 1).data]
         /\ \A k \in 1 .. Cycles(calls[n]) : Stores(n)[k].data = WriteBeats(n)[k].data
         /\ Len(WriteBeats(n)) = Cycles(calls[n])
<1> DEFINE c == calls[n]
           C == Cycles(c)
           W == WriteBeats(n)
           S == Stores(n)
<1>1. c \in Calls /\ W \in Seq(BeatIn)
  BY WriteBeatsAre
<1>2. C \in Nat
  BY <1>1, CyclesIs
<1>3. W = [k \in 1 .. C |-> WriteBeat(n, k - 1)]
  BY DEF WriteBeats
<1>4. S = [k \in 1 .. C |-> [place |-> Word(c, k - 1), data |-> WriteBeat(n, k - 1).data]]
  BY DEF Stores
<1> HIDE DEF C, W, S
<1>5. Len(W) = C
  BY <1>2, <1>3
<1>6. ASSUME NEW k \in 1 .. C
      PROVE  [place |-> Word(c, k - 1), data |-> WriteBeat(n, k - 1).data] \in Store
  <2>1. W[k] \in BeatIn /\ W[k] = WriteBeat(n, k - 1)
    BY <1>1, <1>3, <1>5, ElementOfSeq
  <2>2. WriteBeat(n, k - 1).data \in Data
    BY <2>1 DEF BeatIn
  <2>3. k - 1 \in 0 .. C - 1
    BY <1>2
  <2>4. Word(c, k - 1) \in Nat
    BY <1>1, <2>3, LanesOfBeat DEF C
  <2> QED
    BY <2>2, <2>4 DEF Store
<1>7. S \in Seq(Store) /\ Len(S) = C
  BY <1>2, <1>4, <1>6
<1>8. \A k \in 1 .. C : S[k] = [place |-> Word(c, k - 1), data |-> WriteBeat(n, k - 1).data]
  BY <1>4
<1>9. ASSUME NEW k \in 1 .. C PROVE S[k].data = W[k].data
  <2>1. W[k] = WriteBeat(n, k - 1)
    BY <1>3
  <2> DEFINE d == WriteBeat(n, k - 1).data
             p == Word(c, k - 1)
  <2>2. S[k] = [place |-> p, data |-> d]
    BY <1>8
  <2> HIDE DEF d, p
  <2>3. S[k].data = d
    BY <2>2
  <2> QED
    BY <2>1, <2>3 DEF d
<1> QED
  BY <1>5, <1>7, <1>8, <1>9 DEF C, W, S

\* A cell is in no two lanes of a word.
LEMMA OneLane ==
  ASSUME NEW w \in Nat, NEW x \in Nat, NEW y \in Nat, w <= x, x < w + BW, w <= y, y < w + BW,
         x % Size = y % Size
  PROVE  x = y
<1>1. BW \in Nat /\ BW > 0 /\ Size \in Nat /\ Size > 0 /\ BW <= Size
  <2>1. PICK q \in Nat : Size = BW * q
    BY Sizes, SizesAssumption, Multiple
  <2>2. q > 0
    BY <2>1, Sizes
  <2>3. BW * 1 <= BW * q
    BY <2>1, <2>2, Sizes
  <2> QED
    BY <2>1, <2>3, Sizes
<1> DEFINE d == x \div Size
           e == y \div Size
           r == x % Size
<1>2. /\ d \in Nat /\ r \in 0 .. Size - 1 /\ x = Size * d + r
      /\ e \in Nat /\ y = Size * e + r
  BY <1>1, Remainder
<1> HIDE DEF d, e, r
<1>3. d = e
  <2>1. ~(d < e)
    <3> SUFFICES ASSUME d < e PROVE FALSE
      OBVIOUS
    <3>1. Size * (d + 1) <= Size * e
      BY <1>1, <1>2
    <3>2. Size * (d + 1) = Size * d + Size /\ Size * d \in Nat /\ Size * e \in Nat
      BY <1>1, <1>2
    <3> QED
      BY <1>1, <1>2, <3>1, <3>2
  <2>2. ~(e < d)
    <3> SUFFICES ASSUME e < d PROVE FALSE
      OBVIOUS
    <3>1. Size * (e + 1) <= Size * d
      BY <1>1, <1>2
    <3>2. Size * (e + 1) = Size * e + Size /\ Size * d \in Nat /\ Size * e \in Nat
      BY <1>1, <1>2
    <3> QED
      BY <1>1, <1>2, <3>1, <3>2
  <2> QED
    BY <1>2, <2>1, <2>2
<1> QED
  BY <1>2, <1>3

\* A beat puts the bytes of its call into the cells of their addresses.
LEMMA StoreOfBeat ==
  ASSUME calls \in Seq(Calls), NEW n \in 1 .. Len(calls), NEW k \in 1 .. Cycles(calls[n]), NEW a
  PROVE  LET c  == calls[n]
             st == Stores(n)[k]
         IN  /\ \A x \in First(c, k - 1) .. Past(c, k - 1) - 1 :
                  x % Size = a => Touches(st, a) /\ Leaves(st, a) = Byte(n, x - c.addr)
             /\ Touches(st, a) => \E x \in First(c, k - 1) .. Past(c, k - 1) - 1 : x % Size = a
<1> DEFINE c  == calls[n]
           st == Stores(n)[k]
           h  == k - 1
           w  == Word(c, h)
           F  == First(c, h)
           P  == Past(c, h)
           D  == F - w .. P - w - 1
<1>1. c \in Calls
  BY WriteBeatsAre
<1>2. c.addr \in Nat /\ Cycles(c) \in Nat /\ h \in 0 .. Cycles(c) - 1 /\ BW \in Nat
  BY <1>1, CallIs, CyclesIs, Sizes
<1>3. /\ w \in Nat /\ w <= F /\ P <= w + BW
      /\ StartLane(c, h) = F - w /\ StopLane(c, h) = P - w /\ Before(c, h) = F - c.addr
  BY <1>1, <1>2, LanesOfBeat
<1>4. F \in Nat /\ P \in Nat /\ F < P /\ c.addr <= F
  BY <1>1, <1>2, BeatsFollow
<1>5. st.place = w /\ st.data = WriteBeat(n, h).data
  <2>1. st = [place |-> Word(c, k - 1), data |-> WriteBeat(n, k - 1).data]
    BY StoresAre
  <2> QED
    BY <2>1
<1>6. st.data = [j \in StartLane(c, h) .. StopLane(c, h) - 1 |-> Byte(n, Before(c, h) + j - StartLane(c, h))]
  BY <1>5 DEF WriteBeat
<1> HIDE DEF c, st, h, w, F, P
<1>7. st.data = [j \in D |-> Byte(n, (w + j) - c.addr)]
  <2>1. StartLane(c, h) .. StopLane(c, h) - 1 = D
    BY <1>3
  <2>2. \A j \in D : Before(c, h) + j - StartLane(c, h) = (w + j) - c.addr
    BY <1>2, <1>3, <1>4
  <2> QED
    BY <1>6, <2>1, <2>2
<1>8. DOMAIN st.data = D /\ \A j \in D : st.data[j] = Byte(n, (w + j) - c.addr)
  BY <1>7
<1>9. ASSUME NEW x \in F .. P - 1, x % Size = a
      PROVE  Touches(st, a) /\ Leaves(st, a) = Byte(n, x - c.addr)
  <2> DEFINE i == CHOOSE j \in DOMAIN st.data : a = (st.place + j) % Size
  <2>1. x - w \in D /\ w + (x - w) = x
    BY <1>3, <1>4
  <2>2. \E j \in DOMAIN st.data : a = (st.place + j) % Size
    BY <1>5, <1>8, <1>9, <2>1
  <2>3. i \in DOMAIN st.data /\ a = (st.place + i) % Size
    BY <2>2, Zenon
  <2>4. i \in D /\ (w + i) % Size = x % Size
    BY <1>5, <1>8, <1>9, <2>3
  <2>5. Leaves(st, a) = st.data[i]
    BY DEF Leaves
  <2> HIDE DEF i
  <2>6. w + i = x
    <3>1. w + i \in Nat /\ w <= w + i /\ w + i < w + BW
      <4>1. i \in D
        BY <2>4
      <4> QED
        BY <1>2, <1>3, <1>4, <4>1
    <3>2. w <= x /\ x < w + BW /\ x \in Nat
      BY <1>2, <1>3, <1>4, SMTT(30)
    <3> DEFINE y == w + i
    <3>3. y \in Nat /\ w <= y /\ y < w + BW /\ y % Size = x % Size
      BY <2>4, <3>1
    <3> HIDE DEF D, y
    <3>4. y = x
      BY <1>3, <3>2, <3>3, OneLane
    <3> QED
      BY <3>4 DEF y
  <2>7. Touches(st, a)
    BY <2>2 DEF Touches
  <2>8. st.data[i] = Byte(n, (w + i) - c.addr)
    BY <1>8, <2>4
  <2>9. (w + i) - c.addr = x - c.addr
    BY <2>6, Zenon
  <2>10. st.data[i] = Byte(n, x - c.addr)
    BY <2>8, <2>9, Zenon
  <2> QED
    BY <2>5, <2>7, <2>10, Zenon
<1>10. ASSUME Touches(st, a) PROVE \E x \in F .. P - 1 : x % Size = a
  <2>1. PICK j \in D : a = (w + j) % Size
    BY <1>5, <1>8, <1>10 DEF Touches
  <2>2. w + j \in F .. P - 1
    BY <1>3, <1>4
  <2> QED
    BY <2>1, <2>2
<1> QED
  BY <1>9, <1>10 DEF c, st, h, F, P

\* What a holds in the end if the stores s are made on the memory m, one after the other:
\* v is what the last of those leaves that touch it, or what is there.
Untouched(s, a)   == \A i \in 1 .. Len(s) : ~Touches(s[i], a)
EndsAs(s, a, v)   == \E i \in 1 .. Len(s) :
                       /\ Touches(s[i], a) /\ Leaves(s[i], a) = v
                       /\ \A l \in 1 .. Len(s) : l > i => ~Touches(s[l], a)
Shows(m, s, a, v) == (Untouched(s, a) /\ v = m[a]) \/ EndsAs(s, a, v)

LEMMA TouchedBehind ==
  ASSUME NEW s \in Seq(Store), NEW t \in Seq(Store), NEW a
  PROVE  /\ Untouched(s, a) /\ Untouched(t, a) => Untouched(s \o t, a)
         /\ \A v : EndsAs(s, a, v) /\ Untouched(t, a) => EndsAs(s \o t, a, v)
         /\ \A v : EndsAs(t, a, v) => EndsAs(s \o t, a, v)
<1> DEFINE u == s \o t
           m == Len(s)
           n == Len(t)
<1>1. /\ m \in Nat /\ n \in Nat /\ Len(u) = m + n
      /\ \A i \in 1 .. m + n : u[i] = IF i <= m THEN s[i] ELSE t[i - m]
  BY ConcatProperties, LenProperties
<1> HIDE DEF u
<1>2. /\ \A i \in 1 .. m : i \in 1 .. Len(u) /\ u[i] = s[i]
      /\ \A i \in 1 .. n : m + i \in 1 .. Len(u) /\ u[m + i] = t[i]
      /\ \A i \in 1 .. Len(u) : i \in 1 .. m \/ (i - m \in 1 .. n /\ m + (i - m) = i)
  <2>1. \A i \in 1 .. m : i \in 1 .. Len(u) /\ u[i] = s[i]
    BY <1>1
  <2>2. ASSUME NEW i \in 1 .. n PROVE m + i \in 1 .. Len(u) /\ u[m + i] = t[i]
    <3>1. m + i \in 1 .. m + n /\ ~(m + i <= m) /\ (m + i) - m = i
      BY <1>1
    <3> QED
      BY <1>1, <3>1
  <2>3. \A i \in 1 .. Len(u) : i \in 1 .. m \/ (i - m \in 1 .. n /\ m + (i - m) = i)
    BY <1>1
  <2> QED
    BY <2>1, <2>2, <2>3
<1> HIDE DEF m, n
<1>3. ASSUME Untouched(t, a) PROVE \A i \in 1 .. Len(u) : i \notin 1 .. m => ~Touches(u[i], a)
  <2> TAKE i \in 1 .. Len(u)
  <2>1. ASSUME i \notin 1 .. m PROVE ~Touches(u[i], a)
    <3>1. i - m \in 1 .. n /\ m + (i - m) = i
      BY <1>2, <2>1
    <3>2. u[i] = t[i - m]
      BY <1>2, <3>1
    <3> QED
      BY <1>3, <3>1, <3>2 DEF Untouched, n
  <2> QED
    BY <2>1
<1>4. ASSUME Untouched(s, a), Untouched(t, a) PROVE Untouched(u, a)
  <2>1. \A i \in 1 .. m : ~Touches(u[i], a)
    BY <1>2, <1>4 DEF Untouched, m
  <2> QED
    BY <1>3, <1>4, <2>1 DEF Untouched
<1>5. ASSUME NEW v, EndsAs(s, a, v), Untouched(t, a) PROVE EndsAs(u, a, v)
  <2>1. PICK i \in 1 .. m : /\ Touches(s[i], a) /\ Leaves(s[i], a) = v
                            /\ \A l \in 1 .. m : l > i => ~Touches(s[l], a)
    BY <1>5 DEF EndsAs, m
  <2>2. i \in 1 .. Len(u) /\ u[i] = s[i]
    BY <1>2
  <2>3. \A l \in 1 .. Len(u) : l > i => ~Touches(u[l], a)
    <3>1. \A l \in 1 .. m : l > i => ~Touches(u[l], a)
      BY <1>2, <2>1
    <3> QED
      BY <1>3, <1>5, <3>1
  <2> QED
    BY <2>1, <2>2, <2>3 DEF EndsAs
<1>6. ASSUME NEW v, EndsAs(t, a, v) PROVE EndsAs(u, a, v)
  <2>1. PICK i \in 1 .. n : /\ Touches(t[i], a) /\ Leaves(t[i], a) = v
                            /\ \A l \in 1 .. n : l > i => ~Touches(t[l], a)
    BY <1>6 DEF EndsAs, n
  <2>2. m + i \in 1 .. Len(u) /\ u[m + i] = t[i]
    BY <1>2
  <2>3. ASSUME NEW l \in 1 .. Len(u), l > m + i PROVE ~Touches(u[l], a)
    <3>1. m \in Nat
      BY <1>1
    <3>2. l \notin 1 .. m
      BY <2>3, <3>1
    <3>3. l - m \in 1 .. n /\ m + (l - m) = l
      BY <1>2, <3>2
    <3>4. u[l] = t[l - m] /\ l - m > i
      BY <1>2, <2>3, <3>1, <3>3
    <3> QED
      BY <2>1, <3>3, <3>4
  <2> QED
    BY <2>1, <2>2, <2>3 DEF EndsAs
<1> QED
  BY <1>4, <1>5, <1>6 DEF u

\* More stores behind those on their way.
LEMMA ShowsMore ==
  ASSUME NEW m, NEW s \in Seq(Store), NEW t \in Seq(Store), NEW a, NEW v, NEW w, Shows(m, s, a, v),
         (Untouched(t, a) /\ w = v) \/ EndsAs(t, a, w)
  PROVE  Shows(m, s \o t, a, w)
<1>1. CASE Untouched(t, a) /\ w = v /\ Untouched(s, a) /\ v = m[a]
  BY <1>1, TouchedBehind, Zenon DEF Shows
<1>2. CASE Untouched(t, a) /\ w = v /\ EndsAs(s, a, v)
  BY <1>2, TouchedBehind, Zenon DEF Shows
<1>3. CASE EndsAs(t, a, w)
  BY <1>3, TouchedBehind, Zenon DEF Shows
<1> QED
  BY <1>1, <1>2, <1>3, Zenon DEF Shows

\* The first store is made.
LEMMA ShowsNext ==
  ASSUME NEW m, NEW p, NEW s \in Seq(Store), s # <<>>, NEW a, NEW v, Shows(m, s, a, v),
         p[a] = IF Touches(Head(s), a) THEN Leaves(Head(s), a) ELSE m[a]
  PROVE  Shows(p, Tail(s), a, v)
<1> DEFINE t == Tail(s)
           n == Len(s)
<1>1. /\ n \in Nat /\ n >= 1 /\ Len(t) = n - 1 /\ Head(s) = s[1]
      /\ \A i \in 1 .. n - 1 : t[i] = s[i + 1]
  BY LenProperties, EmptySeq, HeadTailProperties
<1> HIDE DEF t, n
<1>2. ASSUME Untouched(s, a), v = m[a] PROVE Untouched(t, a) /\ v = p[a]
  <2>1. 1 \in 1 .. n /\ \A i \in 1 .. n - 1 : i + 1 \in 1 .. n
    BY <1>1
  <2> QED
    BY <1>1, <1>2, <2>1 DEF Untouched, n
<1>3. ASSUME EndsAs(s, a, v) PROVE (Untouched(t, a) /\ v = p[a]) \/ EndsAs(t, a, v)
  <2>1. PICK i \in 1 .. n : /\ Touches(s[i], a) /\ Leaves(s[i], a) = v
                            /\ \A l \in 1 .. n : l > i => ~Touches(s[l], a)
    BY <1>3 DEF EndsAs, n
  <2>2. ASSUME NEW l \in 1 .. n - 1, l + 1 > i PROVE ~Touches(t[l], a)
    <3>1. l + 1 \in 1 .. n /\ t[l] = s[l + 1]
      BY <1>1
    <3> QED
      BY <2>1, <2>2, <3>1
  <2>3. CASE i = 1
    <3>1. v = p[a]
      BY <1>1, <2>1, <2>3
    <3>2. \A l \in 1 .. n - 1 : l + 1 > i
      BY <1>1, <2>3
    <3> QED
      BY <1>1, <2>2, <3>1, <3>2 DEF Untouched
  <2>4. CASE i # 1
    <3>1. i - 1 \in 1 .. n - 1 /\ (i - 1) + 1 = i
      BY <1>1, <2>4
    <3>2. t[i - 1] = s[i]
      BY <1>1, <3>1
    <3>3. \A l \in 1 .. n - 1 : l > i - 1 => l + 1 > i
      BY <1>1
    <3>4. \A l \in 1 .. Len(t) : l > i - 1 => ~Touches(t[l], a)
      BY <1>1, <2>2, <3>3
    <3>5. i - 1 \in 1 .. Len(t) /\ Touches(t[i - 1], a) /\ Leaves(t[i - 1], a) = v
      BY <1>1, <2>1, <3>1, <3>2
    <3> QED
      BY <3>4, <3>5, Zenon DEF EndsAs
  <2> QED
    BY <2>3, <2>4
<1> QED
  BY <1>2, <1>3 DEF Shows, t

\* The bytes of a call that are for a end there.
LEMMA StoresShow ==
  ASSUME calls \in Seq(Calls), NEW n \in 1 .. Len(calls), NEW a
  PROVE  /\ Puts(a, n) \subseteq 0 .. calls[n].len - 1
         /\ Puts(a, n) = {} => Untouched(Stores(n), a)
         /\ Puts(a, n) # {} => EndsAs(Stores(n), a, Byte(n, Max(Puts(a, n))))
<1> DEFINE c == calls[n]
           S == Stores(n)
           C == Cycles(c)
           U == Puts(a, n)
           M == Max(U)
<1>1. c \in Calls
  BY WriteBeatsAre
<1>2. c.addr \in Nat /\ c.len \in Nat /\ c.len > 0 /\ C \in Nat
  BY <1>1, CallIs, CyclesIs
<1>3. Len(S) = C
  BY StoresAre
<1>4. \A j \in 0 .. c.len - 1 : j \in U <=> (c.addr + j) % Size = a
  BY DEF Puts, At
<1>5. U \subseteq 0 .. c.len - 1
  BY DEF Puts
<1>6. /\ \A k \in 0 .. C - 1 : /\ First(c, k) \in Nat /\ Past(c, k) \in Nat
                               /\ c.addr <= First(c, k) /\ Past(c, k) <= c.addr + c.len
      /\ \A k, m \in 0 .. C - 1 : k < m => Past(c, k) <= First(c, m)
  BY <1>1, BeatsFollow
<1>7. \A k \in 1 .. C :
        /\ \A x \in First(c, k - 1) .. Past(c, k - 1) - 1 :
             x % Size = a => Touches(S[k], a) /\ Leaves(S[k], a) = Byte(n, x - c.addr)
        /\ Touches(S[k], a) => \E x \in First(c, k - 1) .. Past(c, k - 1) - 1 : x % Size = a
  <2> TAKE k \in 1 .. C
  <2>1. k \in 1 .. Cycles(calls[n])
    OBVIOUS
  <2> HIDE DEF c, S, C
  <2> QED
    BY <2>1, StoreOfBeat, SMTT(60) DEF c, S
<1>8. \A x \in c.addr .. c.addr + c.len - 1 :
        \E k \in 0 .. C - 1 : First(c, k) <= x /\ x < Past(c, k)
  BY <1>1, BeatOfByte
<1> HIDE DEF c, S, C, U
\* A beat that touches a has a byte for it.
<1>9. ASSUME NEW k \in 1 .. C, Touches(S[k], a)
      PROVE  \E j \in U : First(c, k - 1) <= c.addr + j /\ c.addr + j < Past(c, k - 1)
  <2>1. PICK x \in First(c, k - 1) .. Past(c, k - 1) - 1 : x % Size = a
    BY <1>7, <1>9
  <2>2. k - 1 \in 0 .. C - 1
    BY <1>2
  <2>3. x \in Nat /\ c.addr <= x /\ x < c.addr + c.len /\ First(c, k - 1) <= x /\ x < Past(c, k - 1)
    BY <1>2, <1>6, <2>2
  <2>4. x - c.addr \in 0 .. c.len - 1 /\ c.addr + (x - c.addr) = x
    BY <1>2, <2>3
  <2>5. x - c.addr \in U
    BY <1>4, <2>1, <2>4
  <2> QED
    BY <2>3, <2>4, <2>5
<1>10. ASSUME U = {} PROVE Untouched(S, a)
  BY <1>3, <1>9, <1>10 DEF Untouched
<1>11. ASSUME U # {} PROVE EndsAs(S, a, Byte(n, M))
  <2>1. M \in U /\ \A j \in U : j <= M
    <3>1. c.len - 1 \in Nat
      BY <1>2
    <3> QED
      BY <1>5, <1>11, <3>1, MaxOf
  <2> HIDE DEF M
  <2>2. M \in 0 .. c.len - 1 /\ (c.addr + M) % Size = a
    BY <1>4, <1>5, <2>1
  <2> DEFINE x == c.addr + M
  <2>3. x \in c.addr .. c.addr + c.len - 1 /\ x - c.addr = M /\ x \in Nat
    BY <1>2, <2>2
  <2>4. PICK h \in 0 .. C - 1 : First(c, h) <= x /\ x < Past(c, h)
    BY <1>8, <2>3
  <2>5. x % Size = a
    BY <2>2
  <2> HIDE DEF x
  <2>6. h + 1 \in 1 .. C /\ (h + 1) - 1 = h
    BY <1>2
  <2>7. x \in First(c, h) .. Past(c, h) - 1
    BY <1>6, <2>3, <2>4
  <2>8. Touches(S[h + 1], a) /\ Leaves(S[h + 1], a) = Byte(n, x - c.addr)
    BY <1>7, <2>5, <2>6, <2>7
  <2>9. ASSUME NEW l \in 1 .. C, l > h + 1 PROVE ~Touches(S[l], a)
    <3> SUFFICES ASSUME Touches(S[l], a) PROVE FALSE
      OBVIOUS
    <3>1. PICK j \in U : First(c, l - 1) <= c.addr + j
      BY <1>9
    <3>2. l - 1 \in 0 .. C - 1 /\ h < l - 1
      BY <1>2, <2>9
    <3>3. Past(c, h) <= First(c, l - 1)
      BY <1>6, <3>2
    <3>4. j \in Nat /\ j <= M /\ M \in Nat
      BY <1>2, <1>5, <2>1, <2>2
    <3> QED
      BY <1>2, <1>6, <2>4, <3>1, <3>2, <3>3, <3>4 DEF x
  <2> QED
    BY <1>3, <2>3, <2>6, <2>8, <2>9 DEF EndsAs
<1> QED
  BY <1>5, <1>10, <1>11 DEF U, S, c

---------------------------------------------------------------------------
(* Writing: what is on its way, and the stores it will be *)

PlaceOf   == [st \in Store |-> <<st.place>>]
DataOf(I) == [x \in I |-> <<x.data>>]

\* Of A, W, whose first burst has been served n beats of, the stores s are made.
AreStores(A, W, n, s) ==
  /\ After(Nat, Each(PlacesOf(Burst), A), n, Each(PlaceOf, s))
  /\ Each(DataOf(BeatIn), W) = Each(DataOf(Store), s)

LEMMA ListsOfStores ==
  /\ PlacesOf(Burst) \in Lists(Burst, Nat) /\ PlaceOf \in Lists(Store, Nat)
  /\ DataOf(BeatIn) \in Lists(BeatIn, Data) /\ DataOf(Store) \in Lists(Store, Data)
  /\ \A b \in Burst : /\ PlacesOf(Burst)[b] = Places(b) /\ Places(b) \in Seq(Nat)
                      /\ Len(Places(b)) = b.length
                      /\ \A n \in 1 .. b.length : Places(b)[n] = WordAddr(b, n - 1)
<1>1. ASSUME NEW b \in Burst
      PROVE  /\ Places(b) \in Seq(Nat) /\ Len(Places(b)) = b.length
             /\ \A n \in 1 .. b.length : Places(b)[n] = WordAddr(b, n - 1)
  <2>1. b.addr \in Nat /\ b.length \in Nat /\ b.num_bytes \in Nat
    BY DEF Burst
  <2>2. ASSUME NEW n \in 1 .. b.length PROVE WordAddr(b, n - 1) \in Nat
    <3> DEFINE h == b.addr + (n - 1) * b.num_bytes
    <3>1. h \in Nat
      <4>1. n - 1 \in Nat
        BY <2>1
      <4> QED
        BY <2>1, <4>1
    <3>2. WordAddr(b, n - 1) = (h \div BW) * BW
      BY DEF WordAddr
    <3> HIDE DEF h
    <3>3. h \div BW \in Nat
      BY <3>1, Sizes, Remainder
    <3> QED
      BY <3>2, <3>3, Sizes
  <2> QED
    BY <2>1, <2>2 DEF Places
<1>2. \A b \in Burst : PlacesOf(Burst)[b] = Places(b)
  BY DEF PlacesOf
<1>3. PlacesOf(Burst) \in Lists(Burst, Nat)
  BY <1>1 DEF PlacesOf, Lists
<1>4. PlaceOf \in Lists(Store, Nat)
  BY DEF PlaceOf, Store, Lists
<1>5. \A x \in BeatIn : <<x.data>> \in Seq(Data)
  BY DEF BeatIn
<1>6. \A x \in Store : <<x.data>> \in Seq(Data)
  BY DEF Store
<1>7. DataOf(BeatIn) \in Lists(BeatIn, Data) /\ DataOf(Store) \in Lists(Store, Data)
  BY <1>5, <1>6 DEF DataOf, Lists
<1> QED
  BY <1>1, <1>2, <1>3, <1>4, <1>7

LEMMA PlacesAre ==
  ASSUME NEW s \in Seq(Store), NEW w \in Seq(Nat), Len(w) = Len(s),
         \A k \in 1 .. Len(s) : s[k].place = w[k]
  PROVE  Each(PlaceOf, s) = w
<1>1. \A k \in 1 .. Len(s) : s[k] \in Store /\ w[k] \in Nat
  BY ElementOfSeq
<1>2. \A k \in 1 .. Len(s) : PlaceOf[s[k]] = Itself(Nat)[w[k]]
  BY <1>1 DEF PlaceOf, Itself
<1>3. [k \in 1 .. Len(s) |-> PlaceOf[s[k]]] = [k \in 1 .. Len(w) |-> Itself(Nat)[w[k]]]
  BY <1>2
<1>4. Each(PlaceOf, s) = Each(Itself(Nat), w)
  BY <1>3, Zenon DEF Each
<1> QED
  BY <1>4, EachItself

\* The bursts and beats of a call are the stores of it.
LEMMA StoresOfCall ==
  ASSUME calls \in Seq(Calls), NEW n \in 1 .. Len(calls), NEW bs,
         Each(PlacesOf(Burst), bs) = Slice(Words(calls[n]), 0, Cycles(calls[n]))
  PROVE  /\ Each(PlacesOf(Burst), bs) = Each(PlaceOf, Stores(n))
         /\ Each(DataOf(BeatIn), WriteBeats(n)) = Each(DataOf(Store), Stores(n))
<1> DEFINE c == calls[n]
           C == Cycles(c)
           S == Stores(n)
           W == WriteBeats(n)
           w == Slice(Words(c), 0, C)
<1>1. c \in Calls /\ W \in Seq(BeatIn)
  BY WriteBeatsAre
<1>2. C \in Nat
  BY <1>1, CyclesIs
<1>3. /\ S \in Seq(Store) /\ Len(S) = C /\ Len(W) = C
      /\ \A k \in 1 .. C : S[k] = [place |-> Word(c, k - 1), data |-> WriteBeat(n, k - 1).data]
      /\ \A k \in 1 .. C : S[k].data = W[k].data
  BY StoresAre
<1>4. Words(c) \in [Nat -> Nat] /\ \A k \in Nat : Words(c)[k] = Word(c, k)
  BY <1>1, WordsAre
<1> HIDE DEF c, C, S, W
<1>5. w \in Seq(Nat) /\ Len(w) = C
  <2> DEFINE v == Words(c)
  <2>1. v \in [Nat -> Nat]
    BY <1>4
  <2> HIDE DEF v
  <2>2. Slice(v, 0, C) \in Seq(Nat) /\ Len(Slice(v, 0, C)) = C
    BY <1>2, <2>1, Slices
  <2> QED
    BY <2>2 DEF v
<1>6. ASSUME NEW k \in 1 .. C PROVE S[k].place = w[k]
  <2> DEFINE p == Word(c, k - 1)
             d == WriteBeat(n, k - 1).data
  <2>1. S[k] = [place |-> p, data |-> d]
    BY <1>3
  <2>2. 0 + k - 1 = k - 1 /\ k - 1 \in Nat
    BY <1>2
  <2>3. w[k] = p
    BY <1>4, <2>2 DEF Slice
  <2> HIDE DEF p, d, w
  <2>4. S[k].place = p
    BY <2>1
  <2> QED
    BY <2>3, <2>4
<1> HIDE DEF w
<1>7. Each(PlaceOf, S) = w
  <2>1. S \in Seq(Store) /\ w \in Seq(Nat) /\ Len(w) = Len(S)
    BY <1>3, <1>5
  <2>2. \A k \in 1 .. Len(S) : S[k].place = w[k]
    BY <1>3, <1>6
  <2> QED
    BY <2>1, <2>2, PlacesAre, Zenon
<1>8. Each(DataOf(BeatIn), W) = Each(DataOf(Store), S)
  <2>1. \A k \in 1 .. C : DataOf(BeatIn)[W[k]] = DataOf(Store)[S[k]]
    <3>1. \A k \in 1 .. C : W[k] \in BeatIn /\ S[k] \in Store
      BY <1>1, <1>3, ElementOfSeq
    <3> QED
      BY <1>3, <3>1 DEF DataOf
  <2>2. [k \in 1 .. Len(W) |-> DataOf(BeatIn)[W[k]]] = [k \in 1 .. Len(S) |-> DataOf(Store)[S[k]]]
    BY <1>3, <2>1
  <2> QED
    BY <2>2, Zenon DEF Each
<1> QED
  BY <1>7, <1>8 DEF S, W, w, c, C

LEMMA StoresPut ==
  ASSUME NEW A \in Seq(Burst), NEW W \in Seq(BeatIn), NEW n \in Nat, NEW s \in Seq(Store),
         AreStores(A, W, n, s),
         NEW bs \in Seq(Burst), NEW ws \in Seq(BeatIn), NEW t \in Seq(Store),
         Each(PlacesOf(Burst), bs) = Each(PlaceOf, t),
         Each(DataOf(BeatIn), ws) = Each(DataOf(Store), t)
  PROVE  AreStores(A \o bs, W \o ws, n, s \o t)
<1> DEFINE f == PlacesOf(Burst)
           g == PlaceOf
           d == DataOf(BeatIn)
           e == DataOf(Store)
<1>1. f \in Lists(Burst, Nat) /\ g \in Lists(Store, Nat)
      /\ d \in Lists(BeatIn, Data) /\ e \in Lists(Store, Data)
  BY ListsOfStores
<1>2. /\ After(Nat, Each(f, A), n, Each(g, s)) /\ Each(f, bs) = Each(g, t)
      /\ Each(d, W) = Each(e, s) /\ Each(d, ws) = Each(e, t)
  BY DEF AreStores
<1> HIDE DEF f, g, d, e
<1>3. /\ Each(f, A) \in Seq(Nat) /\ Each(f, bs) \in Seq(Nat)
      /\ Each(f, A \o bs) = Each(f, A) \o Each(f, bs)
  <2>1. /\ \A a, b \in Seq(Burst) : a \o b \in Seq(Burst) /\ Each(f, a \o b) = Each(f, a) \o Each(f, b)
        /\ \A a \in Seq(Burst) : Each(f, a) \in Seq(Nat)
    BY <1>1, EachSplits, Zenon
  <2> QED
    BY <2>1
<1>4. Each(g, s) \in Seq(Nat) /\ Each(g, s \o t) = Each(g, s) \o Each(g, t)
  <2>1. /\ \A a, b \in Seq(Store) : a \o b \in Seq(Store) /\ Each(g, a \o b) = Each(g, a) \o Each(g, b)
        /\ \A a \in Seq(Store) : Each(g, a) \in Seq(Nat)
    BY <1>1, EachSplits, Zenon
  <2> QED
    BY <2>1
<1>5. Each(d, W \o ws) = Each(d, W) \o Each(d, ws)
  <2>1. /\ \A a, b \in Seq(BeatIn) : a \o b \in Seq(BeatIn) /\ Each(d, a \o b) = Each(d, a) \o Each(d, b)
        /\ \A a \in Seq(BeatIn) : Each(d, a) \in Seq(Data)
    BY <1>1, EachSplits, Zenon
  <2> QED
    BY <2>1
<1>6. Each(e, s \o t) = Each(e, s) \o Each(e, t)
  <2>1. /\ \A a, b \in Seq(Store) : a \o b \in Seq(Store) /\ Each(e, a \o b) = Each(e, a) \o Each(e, b)
        /\ \A a \in Seq(Store) : Each(e, a) \in Seq(Data)
    BY <1>1, EachSplits, Zenon
  <2> QED
    BY <2>1
<1>7. After(Nat, Each(f, A) \o Each(f, bs), n, Each(g, s) \o Each(f, bs))
  BY <1>2, <1>3, <1>4, AfterPut
<1> QED
  BY <1>2, <1>3, <1>4, <1>5, <1>6, <1>7, Zenon DEF AreStores, f, g, d, e

LEMMA StoresTake ==
  ASSUME NEW A \in Seq(Burst), NEW W \in Seq(BeatIn), NEW n \in Nat, NEW s \in Seq(Store),
         AreStores(A, W, n, s), A # <<>>, W # <<>>, n < Head(A).length
  PROVE  /\ s # <<>> /\ Head(s) \in Store /\ Tail(s) \in Seq(Store)
         /\ Head(s).place = WordAddr(Head(A), n) /\ Head(s).data = Head(W).data
         /\ n = Head(A).length - 1 => AreStores(Tail(A), Tail(W), 0, Tail(s))
         /\ n # Head(A).length - 1 => AreStores(A, Tail(W), n + 1, Tail(s))
<1> DEFINE f == PlacesOf(Burst)
           g == PlaceOf
           d == DataOf(BeatIn)
           e == DataOf(Store)
           b == Head(A)
           x == Head(W)
           p == Each(f, Tail(A))
           q == Each(g, Tail(s))
<1>1. f \in Lists(Burst, Nat) /\ g \in Lists(Store, Nat)
      /\ d \in Lists(BeatIn, Data) /\ e \in Lists(Store, Data)
  BY ListsOfStores
<1>2. b \in Burst /\ x \in BeatIn /\ Tail(A) \in Seq(Burst) /\ Tail(W) \in Seq(BeatIn)
  BY HeadTailProperties
<1>3. After(Nat, Each(f, A), n, Each(g, s)) /\ Each(d, W) = Each(e, s)
  BY DEF AreStores
<1>4. /\ b.length \in Nat /\ b.length > 0 /\ f[b] = Places(b)
      /\ Places(b) \in Seq(Nat) /\ Len(Places(b)) = b.length
      /\ \A i \in 1 .. b.length : Places(b)[i] = WordAddr(b, i - 1)
  BY <1>2, BurstIs, ListsOfStores
<1>5. d[x] = <<x.data>> /\ x.data \in Data
  BY <1>2 DEF DataOf, BeatIn
<1>6. \A y \in Store : g[y] = <<y.place>> /\ e[y] = <<y.data>> /\ y.place \in Nat /\ y.data \in Data
  BY DEF PlaceOf, DataOf, Store
<1> HIDE DEF f, g, d, e
<1>7. p \in Seq(Nat) /\ Each(f, A) = Places(b) \o p
  <2>1. Each(f, Tail(A)) \in Seq(Nat) /\ Each(f, A) = f[Head(A)] \o Each(f, Tail(A))
    BY <1>1, EachFirst
  <2> QED
    BY <1>4, <2>1
<1>8. Each(d, Tail(W)) \in Seq(Data) /\ Each(d, W) = <<x.data>> \o Each(d, Tail(W))
  <2>1. Each(d, Tail(W)) \in Seq(Data) /\ Each(d, W) = d[Head(W)] \o Each(d, Tail(W))
    BY <1>1, EachFirst
  <2> QED
    BY <1>5, <2>1
<1>9. s # <<>>
  <2> SUFFICES ASSUME s = <<>> PROVE FALSE
    OBVIOUS
  <2>1. Each(e, s) = <<>>
    BY <1>1, EachOne
  <2> DEFINE u == <<x.data>>
             v == Each(d, Tail(W))
  <2>2. u \in Seq(Data) /\ u # <<>> /\ v \in Seq(Data)
    BY <1>5, <1>8
  <2>3. u \o v = <<>>
    BY <1>3, <1>8, <2>1
  <2> HIDE DEF u, v
  <2> QED
    BY <2>2, <2>3, FirstMoves
<1>10. Head(s) \in Store /\ Tail(s) \in Seq(Store)
  BY <1>9, HeadTailProperties
<1> DEFINE y == Head(s)
<1>11. /\ Each(g, s) \in Seq(Nat) /\ q \in Seq(Nat) /\ Each(g, s) = <<y.place>> \o q
       /\ y.place \in Nat /\ y.data \in Data
       /\ Each(e, Tail(s)) \in Seq(Data) /\ Each(e, s) = <<y.data>> \o Each(e, Tail(s))
  <2>1. Each(g, s) \in Seq(Nat) /\ Each(g, Tail(s)) \in Seq(Nat) /\ Each(g, s) = g[Head(s)] \o Each(g, Tail(s))
    BY <1>1, <1>9, EachFirst
  <2>2. Each(e, Tail(s)) \in Seq(Data) /\ Each(e, s) = e[Head(s)] \o Each(e, Tail(s))
    BY <1>1, <1>9, EachFirst
  <2> QED
    BY <1>6, <1>10, <2>1, <2>2
<1> HIDE DEF b, x, y, p, q
<1>12. x.data = y.data /\ Each(d, Tail(W)) = Each(e, Tail(s))
  <2> DEFINE u == x.data
             v == y.data
             k == Each(d, Tail(W))
             l == Each(e, Tail(s))
  <2>1. u \in Data /\ v \in Data /\ k \in Seq(Data) /\ l \in Seq(Data) /\ <<u>> \o k = <<v>> \o l
    BY <1>3, <1>5, <1>8, <1>11
  <2> HIDE DEF u, v, k, l
  <2>2. Head(<<u>> \o k) = u /\ Tail(<<u>> \o k) = k /\ Head(<<v>> \o l) = v /\ Tail(<<v>> \o l) = l
    BY <2>1, OneFirst
  <2>3. u = v /\ k = l
    BY <2>1, <2>2
  <2> QED
    BY <2>3 DEF u, v, k, l
<1>13. /\ y.place = Places(b)[n + 1]
       /\ n + 1 = Len(Places(b)) => After(Nat, p, 0, q)
       /\ n + 1 # Len(Places(b)) => After(Nat, Places(b) \o p, n + 1, q)
  <2> DEFINE a == Places(b)
             w == Each(g, s)
             u == y.place
  <2>1. a \in Seq(Nat) /\ w \in Seq(Nat) /\ After(Nat, a \o p, n, w) /\ n < Len(a)
    BY <1>3, <1>4, <1>7, <1>11 DEF b
  <2>2. u \in Nat /\ w = <<u>> \o q
    BY <1>11
  <2> HIDE DEF a, w, u
  <2>3. /\ Head(w) = a[n + 1]
        /\ n + 1 = Len(a) => After(Nat, p, 0, Tail(w))
        /\ n + 1 # Len(a) => After(Nat, a \o p, n + 1, Tail(w))
    BY <1>7, <2>1, AfterTake
  <2>4. Head(w) = u /\ Tail(w) = q
    BY <1>11, <2>2, OneFirst, SMTT(30)
  <2> QED
    BY <2>3, <2>4 DEF a, w, u
<1>14. y.place = WordAddr(b, n)
  <2>1. n + 1 \in 1 .. b.length /\ (n + 1) - 1 = n
    BY <1>4 DEF b
  <2> QED
    BY <1>4, <1>13, <2>1
<1>15. ASSUME n = b.length - 1 PROVE AreStores(Tail(A), Tail(W), 0, Tail(s))
  <2>1. n + 1 = Len(Places(b))
    BY <1>4, <1>15
  <2> QED
    BY <1>12, <1>13, <2>1 DEF AreStores, f, g, d, e, p, q
<1>16. ASSUME n # b.length - 1 PROVE AreStores(A, Tail(W), n + 1, Tail(s))
  <2>1. n + 1 # Len(Places(b))
    <3>1. b.length \in Nat /\ Len(Places(b)) = b.length
      BY <1>4
    <3> DEFINE m == b.length
    <3>2. m \in Nat /\ n # m - 1
      BY <1>16, <3>1
    <3> HIDE DEF m
    <3>3. n + 1 # m
      BY <3>2
    <3> QED
      BY <3>1, <3>3 DEF m
  <2>2. After(Nat, Each(f, A), n + 1, q)
    BY <1>7, <1>13, <2>1
  <2> QED
    BY <1>12, <2>2 DEF AreStores, f, g, d, e, q
<1> QED
  BY <1>9, <1>10, <1>12, <1>14, <1>15, <1>16 DEF b, x, y

\* With no burst on its way there is nothing to store.
LEMMA NoStores ==
  ASSUME NEW W \in Seq(BeatIn), NEW s \in Seq(Store), AreStores(<<>>, W, 0, s)
  PROVE  s = <<>>
<1> DEFINE f == PlacesOf(Burst)
           g == PlaceOf
<1>1. f \in Lists(Burst, Nat) /\ g \in Lists(Store, Nat)
  BY ListsOfStores
<1>2. After(Nat, Each(f, <<>>), 0, Each(g, s))
  BY DEF AreStores
<1>3. \A y \in Store : g[y] = <<y.place>> /\ y.place \in Nat
  BY DEF PlaceOf, Store
<1> HIDE DEF f, g
<1>4. Each(f, <<>>) = <<>> /\ <<>> \in Seq(Nat)
  BY <1>1, EachOne, EmptySeq
<1> SUFFICES ASSUME s # <<>> PROVE FALSE
  OBVIOUS
<1>5. Head(s) \in Store
  BY HeadTailProperties
<1> DEFINE u == Head(s).place
           q == Each(g, Tail(s))
           w == Each(g, s)
<1>6. w \in Seq(Nat) /\ q \in Seq(Nat) /\ w = <<u>> \o q /\ u \in Nat
  <2>1. Each(g, s) \in Seq(Nat) /\ Each(g, Tail(s)) \in Seq(Nat) /\ Each(g, s) = g[Head(s)] \o Each(g, Tail(s))
    BY <1>1, EachFirst
  <2> QED
    BY <1>3, <1>5, <2>1
<1>7. w = <<>>
  <2>1. After(Nat, <<>>, 0, w)
    BY <1>2, <1>4
  <2> HIDE DEF w
  <2> QED
    BY <1>4, <1>6, <2>1, AfterNone
<1> HIDE DEF u, q, w
<1>8. <<u>> \in Seq(Nat) /\ <<u>> # <<>>
  BY <1>6
<1> DEFINE o == <<u>>
<1> HIDE DEF o
<1>9. o \o q # <<>>
  BY <1>6, <1>8, FirstMoves DEF o
<1> QED
  BY <1>6, <1>7, <1>9 DEF o

---------------------------------------------------------------------------
(* What wait() waits for *)

\* What a call stores, as a fact of any state.
StoresFit ==
  calls \in Seq(Calls) =>
    \A n \in 1 .. Len(calls) :
      /\ Stores(n) \in Seq(Store)
      /\ \A a : /\ Puts(a, n) = {} => Untouched(Stores(n), a)
                /\ Puts(a, n) # {} => EndsAs(Stores(n), a, Byte(n, Max(Puts(a, n))))

LEMMA StoresAlwaysFit == StoresFit
<1> SUFFICES ASSUME calls \in Seq(Calls), NEW n \in 1 .. Len(calls)
             PROVE  /\ Stores(n) \in Seq(Store)
                    /\ \A a : /\ Puts(a, n) = {} => Untouched(Stores(n), a)
                              /\ Puts(a, n) # {} => EndsAs(Stores(n), a, Byte(n, Max(Puts(a, n))))
  BY DEF StoresFit
<1>1. Stores(n) \in Seq(Store)
  BY StoresAre
<1>2. ASSUME NEW a
      PROVE  /\ Puts(a, n) = {} => Untouched(Stores(n), a)
             /\ Puts(a, n) # {} => EndsAs(Stores(n), a, Byte(n, Max(Puts(a, n))))
  BY StoresShow
<1> QED
  BY <1>1, <1>2

LEMMA StoresFitNext == StoresFit'
BY StoresAlwaysFit, PTL

---------------------------------------------------------------------------
(* The responses the master waits for *)

\* A write that has gone out, and how many of its bursts are yet to be answered.
Count  == [call : Nat, transfers : Nat \ {0}]
Tokens == [x \in Count |-> [i \in 1 .. x.transfers |-> 0]]

Expected(q) == Len(Each(Tokens, q))

Writing == int_write_resp_command_queue

\* Every burst that is on its way is waited for, and so is every response.
Counted ==
  /\ Writing \in Seq(Count)
  /\ Expected(Writing) = Len(Flow(chan.aw)) + Len(Flow(chan.b))
  /\ in_flight_operations = Len(Writing) + Len(Reads)

LEMMA TokensAre ==
  /\ Tokens \in Lists(Count, {0}) /\ Expected(<<>>) = 0
  /\ \A x \in Count : /\ x.transfers \in Nat /\ x.transfers > 0
                      /\ Tokens[x] \in Seq({0}) /\ Len(Tokens[x]) = x.transfers
<1>1. ASSUME NEW x \in Count
      PROVE  /\ x.transfers \in Nat /\ x.transfers > 0
             /\ Tokens[x] \in Seq({0}) /\ Len(Tokens[x]) = x.transfers
  <2> DEFINE n == x.transfers
             t == [i \in 1 .. n |-> 0]
  <2>1. n \in Nat /\ n > 0
    BY DEF Count
  <2>2. Tokens[x] = t
    BY DEF Tokens
  <2> HIDE DEF n
  <2>3. t \in Seq({0}) /\ Len(t) = n
    BY <2>1
  <2> QED
    BY <2>1, <2>2, <2>3 DEF n
<1>2. Tokens \in Lists(Count, {0})
  <2>1. DOMAIN Tokens = Count /\ Tokens = [x \in Count |-> Tokens[x]]
    BY DEF Tokens
  <2> QED
    BY <1>1, <2>1 DEF Lists
<1>3. Each(Tokens, <<>>) = <<>>
  BY <1>2, EachOne
<1>4. Expected(<<>>) = 0
  BY <1>3, EmptySeq DEF Expected
<1> QED
  BY <1>1, <1>2, <1>4

LEMMA ExpectedTake ==
  ASSUME NEW q \in Seq(Count), q # <<>>
  PROVE  /\ Head(q) \in Count /\ Tail(q) \in Seq(Count)
         /\ Len(q) \in Nat /\ Len(q) > 0 /\ Len(Tail(q)) = Len(q) - 1
         /\ Expected(Tail(q)) \in Nat /\ Expected(q) = Head(q).transfers + Expected(Tail(q))
<1>1. /\ Head(q) \in Count /\ Tail(q) \in Seq(Count)
      /\ Len(q) \in Nat /\ Len(q) > 0 /\ Len(Tail(q)) = Len(q) - 1
  BY HeadTailProperties, EmptySeq, LenProperties
<1> DEFINE f == Tokens
           h == f[Head(q)]
           t == Each(f, Tail(q))
<1>2. f \in Lists(Count, {0}) /\ h \in Seq({0}) /\ Len(h) = Head(q).transfers
  BY <1>1, TokensAre
<1> HIDE DEF f
<1>3. t \in Seq({0}) /\ Each(f, q) = h \o t
  BY <1>2, EachFirst
<1> HIDE DEF h, t
<1>4. Len(h) \in Nat /\ Len(t) \in Nat /\ Len(h \o t) = Len(h) + Len(t)
  BY <1>2, <1>3, ConcatProperties, LenProperties
<1> QED
  BY <1>1, <1>2, <1>3, <1>4 DEF Expected, f, t

LEMMA ExpectedPut ==
  ASSUME NEW q \in Seq(Count), NEW x \in Count
  PROVE  /\ Append(q, x) \in Seq(Count) /\ Len(q) \in Nat /\ Len(Append(q, x)) = Len(q) + 1
         /\ Expected(q) \in Nat /\ Expected(Append(q, x)) = Expected(q) + x.transfers
<1>1. /\ Append(q, x) \in Seq(Count) /\ Len(q) \in Nat /\ Len(Append(q, x)) = Len(q) + 1
      /\ Append(q, x) = q \o <<x>> /\ <<x>> \in Seq(Count)
  BY AppendProperties, AppendIsConcat, LenProperties
<1> DEFINE f == Tokens
           a == <<x>>
           s == Each(f, q)
           t == f[x]
<1>2. f \in Lists(Count, {0}) /\ t \in Seq({0}) /\ Len(t) = x.transfers
  BY TokensAre
<1> HIDE DEF f
<1>3. Each(f, <<x>>) = t
  BY <1>2, EachOne
<1> HIDE DEF t
<1>4. /\ \A u, v \in Seq(Count) : u \o v \in Seq(Count) /\ Each(f, u \o v) = Each(f, u) \o Each(f, v)
      /\ \A u \in Seq(Count) : Each(f, u) \in Seq({0})
  BY <1>2, EachSplits, Zenon
<1>5. a \in Seq(Count) /\ Append(q, x) = q \o a /\ Each(f, a) = t
  BY <1>1, <1>3
<1> HIDE DEF a
<1>6. s \in Seq({0}) /\ Each(f, Append(q, x)) = s \o t
  BY <1>4, <1>5
<1> HIDE DEF s
<1>7. Len(s) \in Nat /\ Len(s \o t) = Len(s) + Len(t)
  BY <1>2, <1>6, ConcatProperties, LenProperties
<1> QED
  BY <1>1, <1>2, <1>6, <1>7 DEF Expected, f, s

\* A response of the first write that is not its last.
LEMMA ExpectedLess ==
  ASSUME NEW q \in Seq(Count), q # <<>>, Head(q).transfers # 1
  PROVE  LET r == [q EXCEPT ![1].transfers = @ - 1]
         IN  /\ r \in Seq(Count) /\ Len(r) = Len(q)
             /\ Expected(r) = Expected(q) - 1
<1> DEFINE x == Head(q)
           y == [x EXCEPT !.transfers = @ - 1]
           r == [q EXCEPT ![1] = y]
<1>1. /\ x \in Count /\ x = q[1] /\ Tail(q) \in Seq(Count)
      /\ Expected(Tail(q)) \in Nat /\ Expected(q) = x.transfers + Expected(Tail(q))
      /\ x.transfers \in Nat /\ x.transfers > 0
  BY ExpectedTake, HeadTailProperties, TokensAre
<1>2. [q EXCEPT ![1].transfers = @ - 1] = r
  BY <1>1
<1>3. y \in Count /\ y.transfers = x.transfers - 1
  <2> DEFINE m == x.transfers - 1
  <2>1. m \in Nat \ {0}
    BY <1>1
  <2> HIDE DEF m
  <2>2. [x EXCEPT !.transfers = m] \in Count /\ [x EXCEPT !.transfers = m].transfers = m
    BY <1>1, <2>1 DEF Count
  <2> QED
    BY <2>2 DEF m
<1> HIDE DEF x, y
<1>4. /\ r \in Seq(Count) /\ r # <<>> /\ Head(r) = y /\ Tail(r) = Tail(q) /\ Len(r) = Len(q)
  BY <1>3, FirstReplaced
<1> HIDE DEF r
<1>5. Expected(r) = Head(r).transfers + Expected(Tail(r))
  BY <1>4, ExpectedTake
<1> DEFINE m == x.transfers
           e == Expected(Tail(q))
<1>6. /\ Expected(q) = m + e /\ m \in Nat /\ e \in Nat
      /\ Expected(r) = (m - 1) + e
  <2>1. Head(r).transfers = m - 1 /\ Expected(Tail(r)) = e
    BY <1>3, <1>4
  <2> QED
    BY <1>1, <1>5, <2>1
<1> HIDE DEF m, e
<1>7. Expected(r) = Expected(q) - 1
  BY <1>6
<1> QED
  BY <1>2, <1>4, <1>7

\* What concerns reads leaves the channels of writes alone.
LEMMA ReadsApart ==
  ASSUME Channelling, Overtake \/ RamRead \/ read_logic \/ read_resp_logic
  PROVE  /\ chan'.aw = chan.aw /\ chan'.w = chan.w /\ chan'.b = chan.b
         /\ UNCHANGED <<calls, write_command_queue, int_write_resp_command_queue, served, mem>>
<1>1. chan = [c \in Channels |-> chan[c]]
  BY DEF Channelling
<1>2. UNCHANGED <<calls, write_command_queue, int_write_resp_command_queue, served, mem>>
  BY DEF Overtake, RamRead, read_logic, read_resp_logic, asked, queues, resps, ram
<1>3. \/ \E y : chan' = [chan EXCEPT !["r"] = y]
      \/ \E x, y : chan' = [chan EXCEPT !["ar"] = x, !["r"] = y]
      \/ \E x : chan' = [chan EXCEPT !["ar"] = x]
  <2>1. ASSUME Overtake PROVE \E y : chan' = [chan EXCEPT !["r"] = y]
    BY <2>1 DEF Overtake
  <2>2. ASSUME RamRead PROVE \E x, y : chan' = [chan EXCEPT !["ar"] = x, !["r"] = y]
    BY <2>2 DEF RamRead
  <2>3. ASSUME read_logic PROVE \E x : chan' = [chan EXCEPT !["ar"] = x]
    BY <2>3 DEF read_logic, Put
  <2>4. ASSUME read_resp_logic PROVE \E y : chan' = [chan EXCEPT !["r"] = y]
    BY <2>4 DEF read_resp_logic
  <2> QED
    BY <2>1, <2>2, <2>3, <2>4
<1>4. chan'.aw = chan.aw /\ chan'.w = chan.w /\ chan'.b = chan.b
  BY <1>1, <1>3 DEF Channels
<1> QED
  BY <1>2, <1>4

LEMMA CountedKept ==
  ASSUME Counted, UNCHANGED int_write_resp_command_queue,
         Flow(chan'.aw) = Flow(chan.aw), Flow(chan'.b) = Flow(chan.b),
         in_flight_operations' = Len(Writing) + Len(Reads')
  PROVE  Counted'
BY Zenon DEF Counted, Writing, Reads

LEMMA CountedReads ==
  ASSUME Inv, Counted, Overtake \/ RamRead \/ read_logic \/ read_resp_logic
  PROVE  Counted'
<1>1. /\ chan'.aw = chan.aw /\ chan'.b = chan.b
      /\ UNCHANGED int_write_resp_command_queue
  BY ReadsApart DEF Inv
<1> DEFINE n == Len(Reads)
           m == Len(Writing)
<1>2. Reads \in Seq(Reading) /\ n \in Nat /\ m \in Nat /\ in_flight_operations = m + n
  BY LenProperties DEF Inv, Waiting, Counted
<1>3. in_flight_operations' = m + Len(Reads')
  <2>1. CASE Overtake \/ RamRead
    <3>1. Reads' = Reads /\ in_flight_operations' = in_flight_operations
      BY <2>1 DEF Overtake, RamRead, resps, Reads
    <3> QED
      BY <1>2, <3>1
  <2>2. CASE read_logic
    <3>1. (\E x : Reads' = Append(Reads, x)) /\ in_flight_operations' = in_flight_operations + 1
      BY <2>2 DEF read_logic, Reads
    <3>2. Len(Reads') = n + 1
      BY <1>2, <3>1
    <3> HIDE DEF n, m
    <3> QED
      BY <1>2, <3>1, <3>2
  <2>3. CASE read_resp_logic
    <3>1. /\ Reads # <<>>
          /\ \/ Reads' = Tail(Reads) /\ in_flight_operations' = in_flight_operations - 1
             \/ /\ \E x : Reads' = [Reads EXCEPT ![1] = x]
                /\ in_flight_operations' = in_flight_operations
      BY <2>3 DEF read_resp_logic, Reads
    <3>2. n >= 1
      BY <1>2, <3>1, EmptySeq
    <3>3. \/ Len(Reads') = n - 1 /\ in_flight_operations' = in_flight_operations - 1
          \/ Len(Reads') = n /\ in_flight_operations' = in_flight_operations
      BY <1>2, <3>1, HeadTailProperties
    <3> HIDE DEF n, m
    <3> QED
      BY <1>2, <3>2, <3>3
  <2> QED
    BY <2>1, <2>2, <2>3
<1> QED
  BY <1>1, <1>3, CountedKept, Zenon

LEMMA CountedEdges ==
  ASSUME Inv, Counted, NEW c \in Channels, Edge(c)
  PROVE  Counted'
<1>1. Flow(chan'.aw) = Flow(chan.aw) /\ Flow(chan'.b) = Flow(chan.b)
  BY EdgeMoves, Zenon DEF Inv
<1>2. UNCHANGED <<int_write_resp_command_queue, int_read_resp_command_queue, in_flight_operations>>
  BY DEF Edge, resps
<1>3. in_flight_operations' = Len(Writing) + Len(Reads')
  BY <1>2, Zenon DEF Counted, Reads
<1> QED
  BY <1>1, <1>2, <1>3, CountedKept, Zenon

LEMMA CountedAsks ==
  ASSUME Counted, NEW c \in Calls, init_write(c) \/ init_read(c)
  PROVE  Counted'
<1>1. UNCHANGED <<int_write_resp_command_queue, int_read_resp_command_queue,
                  in_flight_operations, chan>>
  BY DEF init_write, init_read, Ask, resps
<1> QED
  BY <1>1, Zenon DEF Counted, Writing, Reads

\* As many responses are waited for as bursts go out.
LEMMA CountedWrites ==
  ASSUME Inv, Counted, write_logic
  PROVE  Counted'
<1> DEFINE n  == Head(write_command_queue)
           c  == calls[n]
           bs == Addresses(c, cur_write_id)
           A  == Flow(chan.aw)
           B  == Flow(chan.b)
           l  == Len(bs)
           x  == [call |-> n, transfers |-> Len(Bursts(c))]
<1>1. /\ Writing' = Append(Writing, x) /\ in_flight_operations' = in_flight_operations + 1
      /\ Reads' = Reads
  BY DEF write_logic, Writing, Reads
<1>2. /\ n \in 1 .. Len(calls) /\ A \in Seq(Burst)
      /\ bs \in Seq(Burst) /\ bs # <<>> /\ l = Len(Bursts(c))
      /\ Flow(chan'.aw) = A \o bs /\ chan'.b = chan.b
  BY WriteMoves, Zenon
<1>3. B \in Seq(Response) /\ Reads \in Seq(Reading)
  BY FlowIs DEF Inv, Channelling, Waiting
<1> HIDE DEF A, B, bs, c, n
<1>4. l \in Nat /\ l > 0
  BY <1>2, LenProperties, EmptySeq
<1>5. x \in Count /\ x.transfers = l
  <2>1. n \in Nat
    BY <1>2
  <2> QED
    BY <1>2, <1>4, <2>1 DEF Count
<1> HIDE DEF x
<1>6. /\ Writing \in Seq(Count) /\ Expected(Writing) = Len(A) + Len(B)
      /\ in_flight_operations = Len(Writing) + Len(Reads)
  BY DEF Counted, A, B
<1>7. /\ Append(Writing, x) \in Seq(Count) /\ Len(Writing) \in Nat
      /\ Len(Append(Writing, x)) = Len(Writing) + 1
      /\ Expected(Append(Writing, x)) = Expected(Writing) + l
  BY <1>5, <1>6, ExpectedPut
<1>8. Len(A \o bs) = Len(A) + l /\ Len(A) \in Nat /\ Len(B) \in Nat /\ Len(Reads) \in Nat
  BY <1>2, <1>3, ConcatProperties, LenProperties
<1> HIDE DEF l
<1>9. Writing' \in Seq(Count)
  BY <1>1, <1>7
<1>10. Expected(Writing') = Len(Flow(chan'.aw)) + Len(Flow(chan'.b))
  <2>1. Expected(Writing') = (Len(A) + Len(B)) + l
    BY <1>1, <1>6, <1>7
  <2>2. Len(Flow(chan'.aw)) = Len(A) + l /\ Len(Flow(chan'.b)) = Len(B)
    BY <1>2, <1>8 DEF B
  <2> QED
    BY <1>4, <1>8, <2>1, <2>2
<1>11. in_flight_operations' = Len(Writing') + Len(Reads')
  <2>1. Len(Writing') = Len(Writing) + 1
    BY <1>1, <1>7
  <2> QED
    BY <1>1, <1>6, <1>7, <1>8, <2>1
<1> QED
  BY <1>9, <1>10, <1>11 DEF Counted, Writing, Reads

\* A burst that has been written is answered at once.
LEMMA CountedRam ==
  ASSUME Inv, Counted, RamWrite
  PROVE  Counted'
<1> DEFINE b    == Head(chan.aw.sink)
           last == served = b.length - 1
           A    == Flow(chan.aw)
           B    == Flow(chan.b)
           r    == <<[id |-> b.id]>>
<1>1. /\ A \in Seq(Burst) /\ A # <<>> /\ b \in Burst
      /\ Flow(chan'.aw) = (IF last THEN Tail(A) ELSE A)
      /\ Flow(chan'.b) = B \o (IF last THEN r ELSE <<>>)
  BY RamWriteMoves, Zenon
<1>2. B \in Seq(Response)
  BY FlowIs DEF Inv, Channelling
<1>3. UNCHANGED <<int_write_resp_command_queue, int_read_resp_command_queue, in_flight_operations>>
  BY DEF RamWrite, resps
<1>4. r \in Seq(Response) /\ Len(r) = 1
  <2>1. b.id \in Id
    BY <1>1, BurstIs
  <2> QED
    BY <2>1 DEF Response
<1> HIDE DEF A, B, r, last
<1>5. Len(Flow(chan'.aw)) + Len(Flow(chan'.b)) = Len(A) + Len(B)
  <2>1. CASE last
    <3>1. Len(Tail(A)) = Len(A) - 1 /\ Len(A) \in Nat
      BY <1>1, HeadTailProperties, LenProperties
    <3>2. Len(B \o r) = Len(B) + Len(r) /\ Len(B) \in Nat
      BY <1>2, <1>4, ConcatProperties, LenProperties
    <3>3. Len(Flow(chan'.aw)) = Len(Tail(A)) /\ Len(Flow(chan'.b)) = Len(B \o r)
      BY <1>1, <2>1
    <3> DEFINE k == Len(A)
               m == Len(B)
    <3>4. k \in Nat /\ m \in Nat /\ Len(Flow(chan'.aw)) = k - 1 /\ Len(Flow(chan'.b)) = m + 1
      BY <1>4, <3>1, <3>2, <3>3
    <3> HIDE DEF k, m
    <3>5. Len(Flow(chan'.aw)) + Len(Flow(chan'.b)) = k + m
      BY <3>4
    <3> QED
      BY <3>5 DEF k, m
  <2>2. CASE ~last
    <3>1. B \o <<>> = B
      BY <1>2, ConcatEmptySeq
    <3> QED
      BY <1>1, <2>2, <3>1
  <2> QED
    BY <2>1, <2>2
<1>6. /\ Writing \in Seq(Count) /\ Expected(Writing) = Len(A) + Len(B)
      /\ in_flight_operations = Len(Writing) + Len(Reads)
  BY DEF Counted, A, B
<1> QED
  BY <1>3, <1>5, <1>6, Zenon DEF Counted, Writing, Reads

\* A response is counted; with the last of a write the write is done.
LEMMA CountedResponds ==
  ASSUME Inv, Counted, write_resp_logic
  PROVE  Counted'
<1> DEFINE at == Head(Writing)
           A  == Flow(chan.aw)
           B  == Flow(chan.b)
           r  == [Writing EXCEPT ![1].transfers = @ - 1]
<1>1. /\ Writing # <<>> /\ chan.b.sink # <<>> /\ chan' = [chan EXCEPT !["b"] = Behind(chan.b)]
      /\ Reads' = Reads
      /\ \/ /\ at.transfers = 1 /\ Writing' = Tail(Writing)
            /\ in_flight_operations' = in_flight_operations - 1
         \/ /\ at.transfers # 1 /\ Writing' = r
            /\ in_flight_operations' = in_flight_operations
  BY DEF write_resp_logic, Behind, Enough, Writing, Reads
<1>2. chan = [c \in Channels |-> chan[c]] /\ Well(chan.b, Response) /\ Well(chan.aw, Burst)
      /\ Reads \in Seq(Reading)
  BY DEF Inv, Channelling, Waiting
<1>3. B \in Seq(Response) /\ B # <<>> /\ Flow(Behind(chan.b)) = Tail(B)
  BY <1>1, <1>2, FlowTake, FlowIs
<1>4. chan'.b = Behind(chan.b) /\ chan'.aw = chan.aw
  BY <1>1, <1>2 DEF Channels
<1>5. A \in Seq(Burst)
  BY <1>2, FlowIs
<1> HIDE DEF A, B, r
<1>6. Len(Flow(chan'.aw)) + Len(Flow(chan'.b)) = (Len(A) + Len(B)) - 1
  <2>1. Len(Tail(B)) = Len(B) - 1 /\ Len(B) \in Nat /\ Len(A) \in Nat
    BY <1>3, <1>5, HeadTailProperties, LenProperties
  <2>2. Flow(chan'.aw) = A /\ Flow(chan'.b) = Tail(B)
    BY <1>3, <1>4 DEF A
  <2> DEFINE k == Len(A)
             m == Len(B)
  <2>3. k \in Nat /\ m \in Nat /\ Len(Flow(chan'.aw)) = k /\ Len(Flow(chan'.b)) = m - 1
    BY <2>1, <2>2
  <2> HIDE DEF k, m
  <2>4. Len(Flow(chan'.aw)) + Len(Flow(chan'.b)) = (k + m) - 1
    BY <2>3
  <2> QED
    BY <2>4 DEF k, m
<1>7. /\ Writing \in Seq(Count) /\ Expected(Writing) = Len(A) + Len(B)
      /\ in_flight_operations = Len(Writing) + Len(Reads)
  BY DEF Counted, A, B
<1>8. /\ at \in Count /\ Tail(Writing) \in Seq(Count)
      /\ Len(Writing) \in Nat /\ Len(Writing) > 0 /\ Len(Tail(Writing)) = Len(Writing) - 1
      /\ Expected(Tail(Writing)) \in Nat /\ Expected(Writing) = at.transfers + Expected(Tail(Writing))
  BY <1>1, <1>7, ExpectedTake
<1>9. Len(Reads) \in Nat /\ at.transfers \in Nat
  BY <1>2, <1>8, LenProperties, TokensAre
<1>10. at.transfers # 1 => /\ r \in Seq(Count) /\ Len(r) = Len(Writing)
                           /\ Expected(r) = Expected(Writing) - 1
  BY <1>1, <1>7, ExpectedLess DEF r
<1> HIDE DEF at
<1>11. /\ Writing' \in Seq(Count) /\ Expected(Writing') = Expected(Writing) - 1
       /\ in_flight_operations' = Len(Writing') + Len(Reads')
  <2>1. CASE /\ at.transfers = 1 /\ Writing' = Tail(Writing)
             /\ in_flight_operations' = in_flight_operations - 1
    BY <1>1, <1>7, <1>8, <1>9, <2>1
  <2>2. CASE /\ at.transfers # 1 /\ Writing' = r
             /\ in_flight_operations' = in_flight_operations
    BY <1>1, <1>7, <1>10, <2>2
  <2> QED
    BY <1>1, <2>1, <2>2
<1>12. Expected(Writing') = Len(Flow(chan'.aw)) + Len(Flow(chan'.b))
  BY <1>6, <1>7, <1>11
<1> QED
  BY <1>11, <1>12 DEF Counted, Writing, Reads

---------------------------------------------------------------------------
(* What is in the memory, or on its way there *)

StoresOf == [n \in 1 .. Len(calls) |-> Stores(n)]

\* The stores of the writes that have not gone out.
Pending == Each(StoresOf, write_command_queue)

\* If all that is on its way were stored now, and then the writes that have not gone out,
\* each place would hold what the last write to it puts there.
Promised(s) ==
  \A a \in 0 .. Size - 1 : Shows(mem, s \o Pending, a, Holds(a, LastWrite(a, DOMAIN calls)))
Written ==
  \E s \in Seq(Store) : AreStores(Flow(chan.aw), Flow(chan.w), served, s) /\ Promised(s)

LEMMA PendingIs ==
  ASSUME Asking
  PROVE  /\ StoresOf \in Lists(1 .. Len(calls), Store) /\ Pending \in Seq(Store)
         /\ write_command_queue = <<>> => Pending = <<>>
         /\ write_command_queue # <<>> =>
              /\ Head(write_command_queue) \in 1 .. Len(calls)
              /\ Stores(Head(write_command_queue)) \in Seq(Store)
              /\ Each(StoresOf, Tail(write_command_queue)) \in Seq(Store)
              /\ Pending = Stores(Head(write_command_queue)) \o Each(StoresOf, Tail(write_command_queue))
<1> DEFINE D == 1 .. Len(calls)
           q == write_command_queue
           f == StoresOf
<1>1. calls \in Seq(Calls) /\ q \in Seq(D)
  BY DEF Asking
<1>2. \A n \in D : f[n] = Stores(n) /\ Stores(n) \in Seq(Store)
  BY <1>1, StoresAre DEF StoresOf
<1>3. f \in Lists(D, Store)
  BY <1>2 DEF StoresOf, Lists
<1> HIDE DEF D, f, q
<1>4. Each(f, q) \in Seq(Store)
  BY <1>1, <1>3, EachSplits, Zenon
<1>5. Each(f, <<>>) = <<>>
  BY <1>3, EachOne
<1>6. ASSUME q # <<>>
      PROVE  /\ Head(q) \in D /\ f[Head(q)] = Stores(Head(q)) /\ Stores(Head(q)) \in Seq(Store)
             /\ Each(f, Tail(q)) \in Seq(Store) /\ Each(f, q) = f[Head(q)] \o Each(f, Tail(q))
  <2>1. Head(q) \in D
    BY <1>1, <1>6, HeadTailProperties
  <2>2. Each(f, Tail(q)) \in Seq(Store) /\ Each(f, q) = f[Head(q)] \o Each(f, Tail(q))
    BY <1>1, <1>3, <1>6, EachFirst
  <2> QED
    BY <1>2, <2>1, <2>2
<1>7. q # <<>> => /\ Head(q) \in D /\ Stores(Head(q)) \in Seq(Store)
                  /\ Each(f, Tail(q)) \in Seq(Store)
                  /\ Each(f, q) = Stores(Head(q)) \o Each(f, Tail(q))
  <2> SUFFICES ASSUME q # <<>>
               PROVE  /\ Head(q) \in D /\ Stores(Head(q)) \in Seq(Store)
                      /\ Each(f, Tail(q)) \in Seq(Store)
                      /\ Each(f, q) = Stores(Head(q)) \o Each(f, Tail(q))
    OBVIOUS
  <2> QED
    BY <1>6, Zenon
<1> QED
  BY <1>3, <1>4, <1>5, <1>7, Zenon DEF Pending, D, f, q

\* What a call puts where does not change.
LEMMA SameCalls ==
  ASSUME UNCHANGED calls
  PROVE  /\ StoresOf' = StoresOf
         /\ \A a, n : Puts(a, n)' = Puts(a, n) /\ Holds(a, n)' = Holds(a, n)
         /\ \A a : Holds(a, LastWrite(a, DOMAIN calls))' = Holds(a, LastWrite(a, DOMAIN calls))
<1>1. \A n : Stores(n)' = Stores(n)
  BY ZenonT(60) DEF Stores, WriteBeat
<1>2. StoresOf' = StoresOf
  BY <1>1 DEF StoresOf
<1>3. \A a, n : Puts(a, n)' = Puts(a, n) /\ Holds(a, n)' = Holds(a, n)
  BY Zenon DEF Puts, Holds
<1>4. ASSUME NEW a PROVE Holds(a, LastWrite(a, DOMAIN calls))' = Holds(a, LastWrite(a, DOMAIN calls))
  <2>1. LastWrite(a, DOMAIN calls)' = LastWrite(a, DOMAIN calls)
    BY Zenon DEF LastWrite, Writers, Puts
  <2> QED
    BY <2>1, Zenon DEF Holds, Puts
<1> QED
  BY <1>2, <1>3, <1>4

LEMMA CallsGrow ==
  ASSUME calls \in Seq(Calls), NEW c \in Calls, calls' = Append(calls, c)
  PROVE  LET n == Len(calls) IN
         /\ n \in Nat /\ Len(calls') = n + 1 /\ calls' \in Seq(Calls)
         /\ DOMAIN calls = 1 .. n /\ DOMAIN calls' = 1 .. n + 1 /\ calls'[n + 1] = c
         /\ \A i \in 1 .. n : calls'[i] = calls[i] /\ Stores(i)' = Stores(i)
         /\ \A a : \A i \in 1 .. n : Puts(a, i)' = Puts(a, i) /\ Holds(a, i)' = Holds(a, i)
<1> DEFINE n == Len(calls)
<1>1. n \in Nat /\ Len(calls') = n + 1 /\ calls' \in Seq(Calls)
      /\ calls'[n + 1] = c /\ \A i \in 1 .. n : calls'[i] = calls[i]
  BY AppendProperties, LenProperties
<1>2. DOMAIN calls = 1 .. n /\ DOMAIN calls' = 1 .. n + 1
  BY <1>1, LenProperties
<1> HIDE DEF n
<1>3. ASSUME NEW i \in 1 .. n PROVE Stores(i)' = Stores(i)
  BY <1>1, Zenon DEF Stores, WriteBeat
<1>4. ASSUME NEW a, NEW i \in 1 .. n
      PROVE  Puts(a, i)' = Puts(a, i) /\ Holds(a, i)' = Holds(a, i)
  <2>1. calls'[i] = calls[i]
    BY <1>1
  <2>2. Puts(a, i)' = Puts(a, i)
    BY <2>1, Zenon DEF Puts
  <2> QED
    BY <2>2, Zenon DEF Holds
<1> QED
  BY <1>1, <1>2, <1>3, <1>4 DEF n

LEMMA WrittenKept ==
  ASSUME Written, UNCHANGED <<calls, write_command_queue, served, mem>>,
         Flow(chan'.aw) = Flow(chan.aw), Flow(chan'.w) = Flow(chan.w)
  PROVE  Written'
<1>1. PICK s \in Seq(Store) : AreStores(Flow(chan.aw), Flow(chan.w), served, s) /\ Promised(s)
  BY Zenon DEF Written
<1>2. AreStores(Flow(chan'.aw), Flow(chan'.w), served', s)
  BY <1>1, Zenon
<1>3. /\ StoresOf' = StoresOf
      /\ \A a : Holds(a, LastWrite(a, DOMAIN calls))' = Holds(a, LastWrite(a, DOMAIN calls))
  BY SameCalls
<1>4. Pending' = Pending
  BY <1>3, Zenon DEF Pending
<1>5. Promised(s)'
  <2>1. ASSUME NEW a \in 0 .. Size - 1
        PROVE  Shows(mem', s \o Pending', a, Holds(a, LastWrite(a, DOMAIN calls))')
    <3>1. Shows(mem, s \o Pending, a, Holds(a, LastWrite(a, DOMAIN calls)))
      BY <1>1 DEF Promised
    <3>2. Holds(a, LastWrite(a, DOMAIN calls))' = Holds(a, LastWrite(a, DOMAIN calls))
      BY <1>3
    <3> QED
      BY <1>4, <3>1, <3>2, Zenon
  <2> QED
    BY <2>1, Zenon DEF Promised
<1> QED
  BY <1>2, <1>5, Zenon DEF Written

\* A call more is the last write to what it puts something to.
LEMMA LastWriteNext ==
  ASSUME calls \in Seq(Calls), NEW c \in Calls, calls' = Append(calls, c), NEW a,
         NEW n, n = Len(calls)
  PROVE  LET v    == Holds(a, LastWrite(a, DOMAIN calls))
             w    == Holds(a, LastWrite(a, DOMAIN calls))'
             more == c.op = "write" /\ Puts(a, n + 1)' # {}
         IN  /\ more => w = Byte(n + 1, Max(Puts(a, n + 1)'))
             /\ ~more => w = v
<1> DEFINE T    == Writers(a, 1 .. n)
           P(m) == {j \in 0 .. calls'[m].len - 1 : At(calls'[m], j) = a}
           K(m) == IF m = 0 THEN Zero ELSE Byte(m, Max(P(m)))
           U    == {i \in 1 .. n + 1 : calls'[i].op = "write" /\ P(i) # {}}
           L    == LastWrite(a, DOMAIN calls)
           M    == LastWrite(a, DOMAIN calls)'
           more == c.op = "write" /\ P(n + 1) # {}
<1>1. /\ n \in Nat /\ DOMAIN calls = 1 .. n /\ DOMAIN calls' = 1 .. n + 1 /\ calls'[n + 1] = c
      /\ \A i \in 1 .. n : calls'[i] = calls[i]
  BY CallsGrow
<1>2. L = (IF T = {} THEN 0 ELSE Max(T)) /\ T \subseteq 1 .. n
  BY <1>1 DEF LastWrite, Writers
<1>3. M = (IF U = {} THEN 0 ELSE Max(U)) /\ U \subseteq 1 .. n + 1
  BY <1>1, Zenon DEF LastWrite, Writers, Puts
<1>4. \A i \in 1 .. n : i \in U <=> i \in T
  <2>1. \A i \in 1 .. n : P(i) = Puts(a, i) /\ i \in 1 .. n + 1
    BY <1>1 DEF Puts
  <2> HIDE DEF P
  <2> QED
    BY <1>1, <2>1 DEF Writers
<1>5. n + 1 \in U <=> more
  <2> HIDE DEF P
  <2>1. n + 1 \in 1 .. n + 1
    BY <1>1
  <2> QED
    BY <1>1, <2>1
<1>6. Holds(a, LastWrite(a, DOMAIN calls))' = K(M) /\ Puts(a, n + 1)' = P(n + 1)
  BY Zenon DEF Holds, Puts
<1>7. Holds(a, 0) = K(0)
  BY DEF Holds
<1>8. \A i \in 1 .. n : Holds(a, i) = K(i)
  <2>1. \A i \in 1 .. n : P(i) = Puts(a, i) /\ i # 0
    BY <1>1 DEF Puts
  <2> HIDE DEF P
  <2> QED
    BY <2>1 DEF Holds
<1> HIDE DEF T, U, L, M, more, P
<1>9. ASSUME more PROVE K(M) = Byte(n + 1, Max(P(n + 1)))
  <2>1. U \subseteq Nat /\ n + 1 \in U /\ \A i \in U : i <= n + 1
    BY <1>1, <1>3, <1>5, <1>9
  <2>2. M = n + 1
    BY <1>3, <2>1, MaxIs
  <2>3. n + 1 # 0
    BY <1>1
  <2> QED
    BY <2>2, <2>3
<1>10. ASSUME ~more PROVE K(M) = Holds(a, L)
  <2>1. U = T
    <3>1. \A i \in 1 .. n + 1 : i \in 1 .. n \/ i = n + 1
      BY <1>1
    <3>2. \A i \in 1 .. n : i \in 1 .. n + 1
      BY <1>1
    <3> QED
      BY <1>2, <1>3, <1>4, <1>5, <1>10, <3>1, <3>2
  <2>2. M = L
    BY <1>2, <1>3, <2>1
  <2>3. CASE T = {}
    <3>1. L = 0
      BY <1>2, <2>3
    <3> QED
      BY <1>7, <2>2, <3>1
  <2>4. CASE T # {}
    <3>1. T \subseteq 0 .. n
      BY <1>1, <1>2
    <3>2. L \in 1 .. n
      BY <1>1, <1>2, <2>4, <3>1, MaxOf
    <3> QED
      BY <1>8, <2>2, <3>2
  <2> QED
    BY <2>3, <2>4
<1> HIDE DEF K
<1> QED
  BY <1>6, <1>9, <1>10, Zenon DEF L, more

LEMMA WrittenAsks ==
  ASSUME Inv, Written, NEW c \in Calls, init_write(c) \/ init_read(c)
  PROVE  Written'
<1> PICK n : n = Len(calls)
  OBVIOUS
<1> DEFINE q == write_command_queue
           D == 1 .. n
           E == 1 .. n + 1
           f == StoresOf
           g == StoresOf'
           t == IF c.op = "write" THEN Stores(n + 1)' ELSE <<>>
<1>1. /\ Asking /\ calls \in Seq(Calls) /\ q \in Seq(D)
  BY DEF Inv, Asking
<1>2. /\ calls' = Append(calls, c) /\ UNCHANGED <<chan, served, mem>>
  BY DEF init_write, init_read, Ask, ram
<1>3. /\ n \in Nat /\ Len(calls') = n + 1 /\ calls' \in Seq(Calls)
      /\ \A i \in D : Stores(i)' = Stores(i)
  BY <1>1, <1>2, CallsGrow
<1>4. q' = IF c.op = "write" THEN Append(q, n + 1) ELSE q
  BY <1>3 DEF init_write, init_read
<1>5. f \in Lists(D, Store) /\ Pending \in Seq(Store) /\ Pending = Each(f, q)
  BY <1>1, PendingIs DEF Pending
<1>6. /\ \A i \in E : Stores(i)' \in Seq(Store)
      /\ \A i \in E : \A a : /\ Puts(a, i)' = {} => Untouched(Stores(i)', a)
                             /\ Puts(a, i)' # {} => EndsAs(Stores(i)', a, Byte(i, Max(Puts(a, i)')))
  BY <1>3, StoresFitNext DEF StoresFit
<1>7. g = [i \in E |-> Stores(i)']
  BY <1>3 DEF StoresOf
<1>8. g \in Lists(E, Store)
  BY <1>6, <1>7 DEF Lists
<1>9. \A i \in D : g[i] = f[i]
  <2>1. \A i \in D : i \in E /\ f[i] = Stores(i)
    BY <1>3 DEF StoresOf
  <2> QED
    BY <1>3, <1>7, <2>1
<1>10. n + 1 \in E /\ g[n + 1] = Stores(n + 1)' /\ D \subseteq E
  <2>1. n + 1 \in E /\ D \subseteq E
    BY <1>3
  <2> QED
    BY <1>7, <2>1
<1>11. Pending' = Each(g, q')
  BY Zenon DEF Pending
<1> HIDE DEF f, g, q, D, E
<1>12. Each(g, q) = Each(f, q) /\ q \in Seq(E)
  <2>1. \A k \in 1 .. Len(q) : q[k] \in D
    BY <1>1, ElementOfSeq
  <2>2. [k \in 1 .. Len(q) |-> g[q[k]]] = [k \in 1 .. Len(q) |-> f[q[k]]]
    BY <1>9, <2>1
  <2>3. q \in Seq(E)
    BY <1>1, <1>10, Wider
  <2> QED
    BY <2>2, <2>3, Zenon DEF Each
<1>13. t \in Seq(Store) /\ Pending' = Pending \o t
  <2>1. CASE c.op = "write"
    <3> DEFINE x == n + 1
               a == <<x>>
    <3>1. q' = q \o a /\ x \in E /\ a \in Seq(E)
      BY <1>1, <1>4, <1>10, <2>1, AppendIsConcat
    <3> HIDE DEF x
    <3>2. Each(g, a) = g[x]
      BY <1>8, <3>1, EachOne
    <3> HIDE DEF a
    <3>3. /\ \A u, v \in Seq(E) : u \o v \in Seq(E) /\ Each(g, u \o v) = Each(g, u) \o Each(g, v)
          /\ \A u \in Seq(E) : Each(g, u) \in Seq(Store)
      BY <1>8, EachSplits, Zenon
    <3>4. Pending' = Each(g, q) \o g[x]
      BY <1>11, <1>12, <3>1, <3>2, <3>3
    <3> QED
      BY <1>5, <1>6, <1>10, <1>12, <2>1, <3>4 DEF x
  <2>2. CASE c.op # "write"
    <3>1. Pending' = Pending
      BY <1>4, <1>5, <1>11, <1>12, <2>2
    <3>2. Pending \o <<>> = Pending /\ <<>> \in Seq(Store)
      BY <1>5, ConcatEmptySeq, EmptySeq
    <3> QED
      BY <2>2, <3>1, <3>2
  <2> QED
    BY <2>1, <2>2
<1>14. PICK s \in Seq(Store) : AreStores(Flow(chan.aw), Flow(chan.w), served, s) /\ Promised(s)
  BY Zenon DEF Written
<1>15. ASSUME NEW a \in 0 .. Size - 1
       PROVE  Shows(mem', s \o Pending', a, Holds(a, LastWrite(a, DOMAIN calls))')
  <2> DEFINE v    == Holds(a, LastWrite(a, DOMAIN calls))
             w    == Holds(a, LastWrite(a, DOMAIN calls))'
             more == c.op = "write" /\ Puts(a, n + 1)' # {}
  <2>1. Shows(mem, s \o Pending, a, v)
    BY <1>14 DEF Promised
  <2>2. /\ more => w = Byte(n + 1, Max(Puts(a, n + 1)'))
        /\ ~more => w = v
    BY <1>1, <1>2, LastWriteNext
  <2> HIDE DEF v, w
  <2>3. (Untouched(t, a) /\ w = v) \/ EndsAs(t, a, w)
    <3>1. CASE more
      BY <1>6, <1>10, <2>2, <3>1
    <3>2. CASE ~more /\ c.op = "write"
      BY <1>6, <1>10, <2>2, <3>2
    <3>3. CASE c.op # "write"
      <4>1. t = <<>>
        BY <3>3
      <4>2. Untouched(t, a)
        BY <4>1 DEF Untouched
      <4> QED
        BY <2>2, <3>3, <4>2
    <3> QED
      BY <3>1, <3>2, <3>3
  <2> HIDE DEF t
  <2>4. s \o Pending \in Seq(Store)
    BY <1>5, ConcatProperties
  <2>5. Shows(mem, (s \o Pending) \o t, a, w)
    BY <1>13, <2>1, <2>3, <2>4, ShowsMore
  <2>6. (s \o Pending) \o t = s \o (Pending \o t)
    <3> DEFINE p == Pending
    <3>1. s \in Seq(Store) /\ p \in Seq(Store) /\ t \in Seq(Store)
      BY <1>5, <1>13
    <3> HIDE DEF p
    <3>2. (s \o p) \o t = s \o (p \o t)
      BY <3>1, ConcatAssociative, SMTT(30)
    <3> QED
      BY <3>2 DEF p
  <2> QED
    BY <1>2, <1>13, <2>5, <2>6, Zenon DEF w
<1>16. Promised(s)'
  BY <1>15, Zenon DEF Promised
<1>17. AreStores(Flow(chan'.aw), Flow(chan'.w), served', s)
  BY <1>2, <1>14, Zenon
<1> QED
  BY <1>16, <1>17, Zenon DEF Written

\* A write that goes out is on its way.
LEMMA WrittenWrites ==
  ASSUME Inv, Written, write_logic
  PROVE  Written'
<1> DEFINE n  == Head(write_command_queue)
           c  == calls[n]
           bs == Addresses(c, cur_write_id)
           ws == WriteBeats(n)
           A  == Flow(chan.aw)
           W  == Flow(chan.w)
           t  == Stores(n)
           p  == Each(StoresOf, Tail(write_command_queue))
<1>1. /\ write_command_queue # <<>> /\ write_command_queue' = Tail(write_command_queue)
      /\ UNCHANGED <<calls, served, mem>>
  BY DEF write_logic, asked, ram
<1>2. /\ n \in 1 .. Len(calls) /\ A \in Seq(Burst) /\ W \in Seq(BeatIn)
      /\ ws \in Seq(BeatIn) /\ bs \in Seq(Burst)
      /\ Each(PlacesOf(Burst), bs) = Slice(Words(c), 0, Cycles(c))
      /\ Flow(chan'.aw) = A \o bs /\ Flow(chan'.w) = W \o ws
  BY WriteMoves, Zenon
<1>3. Asking /\ calls \in Seq(Calls) /\ served \in Nat
  BY DEF Inv, Asking, Storing
<1>4. t \in Seq(Store) /\ p \in Seq(Store) /\ Pending = t \o p
  BY <1>1, <1>3, PendingIs, Zenon
<1>5. /\ Each(PlacesOf(Burst), bs) = Each(PlaceOf, t)
      /\ Each(DataOf(BeatIn), ws) = Each(DataOf(Store), t)
  <2> HIDE DEF n, bs
  <2>1. Each(PlacesOf(Burst), bs) = Slice(Words(calls[n]), 0, Cycles(calls[n]))
    BY <1>2
  <2> QED
    BY <1>2, <1>3, <2>1, StoresOfCall
<1>6. Pending' = p
  <2>1. StoresOf' = StoresOf
    BY <1>1, SameCalls
  <2> QED
    BY <1>1, <2>1, Zenon DEF Pending
<1>7. PICK s \in Seq(Store) : AreStores(A, W, served, s) /\ Promised(s)
  BY Zenon DEF Written
<1> HIDE DEF A, W, bs, ws, c, n, t, p
<1>8. s \o t \in Seq(Store) /\ (s \o t) \o p = s \o Pending
  BY <1>4, ConcatProperties, ConcatAssociative
<1>9. AreStores(A \o bs, W \o ws, served, s \o t)
  BY <1>2, <1>3, <1>4, <1>5, <1>7, StoresPut
<1> PICK u : u = s \o t
  OBVIOUS
<1>10. Promised(u)'
  <2>1. ASSUME NEW a \in 0 .. Size - 1
        PROVE  Shows(mem', u \o Pending', a, Holds(a, LastWrite(a, DOMAIN calls))')
    <3>1. Shows(mem, s \o Pending, a, Holds(a, LastWrite(a, DOMAIN calls)))
      BY <1>7 DEF Promised
    <3>2. Holds(a, LastWrite(a, DOMAIN calls))' = Holds(a, LastWrite(a, DOMAIN calls))
      BY <1>1, SameCalls
    <3>3. u \o Pending' = s \o Pending /\ mem' = mem
      BY <1>1, <1>6, <1>8
    <3> QED
      BY <3>1, <3>2, <3>3, Zenon
  <2> QED
    BY <2>1, Zenon DEF Promised
<1>11. AreStores(Flow(chan'.aw), Flow(chan'.w), served', u)
  BY <1>1, <1>2, <1>9, Zenon
<1> QED
  BY <1>8, <1>10, <1>11, Zenon DEF Written

\* The memory makes the first of the stores.
LEMMA WrittenRam ==
  ASSUME Inv, Written, RamWrite
  PROVE  Written'
<1> DEFINE b    == Head(chan.aw.sink)
           x    == Head(chan.w.sink)
           last == served = b.length - 1
           A    == Flow(chan.aw)
           W    == Flow(chan.w)
<1>1. /\ A \in Seq(Burst) /\ A # <<>> /\ Head(A) = b /\ b \in Burst
      /\ W \in Seq(BeatIn) /\ W # <<>> /\ Head(W) = x
      /\ Flow(chan'.aw) = (IF last THEN Tail(A) ELSE A) /\ Flow(chan'.w) = Tail(W)
      /\ mem' = Stored(mem, x.data, b, served)
      /\ served' = IF last THEN 0 ELSE served + 1
  BY RamWriteMoves, Zenon
<1>2. UNCHANGED <<calls, write_command_queue>>
  BY DEF RamWrite, asked, queues
<1>3. /\ served \in Nat /\ mem \in [0 .. Size - 1 -> Val] /\ InStep(A, W, served)
      /\ Pending \in Seq(Store)
  BY PendingIs DEF Inv, Storing, InFlight
<1>4. served < b.length
  BY <1>1, <1>3 DEF InStep
<1>5. PICK s \in Seq(Store) : AreStores(A, W, served, s) /\ Promised(s)
  BY Zenon DEF Written
<1> HIDE DEF A, W, b, x, last
<1>6. /\ s # <<>> /\ Head(s) \in Store /\ Tail(s) \in Seq(Store)
      /\ Head(s).place = WordAddr(b, served) /\ Head(s).data = x.data
      /\ last => AreStores(Tail(A), Tail(W), 0, Tail(s))
      /\ ~last => AreStores(A, Tail(W), served + 1, Tail(s))
  <2>1. /\ s # <<>> /\ Head(s) \in Store /\ Tail(s) \in Seq(Store)
        /\ Head(s).place = WordAddr(Head(A), served) /\ Head(s).data = Head(W).data
        /\ served = Head(A).length - 1 => AreStores(Tail(A), Tail(W), 0, Tail(s))
        /\ served # Head(A).length - 1 => AreStores(A, Tail(W), served + 1, Tail(s))
    BY <1>1, <1>3, <1>4, <1>5, StoresTake
  <2> QED
    BY <1>1, <2>1 DEF last
<1>7. AreStores(Flow(chan'.aw), Flow(chan'.w), served', Tail(s))
  <2>1. CASE last
    BY <1>1, <1>6, <2>1, Zenon
  <2>2. CASE ~last
    BY <1>1, <1>6, <2>2, Zenon
  <2> QED
    BY <2>1, <2>2
<1> DEFINE u == s \o Pending
           h == Head(s)
<1>8. u \in Seq(Store) /\ u # <<>> /\ Head(u) = h /\ Tail(u) = Tail(s) \o Pending
  BY <1>3, <1>6, FirstMoves
<1> HIDE DEF u
<1>9. Pending' = Pending
  <2>1. StoresOf' = StoresOf
    BY <1>2, SameCalls
  <2> QED
    BY <1>2, <2>1, Zenon DEF Pending
<1>10. ASSUME NEW a \in 0 .. Size - 1
       PROVE  mem'[a] = IF Touches(h, a) THEN Leaves(h, a) ELSE mem[a]
  <2> DEFINE d == x.data
             w == WordAddr(b, served)
             Finds(p, e)  == \E j \in DOMAIN e : a = (p + j) % Size
             Brings(p, e) == e[CHOOSE j \in DOMAIN e : a = (p + j) % Size]
  <2>1. /\ Finds(w, d) <=> \E j \in DOMAIN d : a = Cell(b, served, j)
        /\ Brings(w, d) = d[CHOOSE j \in DOMAIN d : a = Cell(b, served, j)]
    BY DEF Cell
  <2>2. /\ Touches(h, a) <=> \E j \in DOMAIN d : a = Cell(b, served, j)
        /\ Leaves(h, a) = d[CHOOSE j \in DOMAIN d : a = Cell(b, served, j)]
    <3>1. (Touches(h, a) <=> Finds(h.place, h.data)) /\ Leaves(h, a) = Brings(h.place, h.data)
      BY DEF Touches, Leaves
    <3>2. h.place = w /\ h.data = d
      BY <1>6
    <3> HIDE DEF h, d, w, Finds, Brings
    <3> QED
      BY <2>1, <3>1, <3>2, Zenon
  <2>3. mem'[a] = IF \E j \in DOMAIN d : a = Cell(b, served, j)
                  THEN d[CHOOSE j \in DOMAIN d : a = Cell(b, served, j)] ELSE mem[a]
    BY <1>1, <1>3 DEF Stored, d
  <2> QED
    BY <2>2, <2>3, Zenon
<1>11. ASSUME NEW a \in 0 .. Size - 1
       PROVE  Shows(mem', Tail(s) \o Pending', a, Holds(a, LastWrite(a, DOMAIN calls))')
  <2> DEFINE v == Holds(a, LastWrite(a, DOMAIN calls))
             p == mem'
  <2>1. Shows(mem, u, a, v)
    BY <1>5 DEF Promised, u
  <2>2. v' = v
    BY <1>2, SameCalls
  <2>3. p[a] = IF Touches(Head(u), a) THEN Leaves(Head(u), a) ELSE mem[a]
    BY <1>8, <1>10, Zenon
  <2> HIDE DEF v, p
  <2>4. Shows(p, Tail(u), a, v)
    BY <1>8, <2>1, <2>3, ShowsNext
  <2> QED
    BY <1>8, <1>9, <2>2, <2>4, Zenon DEF v, p
<1>12. Promised(Tail(s))'
  BY <1>11, Zenon DEF Promised
<1> QED
  BY <1>6, <1>7, <1>12, Zenon DEF Written

\* All others leave what is on its way and where it goes.
LEMMA WrittenOthers ==
  ASSUME Inv, Written,
         \/ \E c \in Channels : Edge(c)
         \/ Overtake \/ RamRead \/ read_logic \/ read_resp_logic \/ write_resp_logic
  PROVE  Written'
<1>1. CASE \E c \in Channels : Edge(c)
  <2>1. PICK c \in Channels : Edge(c)
    BY <1>1
  <2>2. Flow(chan'.aw) = Flow(chan.aw) /\ Flow(chan'.w) = Flow(chan.w)
    BY <2>1, EdgeMoves, Zenon DEF Inv
  <2>3. UNCHANGED <<calls, write_command_queue, served, mem>>
    BY <2>1 DEF Edge, asked, queues, ram
  <2> QED
    BY <2>2, <2>3, WrittenKept
<1>2. CASE Overtake \/ RamRead \/ read_logic \/ read_resp_logic
  <2>1. /\ chan'.aw = chan.aw /\ chan'.w = chan.w
        /\ UNCHANGED <<calls, write_command_queue, served, mem>>
    BY <1>2, ReadsApart DEF Inv
  <2>2. Flow(chan'.aw) = Flow(chan.aw) /\ Flow(chan'.w) = Flow(chan.w)
    BY <2>1, Zenon
  <2> QED
    BY <2>1, <2>2, WrittenKept
<1>3. CASE write_resp_logic
  <2>1. chan' = [chan EXCEPT !.b.sink = Tail(@)] /\ chan = [c \in Channels |-> chan[c]]
    BY <1>3 DEF write_resp_logic, Inv, Channelling
  <2>2. chan'.aw = chan.aw /\ chan'.w = chan.w
    BY <2>1 DEF Channels
  <2>3. UNCHANGED <<calls, write_command_queue, served, mem>>
    BY <1>3 DEF write_resp_logic, asked, queues, ram
  <2>4. Flow(chan'.aw) = Flow(chan.aw) /\ Flow(chan'.w) = Flow(chan.w)
    BY <2>2, Zenon
  <2> QED
    BY <2>3, <2>4, WrittenKept
<1> QED
  BY <1>1, <1>2, <1>3

---------------------------------------------------------------------------
(* wait() *)

Settled == Inv /\ Counted /\ Written

LEMMA NothingOnItsWay == Init => Flow(chan.aw) = <<>> /\ Flow(chan.w) = <<>> /\ Flow(chan.b) = <<>>
<1> SUFFICES ASSUME Init PROVE Flow(chan.aw) = <<>> /\ Flow(chan.w) = <<>> /\ Flow(chan.b) = <<>>
  OBVIOUS
<1>1. chan.aw = Idling /\ chan.w = Idling /\ chan.b = Idling
  BY DEF Init, Channels
<1>2. Signals(Idling) = <<>> /\ Idling.sink = <<>> /\ Idling.queue = <<>>
  BY DEF Signals, Idling
<1>3. <<>> \o (<<>> \o <<>>) = <<>>
  <2>1. <<>> \in Seq({})
    BY EmptySeq
  <2> QED
    BY <2>1, ConcatEmptySeq
<1>4. Flow(Idling) = <<>>
  BY <1>2, <1>3, Zenon DEF Flow
<1> QED
  BY <1>1, <1>4, Zenon

LEMMA SettledBegins == Init => Settled
<1> SUFFICES ASSUME Init PROVE Settled
  OBVIOUS
<1>1. Inv /\ Flow(chan.aw) = <<>> /\ Flow(chan.w) = <<>> /\ Flow(chan.b) = <<>>
  BY Begins, NothingOnItsWay
<1>2. /\ calls = <<>> /\ write_command_queue = <<>> /\ served = 0 /\ mem = [a \in 0 .. Size - 1 |-> Zero]
      /\ Writing = <<>> /\ Reads = <<>> /\ in_flight_operations = 0
  BY DEF Init, Writing, Reads
<1>3. Counted
  <2>1. Len(<<>>) = 0 /\ <<>> \in Seq(Count)
    BY EmptySeq
  <2>2. Expected(<<>>) = 0
    BY TokensAre
  <2> QED
    BY <1>1, <1>2, <2>1, <2>2 DEF Counted
<1>4. AreStores(<<>>, <<>>, 0, <<>>)
  <2>1. /\ Each(PlacesOf(Burst), <<>>) = <<>> /\ Each(PlaceOf, <<>>) = <<>>
        /\ Each(DataOf(BeatIn), <<>>) = <<>> /\ Each(DataOf(Store), <<>>) = <<>>
    BY ListsOfStores, EachOne
  <2>2. After(Nat, <<>>, 0, <<>>)
    BY EmptySeq, AfterNone
  <2> QED
    BY <2>1, <2>2 DEF AreStores
<1>5. Pending = <<>>
  BY <1>1, <1>2, PendingIs DEF Inv
<1>6. <<>> \o <<>> = <<>> /\ <<>> \in Seq(Store)
  BY EmptySeq, ConcatEmptySeq
<1>7. ASSUME NEW a \in 0 .. Size - 1
      PROVE  Shows(mem, <<>> \o Pending, a, Holds(a, LastWrite(a, DOMAIN calls)))
  <2>1. DOMAIN calls = {}
    BY <1>2
  <2>2. LastWrite(a, DOMAIN calls) = 0
    BY <2>1 DEF LastWrite, Writers
  <2>3. Holds(a, LastWrite(a, DOMAIN calls)) = mem[a]
    BY <1>2, <2>2 DEF Holds
  <2>4. Untouched(<<>>, a)
    BY DEF Untouched
  <2> QED
    BY <1>5, <1>6, <2>3, <2>4, Zenon DEF Shows
<1>8. Promised(<<>>)
  BY <1>7 DEF Promised
<1>9. AreStores(Flow(chan.aw), Flow(chan.w), served, <<>>)
  BY <1>1, <1>2, <1>4, Zenon
<1>10. Written
  BY <1>6, <1>8, <1>9, Zenon DEF Written
<1> QED
  BY <1>1, <1>3, <1>10 DEF Settled

LEMMA SettledKeeps == Settled /\ [Next]_vars => Settled'
<1> SUFFICES ASSUME Inv, Counted, Written, [Next]_vars PROVE Counted' /\ Written'
  BY Keeps DEF Settled
<1>1. ASSUME NEW c \in Calls, init_write(c) \/ init_read(c) PROVE Counted' /\ Written'
  BY <1>1, CountedAsks, WrittenAsks
<1>2. CASE write_logic
  BY <1>2, CountedWrites, WrittenWrites
<1>3. CASE read_logic \/ read_resp_logic \/ Overtake \/ RamRead
  BY <1>3, CountedReads, WrittenOthers
<1>4. CASE write_resp_logic
  BY <1>4, CountedResponds, WrittenOthers
<1>5. ASSUME NEW c \in Channels, Edge(c) PROVE Counted' /\ Written'
  BY <1>5, CountedEdges, WrittenOthers
<1>6. CASE write_addr_edge \/ write_data_edge \/ write_resp_edge \/ read_addr_edge \/ read_data_edge
  BY <1>5, <1>6 DEF Channels, write_addr_edge, write_data_edge, write_resp_edge,
                    read_addr_edge, read_data_edge
<1>7. CASE RamWrite
  BY <1>7, CountedRam, WrittenRam
<1>8. CASE UNCHANGED vars
  <2>1. UNCHANGED <<calls, write_command_queue, int_write_resp_command_queue,
                    int_read_resp_command_queue, in_flight_operations, chan, served, mem>>
    BY <1>8 DEF vars, asked, queues, resps, ram
  <2>2. Counted'
    BY <2>1, Zenon DEF Counted, Writing, Reads
  <2>3. Flow(chan'.aw) = Flow(chan.aw) /\ Flow(chan'.w) = Flow(chan.w)
    BY <2>1, Zenon
  <2> QED
    BY <2>1, <2>2, <2>3, WrittenKept
<1> QED
  BY <1>1, <1>2, <1>3, <1>4, <1>6, <1>7, <1>8 DEF Next

\* With nothing in flight no store is left to make.
LEMMA NothingLeft == Settled => WaitMeansDone
<1> SUFFICES ASSUME Settled, idle, NEW a \in DOMAIN mem
             PROVE  mem[a] = Holds(a, LastWrite(a, DOMAIN calls))
  BY DEF WaitMeansDone
<1> DEFINE A == Flow(chan.aw)
           B == Flow(chan.b)
           W == Flow(chan.w)
           v == Holds(a, LastWrite(a, DOMAIN calls))
<1>1. Inv /\ Counted /\ Written
  BY DEF Settled
<1>2. write_command_queue = <<>> /\ in_flight_operations = 0
  BY DEF idle
<1>3. /\ A \in Seq(Burst) /\ B \in Seq(Response) /\ W \in Seq(BeatIn) /\ Reads \in Seq(Reading)
      /\ served \in Nat /\ InStep(A, W, served) /\ mem \in [0 .. Size - 1 -> Val]
  BY <1>1, FlowIs DEF Inv, Channelling, Waiting, Storing, InFlight
<1>4. /\ Writing \in Seq(Count) /\ Expected(Writing) = Len(A) + Len(B)
      /\ in_flight_operations = Len(Writing) + Len(Reads)
  BY <1>1 DEF Counted
<1>5. PICK s \in Seq(Store) : AreStores(A, W, served, s) /\ Promised(s)
  BY <1>1, Zenon DEF Written
<1> HIDE DEF A, B, W
<1>6. Writing = <<>>
  <2>1. Len(Writing) \in Nat /\ Len(Reads) \in Nat
    BY <1>3, <1>4, LenProperties
  <2>2. Len(Writing) = 0
    BY <1>2, <1>4, <2>1
  <2> QED
    BY <1>4, <2>2, EmptySeq
<1>7. A = <<>>
  <2>1. Len(A) \in Nat /\ Len(B) \in Nat
    BY <1>3, LenProperties
  <2>2. Expected(Writing) = 0
    BY <1>6, TokensAre, Zenon
  <2>3. Len(A) = 0
    BY <1>4, <2>1, <2>2
  <2> QED
    BY <1>3, <2>3, EmptySeq
<1>8. served = 0
  BY <1>3, <1>7 DEF InStep
<1>9. s = <<>>
  BY <1>3, <1>5, <1>7, <1>8, NoStores
<1>10. s \o Pending = <<>>
  <2>1. Pending = <<>>
    BY <1>1, <1>2, PendingIs DEF Inv
  <2>2. <<>> \o <<>> = <<>>
    BY <1>5, <1>9, ConcatEmptySeq
  <2> QED
    BY <1>9, <2>1, <2>2
<1>11. Shows(mem, <<>>, a, v)
  <2>1. a \in 0 .. Size - 1
    BY <1>3
  <2> QED
    BY <1>5, <1>10, <2>1 DEF Promised
<1> HIDE DEF v
<1>12. ~EndsAs(<<>>, a, v)
  BY DEF EndsAs
<1> QED
  BY <1>11, <1>12, Zenon DEF Shows, v

\* Whatever the width of the bus, the longest burst and the ids, however the calls overlap
\* and whoever is paused: once wait() returns, every place of the memory holds the byte
\* that the last write to it put there.
THEOREM WaitsForAll == Spec => []WaitMeansDone
<1>1. Spec => []Settled
  BY SettledBegins, SettledKeeps, PTL DEF Spec
<1> QED
  BY <1>1, NothingLeft, PTL

===========================================================================
