-------------------------- MODULE KnnSelectProofs --------------------------
(***************************************************************************)
(* The list of neighbours is the nearest entries in order, and the vote    *)
(* among them goes to the label with the most, for every number of         *)
(* neighbours, data points, classes and test points.                       *)
(***************************************************************************)
EXTENDS KnnSelect, TLAPS, SequenceTheorems, FiniteSetTheorems, WellFoundedInduction

LEMMA Sizes ==
  /\ N \in Nat /\ N > 0 /\ K \in Nat /\ K > 0 /\ C \in Nat /\ C > 0 /\ NumTests \in Nat
  /\ Delay \in Nat /\ Delay <= N /\ INFINITE \in Nat
  /\ \A d \in Dists : d \in Nat /\ d < INFINITE
  BY SizesAssumption, DistsAssumption

---------------------------------------------------------------------------
(* The ordered list *)

\* A set of natural numbers has a first one.
LEMMA FirstNumber ==
  ASSUME NEW S, S \subseteq Nat, S # {}
  PROVE  \E j \in S : \A m \in S : ~(m < j)
<1>1. PICK j \in S : \A m \in S : ~(<<m, j>> \in OpToRel(<, Nat))
  BY NatLessThanWellFounded, WFMin
<1> QED
  BY <1>1 DEF OpToRel

\* A loop that counts up stops at the first slot it looks for.
LEMMA FirstSlot ==
  ASSUME NEW S, S \subseteq Slots, S # {}
  PROVE  \E j \in Slots : IsFirst(j, S)
<1>1. S \subseteq Nat
  BY Sizes DEF Slots
<1>2. PICK j \in S : \A m \in S : ~(m < j)
  BY <1>1, FirstNumber
<1> QED
  BY <1>1, <1>2 DEF IsFirst

\* What one turn of the scan does to the list.
LEMMA ConsiderCases ==
  ASSUME NEW list \in [Slots -> Neighbor], NEW element \in Neighbor
  PROVE  \/ /\ Consider(list, element) = list
            /\ \A j \in Slots : list[j].dist <= element.dist
         \/ \E p \in Slots :
              /\ Consider(list, element) = Insert(list, element, p)
              /\ element.dist < list[p].dist
              /\ \A j \in Slots : j < p => list[j].dist <= element.dist
<1> DEFINE S == Farther(list, element.dist)
<1>0. /\ \A j \in Slots : list[j].dist \in Int /\ j \in Int
      /\ element.dist \in Int
  BY DEF Neighbor, Slots
<1>1. CASE S = {}
  BY <1>0, <1>1 DEF Consider, Farther
<1>2. CASE S # {}
  <2> DEFINE p == CHOOSE j \in Slots : IsFirst(j, S)
  <2>1. p \in Slots /\ IsFirst(p, S)
    <3>1. \E j \in Slots : IsFirst(j, S)
      BY <1>2, FirstSlot DEF Farther
    <3> QED
      BY <3>1
  <2>2. Consider(list, element) = Insert(list, element, p)
    BY <1>2 DEF Consider
  <2> HIDE DEF p
  <2>3. /\ element.dist < list[p].dist
        /\ \A j \in Slots : j < p => list[j].dist <= element.dist
    BY <1>0, <2>1 DEF IsFirst, Farther
  <2> QED
    BY <2>1, <2>2, <2>3
<1> QED
  BY <1>1, <1>2

LEMMA ConsiderType ==
  ASSUME NEW list \in [Slots -> Neighbor], NEW element \in Neighbor
  PROVE  Consider(list, element) \in [Slots -> Neighbor]
<1>1. ASSUME NEW p \in Slots
      PROVE  Insert(list, element, p) \in [Slots -> Neighbor]
  BY Sizes DEF Insert, Slots
<1> QED
  BY <1>1, ConsiderCases

---------------------------------------------------------------------------
(* Type correctness *)

\* A test point is in work only while there are any left, and the scan looks only at
\* entries that hold a distance.
InWork ==
  /\ pc # "read" => k < NumTests
  /\ pc = "scan" => i >= Delay /\ \A n \in Delay .. N - 1 : distance[n] \in Dists

LEMMA TypeInit ==
  ASSUME Init
  PROVE  TypeOK /\ InWork
<1>1. neighbor \in [Slots -> Neighbor]
  <2>1. [idx |-> 0, dist |-> INFINITE] \in Neighbor
    BY Sizes DEF Neighbor
  <2> QED
    BY <2>1 DEF Init
<1>2. distance \in [0 .. N - 1 -> Dists \cup {0}] /\ votes_acc \in [Labels -> Nat]
  BY Sizes DEF Init
<1>3. scanned \in Seq([idx : 0 .. N - 1, dist : Dists])
  BY DEF Init
<1> QED
  BY <1>1, <1>2, <1>3, Sizes DEF Init, TypeOK, InWork

LEMMA TypeNext ==
  ASSUME TypeOK, InWork, [Next]_vars
  PROVE  TypeOK' /\ InWork'
<1> USE Sizes DEF TypeOK, InWork
<1>1. CASE Read
  BY <1>1 DEF Read
<1>2. CASE Scan
  <2> DEFINE element == [idx |-> i, dist |-> distance[i]]
  <2>1. i \in 0 .. N - 1 /\ distance[i] \in Dists
    BY <1>2 DEF Scan
  <2>2. element \in Neighbor /\ element \in [idx : 0 .. N - 1, dist : Dists]
    BY <2>1 DEF Neighbor
  <2>3. neighbor' \in [Slots -> Neighbor]
    BY <1>2, <2>2, ConsiderType DEF Scan
  <2>4. scanned' \in Seq([idx : 0 .. N - 1, dist : Dists])
    BY <1>2, <2>2 DEF Scan
  <2> QED
    BY <1>2, <2>1, <2>3, <2>4 DEF Scan
<1>3. CASE ScanDone
  BY <1>3 DEF ScanDone
<1>4. CASE Vote
  <2>1. votes_acc' \in [Labels -> Nat]
    <3>1. ASSUME NEW l \in Labels
          PROVE  [votes_acc EXCEPT ![BestVoted] = @ + 1][l] \in Nat
      BY <3>1
    <3> QED
      BY <1>4, <3>1 DEF Vote
  <2> QED
    BY <1>4, <2>1 DEF Vote
<1>5. CASE UNCHANGED vars
  BY <1>5 DEF vars
<1> QED
  BY <1>1, <1>2, <1>3, <1>4, <1>5 DEF Next

\* The registers of the classification loop keep their types: TypeOK of KnnSelect.
THEOREM SelectTypeCorrect == Spec => [](TypeOK /\ InWork)
  BY TypeInit, TypeNext, PTL DEF Spec

---------------------------------------------------------------------------
(* The list is sorted *)

\* The entries of list that come before its entry s, and Rank there.
Before(list, s) ==
  {t \in 1 .. Len(list) : list[t].dist < list[s].dist \/ (list[t].dist = list[s].dist /\ t < s)}
RankIn(list, s) == Cardinality(Before(list, s))

LEMMA RankIsRankIn == \A s : Rank(s) = RankIn(scanned, s)
BY DEF Rank, RankIn, Before

\* A slot that is not empty holds the entry with as many before it.
Filled ==
  \A j \in Slots : j < Len(scanned) =>
    \E s \in 1 .. Len(scanned) : Rank(s) = j /\ neighbor[j] = scanned[s]

LEMMA CountedIn ==
  ASSUME NEW n \in Nat, NEW S, S \subseteq 1 .. n
  PROVE  /\ IsFiniteSet(S) /\ Cardinality(S) \in Nat /\ Cardinality(S) <= n
         /\ \A T \in SUBSET S : Cardinality(T) <= Cardinality(S) /\ Cardinality(T) \in Nat
<1>1. IsFiniteSet(1 .. n) /\ Cardinality(1 .. n) = n
  BY FS_Interval
<1>2. IsFiniteSet(S) /\ Cardinality(S) <= n
  BY <1>1, FS_Subset
<1>3. Cardinality(S) \in Nat
  BY <1>2, FS_CardinalityType
<1>4. \A T \in SUBSET S : Cardinality(T) <= Cardinality(S) /\ Cardinality(T) \in Nat
  BY <1>2, FS_Subset, FS_CardinalityType
<1> QED
  BY <1>2, <1>3, <1>4

\* One more entry, at distance d[n + 1], comes before those that are farther and after the
\* others.
Ahead(d, n, s) == {t \in 1 .. n : d[t] < d[s] \/ (d[t] = d[s] /\ t < s)}

LEMMA AheadStep ==
  ASSUME NEW n \in Nat, NEW d \in [1 .. n + 1 -> Nat]
  PROVE  /\ Cardinality(Ahead(d, n + 1, n + 1)) \in 0 .. n
         /\ \A s \in 1 .. n :
              /\ Cardinality(Ahead(d, n, s)) \in Nat
              /\ Cardinality(Ahead(d, n + 1, s)) =
                   IF d[n + 1] < d[s] THEN Cardinality(Ahead(d, n, s)) + 1
                                      ELSE Cardinality(Ahead(d, n, s))
              /\ d[s] <= d[n + 1] <=>
                   Cardinality(Ahead(d, n, s)) < Cardinality(Ahead(d, n + 1, n + 1))
<1> DEFINE last == Ahead(d, n + 1, n + 1)
<1>1. \A t : t \in last <=> t \in 1 .. n /\ d[t] <= d[n + 1]
  <2>1. \A t : t \in last <=> t \in 1 .. n + 1 /\ (d[t] < d[n + 1] \/ (d[t] = d[n + 1] /\ t < n + 1))
    BY DEF Ahead
  <2> QED
    BY <2>1
<1>2. Cardinality(last) \in 0 .. n
  <2>1. Cardinality(last) \in Nat /\ Cardinality(last) <= n
    BY <1>1, CountedIn
  <2> QED
    BY <2>1
<1> HIDE DEF last
<1>3. ASSUME NEW s \in 1 .. n
      PROVE  /\ Cardinality(Ahead(d, n, s)) \in Nat
             /\ Cardinality(Ahead(d, n + 1, s)) =
                  IF d[n + 1] < d[s] THEN Cardinality(Ahead(d, n, s)) + 1
                                     ELSE Cardinality(Ahead(d, n, s))
             /\ d[s] <= d[n + 1] <=> Cardinality(Ahead(d, n, s)) < Cardinality(last)
  <2> DEFINE old == Ahead(d, n, s)
             new == Ahead(d, n + 1, s)
  <2>1. /\ \A t : t \in old <=> t \in 1 .. n /\ (d[t] < d[s] \/ (d[t] = d[s] /\ t < s))
        /\ \A t : t \in new <=> t \in 1 .. n + 1 /\ (d[t] < d[s] \/ (d[t] = d[s] /\ t < s))
    BY DEF Ahead
  <2> HIDE DEF old, new
  <2>2. old \subseteq 1 .. n /\ s \notin old /\ n + 1 \notin old
    BY <2>1
  <2>3. /\ IsFiniteSet(old) /\ Cardinality(old) \in Nat
        /\ \A T \in SUBSET old : Cardinality(T) <= Cardinality(old)
    BY <2>2, CountedIn
  <2>4. Cardinality(new) = IF d[n + 1] < d[s] THEN Cardinality(old) + 1 ELSE Cardinality(old)
    <3>1. \A t : t \in new <=> t \in old \/ (d[n + 1] < d[s] /\ t = n + 1)
      <4> TAKE t
      <4>1. t \in 1 .. n + 1 <=> t \in 1 .. n \/ t = n + 1
        OBVIOUS
      <4>2. CASE t \in 1 .. n
        BY <2>1, <4>1, <4>2
      <4>3. CASE t = n + 1
        BY <2>1, <4>1, <4>3
      <4> QED
        BY <2>1, <4>1, <4>2, <4>3
    <3>2. new = IF d[n + 1] < d[s] THEN old \union {n + 1} ELSE old
      BY <3>1
    <3>3. Cardinality(old \union {n + 1}) = Cardinality(old) + 1
      BY <2>2, <2>3, FS_AddElement
    <3> QED
      BY <3>2, <3>3
  <2>5. CASE d[s] <= d[n + 1]
    <3>1. old \union {s} \subseteq last /\ last \subseteq 1 .. n
      <4>1. \A t \in old : t \in 1 .. n /\ d[t] <= d[n + 1]
        BY <2>1, <2>5
      <4> QED
        BY <1>1, <2>5, <4>1
    <3>2. Cardinality(old \union {s}) = Cardinality(old) + 1
      BY <2>2, <2>3, FS_AddElement
    <3>3. Cardinality(old) + 1 <= Cardinality(last) /\ Cardinality(last) \in Nat
      BY <3>1, <3>2, CountedIn
    <3> QED
      BY <2>3, <2>4, <2>5, <3>3 DEF old, new
  <2>6. CASE ~(d[s] <= d[n + 1])
    <3>1. last \subseteq old
      BY <1>1, <2>1, <2>6
    <3>2. Cardinality(last) <= Cardinality(old)
      BY <2>3, <3>1
    <3> QED
      BY <1>2, <2>3, <2>4, <2>6, <3>2 DEF old, new
  <2> QED
    BY <2>5, <2>6
<1> QED
  BY <1>2, <1>3 DEF last

\* What the scan looks at.
Entry == [idx : 0 .. N - 1, dist : Dists]

LEMMA RankStep ==
  ASSUME NEW list \in Seq(Entry), NEW e \in Entry
  PROVE  /\ RankIn(Append(list, e), Len(list) + 1) \in 0 .. Len(list)
         /\ \A s \in 1 .. Len(list) :
              /\ RankIn(list, s) \in Nat
              /\ RankIn(Append(list, e), s) =
                   IF e.dist < list[s].dist THEN RankIn(list, s) + 1 ELSE RankIn(list, s)
              /\ list[s].dist <= e.dist <=>
                   RankIn(list, s) < RankIn(Append(list, e), Len(list) + 1)
<1> DEFINE more == Append(list, e)
           L == Len(list)
           d == [t \in 1 .. L + 1 |-> more[t].dist]
<1>1. /\ L \in Nat /\ Len(more) = L + 1 /\ more[L + 1] = e
      /\ \A s \in 1 .. L : more[s] = list[s] /\ list[s].dist \in Nat
      /\ e.dist \in Nat
  <2>1. \A s \in 1 .. L : list[s] \in Entry
    BY ElementOfSeq
  <2> QED
    BY <2>1, Sizes DEF Entry
<1>2. \A s \in 1 .. L : Before(list, s) = Ahead(d, L, s)
  BY <1>1 DEF Before, Ahead
<1>3. \A s \in 1 .. L + 1 : Before(more, s) = Ahead(d, L + 1, s)
  BY <1>1 DEF Before, Ahead
<1>4. /\ d \in [1 .. L + 1 -> Nat] /\ d[L + 1] = e.dist /\ \A s \in 1 .. L : d[s] = list[s].dist
      /\ L + 1 \in 1 .. L + 1 /\ \A s \in 1 .. L : s \in 1 .. L + 1
  BY <1>1
<1> HIDE DEF L, d, more
<1>5. /\ Cardinality(Ahead(d, L + 1, L + 1)) \in 0 .. L
      /\ \A s \in 1 .. L :
              /\ Cardinality(Ahead(d, L, s)) \in Nat
              /\ Cardinality(Ahead(d, L + 1, s)) =
                   IF d[L + 1] < d[s] THEN Cardinality(Ahead(d, L, s)) + 1
                                      ELSE Cardinality(Ahead(d, L, s))
              /\ d[s] <= d[L + 1] <=>
                   Cardinality(Ahead(d, L, s)) < Cardinality(Ahead(d, L + 1, L + 1))
  BY <1>1, <1>4, AheadStep
<1>6. /\ \A s \in 1 .. L : RankIn(list, s) = Cardinality(Ahead(d, L, s))
      /\ \A s \in 1 .. L + 1 : RankIn(more, s) = Cardinality(Ahead(d, L + 1, s))
  BY <1>2, <1>3 DEF RankIn
<1> QED
  BY <1>4, <1>5, <1>6 DEF L, more

LEMMA NearestScan ==
  ASSUME TypeOK, InWork, NearestFirst, Filled, Scan
  PROVE  NearestFirst' /\ Filled'
<1> DEFINE e == [idx |-> i, dist |-> distance[i]]
           L == Len(scanned)
           r == RankIn(scanned', L + 1)
<1>1. /\ e \in Neighbor /\ e \in [idx : 0 .. N - 1, dist : Dists] /\ e.dist < INFINITE
      /\ neighbor' = Consider(neighbor, e) /\ scanned' = Append(scanned, e)
  BY Sizes DEF Scan, TypeOK, InWork, Neighbor
<1>2. /\ L \in Nat /\ Len(scanned') = L + 1 /\ scanned'[L + 1] = e
      /\ \A s \in 1 .. L : scanned'[s] = scanned[s]
  BY <1>1 DEF TypeOK
<1>3. /\ \A j \in Slots : neighbor[j].dist \in Int /\ j \in Nat
      /\ e.dist \in Nat /\ INFINITE \in Nat /\ K \in Nat /\ K > 0
      /\ \A s \in 1 .. L : scanned[s].dist \in Nat
      /\ neighbor \in [Slots -> Neighbor]
  <2>1. \A s \in 1 .. L : scanned[s] \in [idx : 0 .. N - 1, dist : Dists]
    BY ElementOfSeq DEF TypeOK
  <2>2. \A s \in 1 .. L : scanned[s].dist \in Nat
    BY <2>1, Sizes
  <2>3. neighbor \in [Slots -> Neighbor]
    BY DEF TypeOK
  <2>4. \A j \in Slots : neighbor[j].dist \in Int /\ j \in Nat
    BY <2>3, Sizes DEF Neighbor, Slots
  <2> QED
    BY <1>1, <2>2, <2>3, <2>4, Sizes DEF Neighbor
<1>4. /\ r \in 0 .. L
      /\ \A s \in 1 .. L :
           /\ RankIn(scanned, s) \in Nat
           /\ RankIn(scanned', s) = IF e.dist < scanned[s].dist THEN RankIn(scanned, s) + 1 ELSE RankIn(scanned, s)
           /\ scanned[s].dist <= e.dist <=> RankIn(scanned, s) < r
  <2>1. scanned \in Seq(Entry)
    BY DEF TypeOK, Entry
  <2>2. e \in Entry
    BY <1>1 DEF Entry
  <2> HIDE DEF e
  <2>3. /\ RankIn(Append(scanned, e), Len(scanned) + 1) \in 0 .. Len(scanned)
        /\ \A s \in 1 .. Len(scanned) :
             /\ RankIn(scanned, s) \in Nat
             /\ RankIn(Append(scanned, e), s) =
                  IF e.dist < scanned[s].dist THEN RankIn(scanned, s) + 1 ELSE RankIn(scanned, s)
             /\ scanned[s].dist <= e.dist <=>
                  RankIn(scanned, s) < RankIn(Append(scanned, e), Len(scanned) + 1)
    BY <2>1, <2>2, RankStep
  <2>4. scanned' = Append(scanned, e)
    BY <1>1
  <2> QED
    BY <2>3, <2>4
<1> HIDE DEF e, L, r
<1>5. /\ \A s \in 1 .. L : RankIn(scanned, s) < K => neighbor[RankIn(scanned, s)] = scanned[s]
      /\ \A j \in Slots : j >= L => neighbor[j].dist = INFINITE
      /\ \A j \in Slots : j < L => \E s \in 1 .. L : RankIn(scanned, s) = j /\ neighbor[j] = scanned[s]
  BY RankIsRankIn DEF NearestFirst, Filled, L
\* It is enough to look at the entries one by one.
<1>6. ASSUME \A s \in 1 .. L + 1 : RankIn(scanned', s) < K => neighbor'[RankIn(scanned', s)] = scanned'[s],
             \A j \in Slots : j >= L + 1 => neighbor'[j].dist = INFINITE,
             \A j \in Slots : j < L + 1 =>
               \E s \in 1 .. L + 1 : RankIn(scanned', s) = j /\ neighbor'[j] = scanned'[s]
      PROVE  NearestFirst' /\ Filled'
  <2>1. \A s : Rank(s)' = RankIn(scanned', s)
    BY DEF Rank, RankIn, Before
  <2> QED
    BY <1>2, <1>6, <2>1 DEF NearestFirst, Filled
<1>7. CASE neighbor' = neighbor /\ \A j \in Slots : neighbor[j].dist <= e.dist
  <2>1. \A j \in Slots : j < L
    BY <1>1, <1>2, <1>3, <1>5, <1>7
  <2>2. K - 1 \in Slots /\ K <= L
    BY <1>2, <1>3, <2>1 DEF Slots
  <2>3. PICK s \in 1 .. L : RankIn(scanned, s) = K - 1 /\ neighbor[K - 1] = scanned[s]
    BY <1>5, <2>1, <2>2
  <2>4. r >= K
    BY <1>2, <1>3, <1>4, <1>7, <2>2, <2>3
  <2>5. ASSUME NEW x \in 1 .. L, RankIn(scanned, x) < K
        PROVE  RankIn(scanned', x) = RankIn(scanned, x)
    <3>1. RankIn(scanned, x) \in Slots /\ neighbor[RankIn(scanned, x)] = scanned[x]
      BY <1>3, <1>4, <1>5, <2>5 DEF Slots
    <3> QED
      BY <1>3, <1>4, <1>7, <3>1
  <2>6. ASSUME NEW x \in 1 .. L + 1, RankIn(scanned', x) < K
        PROVE  neighbor'[RankIn(scanned', x)] = scanned'[x]
    <3>1. x \in 1 .. L
      <4>1. x = L + 1 => RankIn(scanned', x) = r
        BY DEF r
      <4>2. ~(r < K)
        BY <1>2, <1>3, <1>4, <2>4
      <4> QED
        BY <1>2, <2>6, <4>1, <4>2
    <3>2. RankIn(scanned, x) < K
      BY <1>3, <1>4, <2>6, <3>1
    <3> QED
      BY <1>2, <1>5, <1>7, <2>5, <3>1, <3>2
  <2>7. ASSUME NEW j \in Slots
        PROVE  /\ ~(j >= L + 1)
               /\ \E x \in 1 .. L + 1 : RankIn(scanned', x) = j /\ neighbor'[j] = scanned'[x]
    <3>1. PICK x \in 1 .. L : RankIn(scanned, x) = j /\ neighbor[j] = scanned[x]
      BY <1>5, <2>1
    <3>2. j < K
      BY <1>3 DEF Slots
    <3> QED
      BY <1>2, <1>3, <1>7, <2>1, <2>5, <3>1, <3>2
  <2> QED
    BY <1>6, <2>6, <2>7
<1>8. ASSUME NEW p \in Slots,
             neighbor' = Insert(neighbor, e, p),
             e.dist < neighbor[p].dist,
             \A j \in Slots : j < p => neighbor[j].dist <= e.dist
      PROVE  NearestFirst' /\ Filled'
  <2>1. /\ \A j \in Slots : j < p => neighbor'[j] = neighbor[j]
        /\ neighbor'[p] = e
        /\ \A j \in Slots : j > p => j - 1 \in Slots /\ neighbor'[j] = neighbor[j - 1]
    BY <1>3, <1>8 DEF Insert, Slots
  <2>2. p <= L /\ p <= r
    <3>1. CASE p = 0
      BY <1>2, <1>4, <3>1
    <3>2. CASE p # 0
      <4>1. p - 1 \in Slots /\ p - 1 < p
        BY <1>3, <3>2 DEF Slots
      <4>2. p - 1 < L
        BY <1>1, <1>2, <1>3, <1>5, <1>8, <4>1
      <4>3. PICK s \in 1 .. L : RankIn(scanned, s) = p - 1 /\ neighbor[p - 1] = scanned[s]
        BY <1>5, <4>1, <4>2
      <4>4. p - 1 < r
        BY <1>4, <1>8, <4>1, <4>3
      <4> QED
        BY <1>2, <1>3, <1>4, <4>2, <4>4
    <3> QED
      BY <3>1, <3>2
  <2>3. r = p
    <3>1. CASE p < L
      <4>1. PICK s \in 1 .. L : RankIn(scanned, s) = p /\ neighbor[p] = scanned[s]
        BY <1>5, <3>1
      <4>2. ~(p < r)
        BY <1>3, <1>4, <1>8, <4>1
      <4> QED
        BY <1>2, <1>3, <1>4, <2>2, <4>2
    <3>2. CASE ~(p < L)
      BY <1>2, <1>3, <1>4, <2>2, <3>2
    <3> QED
      BY <3>1, <3>2
  <2>4. ASSUME NEW x \in 1 .. L
        PROVE  RankIn(scanned', x) = IF RankIn(scanned, x) < p THEN RankIn(scanned, x) ELSE RankIn(scanned, x) + 1
    BY <1>3, <1>4, <2>3
  <2>5. ASSUME NEW x \in 1 .. L + 1, RankIn(scanned', x) < K
        PROVE  neighbor'[RankIn(scanned', x)] = scanned'[x]
    <3>1. CASE x = L + 1
      BY <1>2, <2>1, <2>3, <3>1 DEF r
    <3>2. CASE x \in 1 .. L
      <4>1. RankIn(scanned, x) < K /\ RankIn(scanned, x) \in Nat /\ RankIn(scanned', x) \in Slots
        BY <1>3, <1>4, <2>5, <3>2 DEF Slots
      <4>2. neighbor[RankIn(scanned, x)] = scanned[x] /\ scanned'[x] = scanned[x]
        BY <1>2, <1>5, <3>2, <4>1
      <4> QED
        BY <1>3, <2>1, <2>4, <3>2, <4>1, <4>2
    <3> QED
      BY <1>2, <3>1, <3>2
  <2>6. ASSUME NEW j \in Slots, j >= L + 1
        PROVE  neighbor'[j].dist = INFINITE
    <3>1. j > p /\ j - 1 >= L
      BY <1>2, <1>3, <2>2, <2>6
    <3> QED
      BY <1>5, <2>1, <3>1
  <2>7. ASSUME NEW j \in Slots, j < L + 1
        PROVE  \E x \in 1 .. L + 1 : RankIn(scanned', x) = j /\ neighbor'[j] = scanned'[x]
    <3>1. CASE j < p
      <4>1. PICK x \in 1 .. L : RankIn(scanned, x) = j /\ neighbor[j] = scanned[x]
        BY <1>2, <1>3, <1>5, <2>2, <3>1
      <4> QED
        BY <1>2, <2>1, <2>4, <3>1, <4>1
    <3>2. CASE j = p
      <4>1. L + 1 \in 1 .. L + 1
        BY <1>2
      <4> QED
        BY <1>2, <2>1, <2>3, <3>2, <4>1 DEF r
    <3>3. CASE j > p
      <4>1. j - 1 \in Slots /\ j - 1 < L /\ ~(j - 1 < p) /\ (j - 1) + 1 = j
        BY <1>2, <1>3, <2>1, <2>7, <3>3
      <4>2. PICK x \in 1 .. L : RankIn(scanned, x) = j - 1 /\ neighbor[j - 1] = scanned[x]
        BY <1>5, <4>1
      <4> QED
        BY <1>2, <2>1, <2>4, <3>3, <4>1, <4>2
    <3> QED
      BY <1>3, <3>1, <3>2, <3>3
  <2> QED
    BY <1>6, <2>5, <2>6, <2>7
<1> QED
  BY <1>1, <1>3, <1>7, <1>8, ConsiderCases

\* Every slot of the list of knn.c holds exactly the entry that a sort of all the entries
\* looked at would put there, ties in the order of the scan (knn.c:24-30, 146-157):
\* NearestFirst of KnnSelect.
THEOREM ScanSorts == Spec => []NearestFirst
<1>1. Init => NearestFirst /\ Filled
  BY Sizes DEF Init, NearestFirst, Filled, Slots
<1>2. TypeOK /\ InWork /\ (NearestFirst /\ Filled) /\ [Next]_vars => (NearestFirst /\ Filled)'
  <2> SUFFICES ASSUME TypeOK, InWork, NearestFirst, Filled, [Next]_vars
               PROVE  NearestFirst' /\ Filled'
    OBVIOUS
  <2>1. CASE Scan
    BY <2>1, NearestScan
  <2>2. CASE ~Scan
    <3>1. UNCHANGED <<neighbor, scanned>>
      BY <2>2 DEF Next, Read, ScanDone, Vote, vars
    <3>2. \A s : Rank(s)' = Rank(s)
      BY <3>1 DEF Rank
    <3> QED
      BY <3>1, <3>2 DEF NearestFirst, Filled
  <2> QED
    BY <2>1, <2>2
<1> QED
  BY <1>1, <1>2, SelectTypeCorrect, PTL DEF Spec

---------------------------------------------------------------------------
(* The vote *)

\* The label the neighbour at j votes for, and what its vote does to the best so far.
Voted(j) == label[neighbor[j].idx]
NoBest   == [voted |-> 0, votation |-> 0]
Turn(b, n) ==
  IF VotesOf(Voted(n - 1), n) >= b.votation + 1
  THEN [voted |-> Voted(n - 1), votation |-> VotesOf(Voted(n - 1), n)] ELSE b

\* f[n] is the best after n votes.
Counts(f, m) == f = [n \in 0 .. m |-> IF n = 0 THEN NoBest ELSE Turn(f[n - 1], n)]

LEMMA BestIsCounted == BestVoted = (CHOOSE f : Counts(f, K))[K].voted
BY DEF BestVoted, BestVotedBy, Counts, Turn, Voted, NoBest

LEMMA CanCount == \A m \in Nat : \E f : Counts(f, m)
<1> DEFINE Bad == {m \in Nat : ~ \E f : Counts(f, m)}
<1> SUFFICES ASSUME Bad # {} PROVE FALSE
  OBVIOUS
<1>1. PICK m \in Bad : \A n \in Bad : ~(n < m)
  BY FirstNumber, Zenon
<1>2. CASE m = 0
  <2>1. Counts([n \in 0 .. 0 |-> NoBest], 0)
    BY DEF Counts
  <2> QED
    BY <1>2, <2>1
<1>3. CASE m # 0
  <2>1. m \in Nat /\ m - 1 \in Nat /\ m - 1 \notin Bad
    BY <1>1, <1>3
  <2>2. PICK g : Counts(g, m - 1)
    BY <2>1
  <2>3. \A n \in 0 .. m - 1 : g[n] = IF n = 0 THEN NoBest ELSE Turn(g[n - 1], n)
    BY <2>2 DEF Counts
  <2> DEFINE f == [n \in 0 .. m |-> IF n = m THEN Turn(g[m - 1], m) ELSE g[n]]
  <2>4. ASSUME NEW n \in 0 .. m
        PROVE  f[n] = IF n = 0 THEN NoBest ELSE Turn(f[n - 1], n)
    <3>1. CASE n = m
      <4>1. f[m - 1] = g[m - 1] /\ f[m] = Turn(g[m - 1], m)
        BY <2>1
      <4> QED
        BY <1>3, <3>1, <4>1
    <3>2. CASE n # m
      <4>1. n \in 0 .. m - 1 /\ f[n] = g[n] /\ (n # 0 => f[n - 1] = g[n - 1])
        BY <2>1, <3>2
      <4> QED
        BY <2>3, <4>1
    <3> QED
      BY <3>1, <3>2
  <2>5. f = [n \in 0 .. m |-> f[n]]
    OBVIOUS
  <2> HIDE DEF f
  <2>6. [n \in 0 .. m |-> f[n]] = [n \in 0 .. m |-> IF n = 0 THEN NoBest ELSE Turn(f[n - 1], n)]
    BY <2>4
  <2>7. Counts(f, m)
    BY <2>5, <2>6 DEF Counts
  <2> QED
    BY <2>7
<1> QED
  BY <1>2, <1>3

LEMMA VotesBounded ==
  ASSUME NEW l, NEW n \in Nat
  PROVE  /\ IsFiniteSet({j \in 0 .. n - 1 : Voted(j) = l}) /\ VotesOf(l, n) \in Nat
         /\ VotesOf(l, n) = Cardinality({j \in 0 .. n - 1 : Voted(j) = l})
<1>1. IsFiniteSet(0 .. n - 1)
  BY FS_Interval
<1>2. IsFiniteSet({j \in 0 .. n - 1 : Voted(j) = l})
  BY <1>1, FS_Subset
<1> QED
  BY <1>2, FS_CardinalityType DEF VotesOf, Voted

\* One more vote.
LEMMA VotesStep ==
  ASSUME NEW l, NEW n \in Nat
  PROVE  VotesOf(l, n + 1) = IF l = Voted(n) THEN VotesOf(l, n) + 1 ELSE VotesOf(l, n)
<1> DEFINE old == {j \in 0 .. n - 1 : Voted(j) = l}
           new == {j \in 0 .. (n + 1) - 1 : Voted(j) = l}
<1>1. IsFiniteSet(old) /\ VotesOf(l, n) = Cardinality(old)
  BY VotesBounded
<1>2. VotesOf(l, n + 1) = Cardinality(new)
  <2>1. n + 1 \in Nat
    OBVIOUS
  <2> QED
    BY <2>1, VotesBounded, Zenon
<1>3. new = IF l = Voted(n) THEN old \union {n} ELSE old
  OBVIOUS
<1>4. n \notin old
  OBVIOUS
<1> HIDE DEF old, new
<1>5. Cardinality(old \union {n}) = Cardinality(old) + 1
  BY <1>1, <1>4, FS_AddElement
<1> QED
  BY <1>1, <1>2, <1>3, <1>5

LEMMA NoVotes == \A l : VotesOf(l, 0) = 0
<1> TAKE l
<1>1. {j \in 0 .. 0 - 1 : Voted(j) = l} = {}
  OBVIOUS
<1> QED
  BY <1>1, VotesBounded, FS_EmptySet

\* o has as many votes as w, but the last of them after all of w's.
Later(o, w, n) == \E m \in 0 .. n - 1 : Voted(m) = o /\ \A j \in 0 .. n - 1 : Voted(j) = w => j < m

\* The best so far has the most votes, or had as many before.
Leads(b, n) ==
  /\ b.voted \in Labels /\ b.votation = VotesOf(b.voted, n)
  /\ \A o \in Labels \ {b.voted} :
       \/ n = 0
       \/ VotesOf(o, n) < b.votation
       \/ VotesOf(o, n) = b.votation /\ Later(o, b.voted, n)

LEMMA LeadsStep ==
  ASSUME \A j \in Slots : Voted(j) \in Labels,
         NEW n \in 0 .. K - 1, NEW b, Leads(b, n)
  PROVE  Leads(Turn(b, n + 1), n + 1)
<1> DEFINE l == Voted(n)
           v == VotesOf(l, n + 1)
<1>1. n \in Nat /\ n \in Slots /\ (n + 1) - 1 = n /\ n + 1 # 0
  BY Sizes DEF Slots
<1>2. /\ \A o : VotesOf(o, n) \in Nat
      /\ \A o : VotesOf(o, n + 1) = IF o = l THEN VotesOf(o, n) + 1 ELSE VotesOf(o, n)
      /\ n = 0 => \A o : VotesOf(o, n) = 0
  BY <1>1, VotesBounded, VotesStep, NoVotes
<1>3. l \in Labels
  BY <1>1
<1>4. Turn(b, n + 1) = IF v >= b.votation + 1 THEN [voted |-> l, votation |-> v] ELSE b
  BY <1>1 DEF Turn
<1> HIDE DEF l, v
<1>5. v = VotesOf(l, n) + 1 /\ v = VotesOf(l, n + 1) /\ b.votation \in Nat /\ b.votation = VotesOf(b.voted, n)
  BY <1>2 DEF v, Leads
<1>6. \A o \in Labels : VotesOf(o, n) <= b.votation
  BY <1>2, <1>5 DEF Leads
<1>7. CASE v >= b.votation + 1
  <2> DEFINE w == [voted |-> l, votation |-> v]
  <2>1. \A o \in Labels \ {l} : VotesOf(o, n + 1) < v
    BY <1>2, <1>5, <1>6, <1>7
  <2>2. w.voted = l /\ w.votation = v
    OBVIOUS
  <2> HIDE DEF w
  <2>3. Leads(w, n + 1)
    BY <1>3, <1>5, <2>1, <2>2 DEF Leads
  <2> QED
    BY <1>4, <1>7, <2>3 DEF w
<1>8. CASE ~(v >= b.votation + 1)
  <2>1. b.voted # l /\ v <= b.votation
    BY <1>5, <1>8
  <2>2. n # 0
    BY <1>2, <1>5, <2>1
  <2>3. b.votation = VotesOf(b.voted, n + 1)
    BY <1>2, <1>5, <2>1
  <2>4. ASSUME NEW o \in Labels \ {b.voted}
        PROVE  \/ VotesOf(o, n + 1) < b.votation
               \/ VotesOf(o, n + 1) = b.votation /\ Later(o, b.voted, n + 1)
    <3>1. CASE o = l
      <4>1. \A j \in 0 .. n : Voted(j) = b.voted => j < n
        <5>1. \A j \in 0 .. n : j < n \/ j = n
          BY <1>1
        <5> QED
          BY <2>1, <5>1 DEF l
      <4>2. n \in 0 .. n
        BY <1>1
      <4>3. Later(o, b.voted, n + 1)
        BY <1>1, <3>1, <4>1, <4>2 DEF Later, l
      <4> QED
        BY <1>5, <2>1, <3>1, <4>3
    <3>2. CASE o # l
      <4>1. VotesOf(o, n + 1) = VotesOf(o, n)
        BY <1>2, <3>2
      <4>2. Later(o, b.voted, n) => Later(o, b.voted, n + 1)
        <5> SUFFICES ASSUME NEW m \in 0 .. n - 1, Voted(m) = o,
                            \A j \in 0 .. n - 1 : Voted(j) = b.voted => j < m
                     PROVE  Later(o, b.voted, n + 1)
          BY DEF Later
        <5>1. \A j \in 0 .. n : j \in 0 .. n - 1 \/ j = n
          BY <1>1
        <5>2. \A j \in 0 .. n : Voted(j) = b.voted => j < m
          BY <2>1, <5>1 DEF l
        <5>3. m \in 0 .. n
          BY <1>1
        <5> QED
          BY <1>1, <5>2, <5>3 DEF Later
      <4> QED
        BY <2>2, <4>1, <4>2 DEF Leads
    <3> QED
      BY <3>1, <3>2
  <2>5. Leads(b, n + 1)
    BY <2>3, <2>4 DEF Leads
  <2> QED
    BY <1>4, <1>8, <2>5
<1> QED
  BY <1>7, <1>8

LEMMA BestLeads ==
  ASSUME \A j \in Slots : Voted(j) \in Labels
  PROVE  \E votation : Leads([voted |-> BestVoted, votation |-> votation], K)
<1> DEFINE f == CHOOSE g : Counts(g, K)
<1>1. Counts(f, K)
  BY CanCount, Sizes
<1> HIDE DEF f
<1>2. \A n \in 0 .. K : f[n] = IF n = 0 THEN NoBest ELSE Turn(f[n - 1], n)
  BY <1>1 DEF Counts
<1> DEFINE Bad == {n \in 0 .. K : ~Leads(f[n], n)}
<1>3. Bad = {}
  <2> SUFFICES ASSUME Bad # {} PROVE FALSE
    OBVIOUS
  <2>0. Bad \subseteq Nat
    BY Sizes
  <2>1. PICK n \in Bad : \A m \in Bad : ~(m < n)
    BY <2>0, FirstNumber, Zenon
  <2>2. CASE n = 0
    <3>1. f[0] = NoBest
      BY <1>2, Sizes
    <3>2. Leads(NoBest, 0)
      BY NoVotes, Sizes DEF Leads, NoBest, Labels
    <3> QED
      BY <2>1, <2>2, <3>1, <3>2
  <2>3. CASE n # 0
    <3>1. n \in 0 .. K /\ n - 1 \in 0 .. K - 1 /\ n - 1 \in 0 .. K /\ (n - 1) + 1 = n
      BY <2>1, <2>3, Sizes
    <3>2. n - 1 \notin Bad
      BY <2>1, <3>1
    <3>3. Leads(f[n - 1], n - 1)
      BY <3>1, <3>2
    <3>4. Leads(Turn(f[n - 1], (n - 1) + 1), (n - 1) + 1)
      BY <3>1, <3>3, LeadsStep
    <3>5. f[n] = Turn(f[n - 1], n)
      BY <1>2, <2>3, <3>1
    <3> QED
      BY <2>1, <3>1, <3>4, <3>5
  <2> QED
    BY <2>2, <2>3
<1>4. Leads(f[K], K)
  BY <1>3, Sizes
<1>5. BestVoted = f[K].voted
  BY BestIsCounted DEF f
<1>6. Leads([voted |-> f[K].voted, votation |-> f[K].votation], K)
  BY <1>4 DEF Leads
<1> QED
  BY <1>5, <1>6

\* A label with a vote has a last voter.
LEMMA LastVoterIs ==
  ASSUME NEW l, NEW s \in Slots, Voted(s) = l
  PROVE  LastVoter(l) \in Slots /\ Voted(LastVoter(l)) = l /\ s <= LastVoter(l)
<1> DEFINE S == {K - 1 - j : j \in {x \in Slots : Voted(x) = l}}
<1>1. S \subseteq Nat
  BY Sizes DEF Slots
<1>2. K - 1 - s \in S
  OBVIOUS
<1>3. PICK y \in S : \A m \in S : ~(m < y)
  BY <1>1, <1>2, FirstNumber
<1>4. PICK j \in Slots : Voted(j) = l /\ y = K - 1 - j
  BY <1>3
<1>5. ASSUME NEW m \in Slots, Voted(m) = l PROVE m <= j
  <2>1. K - 1 - m \in S
    BY <1>5
  <2>2. ~(K - 1 - m < K - 1 - j)
    BY <1>3, <1>4, <2>1
  <2> QED
    BY <2>2, Sizes DEF Slots
<1>6. /\ LastVoter(l) \in Slots /\ Voted(LastVoter(l)) = l
      /\ \A m \in Slots : Voted(m) = l => m <= LastVoter(l)
  BY <1>4, <1>5 DEF LastVoter, Voted
<1> QED
  BY <1>6

LEMMA VoteIsPlurality ==
  ASSUME TypeOK, NEW w \in Labels, w = BestVoted, NEW o \in Labels \ {w}
  PROVE  \/ VotesOf(o, K) < VotesOf(w, K)
         \/ VotesOf(o, K) = VotesOf(w, K) /\ LastVoter(w) < LastVoter(o)
<1>1. \A j \in Slots : Voted(j) \in Labels
  BY DEF TypeOK, Neighbor, Voted
<1>2. PICK votation : Leads([voted |-> w, votation |-> votation], K)
  BY <1>1, BestLeads
<1>3. /\ votation = VotesOf(w, K)
      /\ VotesOf(o, K) < votation \/ (VotesOf(o, K) = votation /\ Later(o, w, K))
  BY <1>2, Sizes DEF Leads
<1>4. CASE VotesOf(o, K) = votation /\ Later(o, w, K)
  <2>1. PICK m \in Slots : Voted(m) = o /\ \A j \in Slots : Voted(j) = w => j < m
    BY <1>4 DEF Later, Slots
  <2>2. VotesOf(o, K) # 0
    <3>1. {j \in 0 .. K - 1 : Voted(j) = o} # {}
      BY <2>1 DEF Slots
    <3>2. /\ IsFiniteSet({j \in 0 .. K - 1 : Voted(j) = o})
          /\ VotesOf(o, K) = Cardinality({j \in 0 .. K - 1 : Voted(j) = o})
      BY VotesBounded, Sizes
    <3> QED
      BY <3>1, <3>2, FS_EmptySet, Zenon
  <2>3. PICK s \in Slots : Voted(s) = w
    <3>1. {j \in 0 .. K - 1 : Voted(j) = w} # {}
      <4>1. /\ IsFiniteSet({j \in 0 .. K - 1 : Voted(j) = w})
            /\ VotesOf(w, K) = Cardinality({j \in 0 .. K - 1 : Voted(j) = w})
        BY VotesBounded, Sizes
      <4>2. VotesOf(w, K) # 0
        BY <1>3, <1>4, <2>2
      <4> QED
        BY <4>1, <4>2, FS_EmptySet, Zenon
    <3> QED
      BY <3>1 DEF Slots
  <2>4. LastVoter(w) \in Slots /\ LastVoter(w) < m
    BY <2>1, <2>3, LastVoterIs
  <2>5. m <= LastVoter(o) /\ LastVoter(o) \in Slots
    BY <2>1, LastVoterIs
  <2> QED
    BY <1>3, <1>4, <2>4, <2>5, Sizes DEF Slots
<1> QED
  BY <1>3, <1>4

\* The label that gains a test point has the most votes of the neighbours, and a tie goes
\* to the label whose votes came first (knn.c:168-179): Plurality of KnnSelect.
THEOREM VoteIsFair == Spec => Plurality
<1>1. TypeOK /\ InWork /\ [Next]_vars =>
        [\A w \in Labels : votes_acc'[w] # votes_acc[w] =>
           \A o \in Labels \ {w} :
             \/ VotesOf(o, K) < VotesOf(w, K)
             \/ VotesOf(o, K) = VotesOf(w, K) /\ LastVoter(w) < LastVoter(o)]_vars
  <2> SUFFICES ASSUME TypeOK, [Next]_vars, NEW w \in Labels, votes_acc'[w] # votes_acc[w],
                      NEW o \in Labels \ {w}
               PROVE  \/ VotesOf(o, K) < VotesOf(w, K)
                      \/ VotesOf(o, K) = VotesOf(w, K) /\ LastVoter(w) < LastVoter(o)
    OBVIOUS
  <2>1. Vote
    BY DEF Next, Read, Scan, ScanDone, vars
  <2>2. w = BestVoted
    BY <2>1 DEF Vote, TypeOK
  <2> QED
    BY <2>2, VoteIsPlurality
<1> QED
  BY <1>1, SelectTypeCorrect, PTL DEF Spec, Plurality

===========================================================================
