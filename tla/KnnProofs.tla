----------------------------- MODULE KnnProofs -----------------------------
(***************************************************************************)
(* The accelerator and its driver, for every number of data and test       *)
(* points, every width of a coordinate and every bus timing.  From the     *)
(* inside out: the datapath computes the squared distance, the core        *)
(* answers correctly whatever the software does, and the driver over it    *)
(* reads back what it asked for, so that the two keep the promise of       *)
(* KnnService.                                                             *)
(***************************************************************************)
EXTENDS KnnDriver, TLAPS

---------------------------------------------------------------------------
(* The datapath: it computes sq_dist, for every width of a coordinate. *)

LEMMA HalfType == Half \in Nat /\ Half > 0 /\ \E q \in Nat : q > 0 /\ Half = 2 * q
  BY HalfAssumption

\* The remainder of a difference of two bit patterns, without the division.
LEMMA SubtractCases ==
  ASSUME NEW a \in Coord, NEW b \in Coord
  PROVE  /\ Subtract(a, b) = IF a >= b THEN a - b ELSE a - b + Half
         /\ Subtract(a, b) \in Coord
  BY HalfType, SMT DEF Subtract, Coord

LEMMA TwoCompCases ==
  ASSUME NEW s \in Coord, IsNegative(s)
  PROVE  TwoComp(s) = Half - s
  BY HalfType, SMT DEF TwoComp, Coord, IsNegative

\* The sign of a product's factors does not matter: squaring the two's
\* complement squares the signed value.
LEMMA SquareIsSigned ==
  ASSUME NEW s \in Coord
  PROVE  Square(s) = Signed(s) * Signed(s)
<1>1. CASE IsNegative(s)
  <2>1. Square(s) = (Half - s) * (Half - s)
    BY <1>1, TwoCompCases DEF Square
  <2>2. Signed(s) = s - Half
    BY <1>1 DEF Signed
  <2>3. Half \in Int /\ s \in Int
    BY HalfType DEF Coord
  <2>4. (Half - s) * (Half - s) = (s - Half) * (s - Half)
    BY <2>3, SMT
  <2> QED
    BY <2>1, <2>2, <2>4
<1>2. CASE ~IsNegative(s)
  BY <1>2 DEF Square, Signed
<1> QED
  BY <1>1, <1>2

\* Subtracting bit patterns is subtracting shorts and keeping a short.
LEMMA SubtractIsShort ==
  ASSUME NEW a \in Coord, NEW b \in Coord
  PROVE  (Signed(a) - Signed(b)) % Half = Subtract(a, b)
<1>1. /\ Signed(a) - Signed(b) \in {a - b, a - b - Half, a - b + Half}
      /\ a \in Int /\ b \in Int /\ a - b < Half /\ b - a < Half
  BY HalfType DEF Signed, IsNegative, Coord
<1>2. Signed(a) - Signed(b) < Half /\ Signed(b) - Signed(a) < 2 * Half
  BY HalfType DEF Signed, IsNegative, Coord
<1> QED
  BY <1>1, <1>2, HalfType, SMT DEF Subtract

\* The largest distance still fits the 32 bits of the adder: the most negative
\* difference is the worst case, and two of its squares are half of 2^32.
LEMMA SquareBound ==
  ASSUME NEW s \in Coord
  PROVE  Square(s) \in Nat /\ 4 * Square(s) <= Half * Half
<1>1. PICK v \in Nat : Square(s) = v * v /\ 2 * v <= Half
  <2>1. CASE IsNegative(s)
    <3>1. Square(s) = (Half - s) * (Half - s)
      BY <2>1, TwoCompCases DEF Square
    <3>2. Half - s \in Nat /\ 2 * (Half - s) <= Half
      BY <2>1, HalfType DEF IsNegative, Coord
    <3> QED
      BY <3>1, <3>2
  <2>2. CASE ~IsNegative(s)
    <3>1. Square(s) = s * s
      BY <2>2 DEF Square
    <3>2. s \in Nat /\ 2 * s <= Half
      BY <2>2, HalfType DEF IsNegative, Coord
    <3> QED
      BY <3>1, <3>2
  <2> QED
    BY <2>1, <2>2
<1>2. (2 * v) * (2 * v) <= Half * Half
  <2>1. (2 * v) * (2 * v) <= (2 * v) * Half /\ (2 * v) * Half <= Half * Half
    BY <1>1, HalfType, SMT
  <2> QED
    BY <2>1, HalfType, SMT
<1>3. (2 * v) * (2 * v) = 4 * (v * v) /\ v * v \in Nat
  BY SMT
<1> QED
  BY <1>1, <1>2, <1>3

LEMMA SumIsExact ==
  ASSUME NEW r \in Coord, NEW s \in Coord
  PROVE  /\ Sum(Square(r), Square(s)) = Square(r) + Square(s)
         /\ Sum(Square(r), Square(s)) \in Word
<1>1. /\ Square(r) \in Nat /\ 4 * Square(r) <= Half * Half
      /\ Square(s) \in Nat /\ 4 * Square(s) <= Half * Half
  BY SquareBound
<1>2. Half * Half \in Nat /\ Half * Half > 0
  BY HalfType, SMT
<1>3. Square(r) + Square(s) \in Nat /\ Square(r) + Square(s) < Half * Half
  BY <1>1, <1>2
<1>4. \A n \in Nat, m \in Nat : n < m => n % m = n
  BY SMT
<1>5. Sum(Square(r), Square(s)) = Square(r) + Square(s)
  BY <1>2, <1>3, <1>4 DEF Sum
<1> QED
  BY <1>2, <1>3, <1>5 DEF Word

\* For every width of a coordinate and every two points, the pipeline of
\* knn_datapath.v computes sq_dist of knn.c: MatchesSqDist of KnnArith.
THEOREM DatapathIsSqDist == \A t \in Points, d \in Points : MatchesSqDist(t, d)
<1> SUFFICES ASSUME NEW t \in Points, NEW d \in Points
             PROVE  HwDist(t, d) = SqDist(t, d)
  BY DEF MatchesSqDist
<1>1. /\ t[1] \in Coord /\ t[2] \in Coord /\ d[1] \in Coord /\ d[2] \in Coord
  BY DEF Points
<1> DEFINE X == Subtract(t[1], d[1])
           Y == Subtract(t[2], d[2])
<1>2. X \in Coord /\ Y \in Coord
  BY <1>1, SubtractCases
<1>3. HwDist(t, d) = Square(X) + Square(Y)
  BY <1>2, SumIsExact DEF HwDist
<1>4. SqDist(t, d) = Signed(X) * Signed(X) + Signed(Y) * Signed(Y)
  BY <1>1, SubtractIsShort DEF SqDist
<1> QED
  BY <1>2, <1>3, <1>4, SquareIsSigned

\* A difference that fits a short comes out unchanged.
LEMMA ShortDifference ==
  ASSUME NEW a \in Coord, NEW b \in Coord,
         -Half <= 2 * (Signed(a) - Signed(b)), 2 * (Signed(a) - Signed(b)) < Half
  PROVE  Signed(Subtract(a, b)) = Signed(a) - Signed(b)
<1>1. Signed(a) - Signed(b) \in {a - b, a - b - Half, a - b + Half}
  BY HalfType DEF Signed, IsNegative, Coord
<1>2. Subtract(a, b) = IF a >= b THEN a - b ELSE a - b + Half
  BY SubtractCases
<1> QED
  BY <1>1, <1>2, HalfType DEF Signed, IsNegative, Coord

\* For every width of a coordinate, the distance is the Euclidean one, squared, as long
\* as both differences fit a coordinate: ExactInRange of KnnArith.
THEOREM DistanceIsEuclidean == \A t \in Points, d \in Points : ExactInRange(t, d)
<1> SUFFICES ASSUME NEW t \in Points, NEW d \in Points
             PROVE  ExactInRange(t, d)
  OBVIOUS
<1>1. /\ t[1] \in Coord /\ t[2] \in Coord /\ d[1] \in Coord /\ d[2] \in Coord
  BY DEF Points
<1> DEFINE dx == Signed(t[1]) - Signed(d[1])
           dy == Signed(t[2]) - Signed(d[2])
           Fits(n) == -Half <= 2 * n /\ 2 * n < Half
<1>2. SUFFICES ASSUME Fits(dx), Fits(dy)
               PROVE  HwDist(t, d) = dx * dx + dy * dy
  BY DEF ExactInRange
<1>3. Signed(Subtract(t[1], d[1])) = dx /\ Signed(Subtract(t[2], d[2])) = dy
  BY <1>1, <1>2, ShortDifference
<1>4. HwDist(t, d) = Square(Subtract(t[1], d[1])) + Square(Subtract(t[2], d[2]))
  BY <1>1, SubtractCases, SumIsExact DEF HwDist
<1>5. /\ Square(Subtract(t[1], d[1])) = dx * dx
      /\ Square(Subtract(t[2], d[2])) = dy * dy
  BY <1>1, <1>3, SubtractCases, SquareIsSigned
<1> QED
  BY <1>4, <1>5

\* A square is zero only of zero, and a difference of bit patterns only of equals.
LEMMA ZeroSquare ==
  ASSUME NEW a \in Coord, NEW b \in Coord
  PROVE  Square(Subtract(a, b)) = 0 <=> a = b
<1> DEFINE s == Subtract(a, b)
<1>1. s \in Coord /\ (s = 0 <=> a = b)
  <2>1. s \in Coord /\ s = IF a >= b THEN a - b ELSE a - b + Half
    BY SubtractCases
  <2> HIDE DEF s
  <2> QED
    BY <2>1, HalfType, SMT DEF Coord
<1>2. Signed(s) \in Int /\ (Signed(s) = 0 <=> s = 0)
  BY <1>1, HalfType DEF Signed, Coord, IsNegative
<1>3. \A v \in Int : v * v = 0 <=> v = 0
  BY SMT
<1>4. Square(s) = Signed(s) * Signed(s)
  BY <1>1, SquareIsSigned
<1> QED
  BY <1>1, <1>2, <1>3, <1>4

\* For every width of a coordinate, only a data point equal to the test point gets
\* distance 0: OnlySelfIsZero of KnnArith.
THEOREM DistanceSeparates == \A t \in Points, d \in Points : OnlySelfIsZero(t, d)
<1> SUFFICES ASSUME NEW t \in Points, NEW d \in Points
             PROVE  HwDist(t, d) = 0 <=> t = d
  BY DEF OnlySelfIsZero
<1>1. /\ t[1] \in Coord /\ t[2] \in Coord /\ d[1] \in Coord /\ d[2] \in Coord
      /\ t = <<t[1], t[2]>> /\ d = <<d[1], d[2]>>
  BY DEF Points
<1> DEFINE X == Subtract(t[1], d[1])
           Y == Subtract(t[2], d[2])
<1>2. X \in Coord /\ Y \in Coord
  BY <1>1, SubtractCases
<1>3. HwDist(t, d) = Square(X) + Square(Y) /\ Square(X) \in Nat /\ Square(Y) \in Nat
  BY <1>2, SumIsExact, SquareBound DEF HwDist
<1>4. (Square(X) = 0 <=> t[1] = d[1]) /\ (Square(Y) = 0 <=> t[2] = d[2])
  BY <1>1, ZeroSquare
<1>5. t = d <=> t[1] = d[1] /\ t[2] = d[2]
  BY <1>1
<1> HIDE DEF X, Y
<1> QED
  BY <1>3, <1>4, <1>5

---------------------------------------------------------------------------
(* The core: it answers correctly for every number of data points, every   *)
(* width of a coordinate and every software.                               *)

USE DEF Bit, Counter, DataIdx, DistIdx, WrCounter, LastCount, FsmState

LEMMA NumPtsType == NumPts \in Nat /\ NumPts > 0
  BY NumPtsAssumption

LEMMA OriginType == Origin \in Points
  BY HalfType DEF Origin, Points, Coord

---------------------------------------------------------------------------
(* Type correctness *)

\* All the bus does to the core is to give sw another value of its type.
LEMMA NextIsEdge ==
  ASSUME TypeOK, Next
  PROVE  sw' \in SwRegs /\ CoreEdge
<1> USE DEF TypeOK, SwRegs
<1>1. CASE Idle
  BY <1>1 DEF Idle
<1>2. CASE PokeBit
  BY <1>2 DEF PokeBit, WriteBit
<1>3. CASE PokeTestPt
  BY <1>3, InputsAssumption DEF PokeTestPt, WriteTestPt
<1>4. CASE PokeDataPt
  BY <1>4, InputsAssumption DEF PokeDataPt, WriteDataPt
<1>5. CASE PokeAddr
  BY <1>5, ReadAddrsAssumption DEF PokeAddr, WriteAddr
<1> QED
  BY <1>1, <1>2, <1>3, <1>4, <1>5 DEF Next

LEMMA TypeInit ==
  ASSUME Init
  PROVE  TypeOK
<1>1. sw \in SwRegs
  BY OriginType, NumPtsType DEF Init, SwRegs
<1>2. data_points \in [DataIdx -> Points]
  BY OriginType, InputsAssumption DEF Init, CoreInit
<1>3. distances \in [DistIdx -> Word] /\ add_reg \in Word /\ add \in Word
  <2>1. 0 \in Word /\ 1 \in Word
    <3>1. Half * Half > 1
      <4>1. Half >= 2
        BY HalfType
      <4>2. Half * Half >= 2 * Half
        BY <4>1, HalfType, SMT
      <4> QED
        BY <4>1, <4>2, HalfType
    <3>2. Half * Half \in Nat
      BY HalfType, SMT
    <3> QED
      BY <3>1, <3>2 DEF Word
  <2> QED
    BY <2>1 DEF Init, CoreInit
<1>4. mul \in Word \X Word
  BY <1>3 DEF Init, CoreInit, Origin
<1>5. tested \in [DistIdx -> Points]
  BY OriginType DEF Init, CoreInit
<1> QED
  BY <1>1, <1>2, <1>3, <1>4, <1>5, OriginType, NumPtsType DEF Init, CoreInit, TypeOK

LEMMA ArithTypes ==
  /\ \A a \in Coord, b \in Coord : Subtract(a, b) \in Coord
  /\ \A c \in Coord : Square(c) \in Word
  /\ \A m \in Word, n \in Word : Sum(m, n) \in Word
  /\ 0 \in Word
<1>1. Half * Half \in Nat /\ Half * Half > 0
  BY HalfType, SMT
<1>2. \A c \in Coord : Square(c) \in Word
  <2> SUFFICES ASSUME NEW c \in Coord PROVE Square(c) \in Word
    OBVIOUS
  <2>1. Square(c) \in Nat /\ 4 * Square(c) <= Half * Half
    BY SquareBound
  <2> QED
    BY <2>1, <1>1 DEF Word
<1>3. \A m \in Word, n \in Word : Sum(m, n) \in Word
  <2> SUFFICES ASSUME NEW m \in Word, NEW n \in Word PROVE Sum(m, n) \in Word
    OBVIOUS
  <2> DEFINE w == Half * Half
  <2>1. w \in Nat /\ w > 0 /\ m + n \in Nat
    BY <1>1 DEF Word
  <2> HIDE DEF w
  <2>2. (m + n) % w \in 0 .. w - 1
    BY <2>1, SMT
  <2> QED
    BY <2>2 DEF Sum, Word, w
<1> QED
  BY <1>1, <1>2, <1>3, SubtractCases DEF Word

LEMMA TypeEdge ==
  ASSUME TypeOK, sw' \in SwRegs, CoreEdge
  PROVE  TypeOK'
<1> USE NumPtsType, OriginType DEF TypeOK, CoreEdge, Reg
<1>1. data_points' \in [DataIdx -> Points] /\ addr' \in Counter
  BY DEF LoadBlock, SwRegs, Inc
<1>2. state' \in FsmState
  BY DEF FsmSeq, NextState, NextStateAfter
<1>3. /\ KNN_TEST_PT_O' \in Points /\ KNN_DATA_PT_O' \in Points
      /\ KNN_START_O' \in Bit /\ count' \in Counter
  BY DEF IssueBlock, Issuing, SwRegs, Inc
<1>4. KNN_VALID_O' \in Bit
  BY DEF ValidBlock
<1>5. sub' \in Points /\ mul' \in Word \X Word /\ add' \in Word
  <2>1. sub' \in Points
    BY ArithTypes DEF ArithBlock, ArithElse, Points
  <2>2. mul' \in Word \X Word
    BY ArithTypes DEF ArithBlock, ArithElse, Points, Origin
  <2>3. add' \in Word
    BY ArithTypes DEF ArithBlock, ArithElse
  <2> QED
    BY <2>1, <2>2, <2>3
<1>6. distances' \in [DistIdx -> Word] /\ addr_wr' \in WrCounter
  BY ArithTypes DEF StoreBlock, StoreThenGoTo
<1>7. add_reg' \in Word
  BY ArithTypes DEF SampleBlock, SwRegs
<1>8. tested' \in [DistIdx -> Points]
  BY DEF History, SwRegs
<1> QED
  BY <1>1, <1>2, <1>3, <1>4, <1>5, <1>6, <1>7, <1>8

LEMMA TypeStutter == TypeOK /\ UNCHANGED vars => TypeOK'
  BY DEF TypeOK, vars, coreVars, fsmVars, pipeVars

\* Every register of iob_knn.v keeps to its width, whatever software writes.
THEOREM TypeCorrect == Spec => []TypeOK
<1>1. TypeOK /\ [Next]_vars => TypeOK'
  BY NextIsEdge, TypeEdge, TypeStutter
<1> QED
  BY <1>1, TypeInit, PTL DEF Spec

---------------------------------------------------------------------------
(* The pipeline *)

LEMMA PipelineInit == Init => PipelineInv
  BY DEF Init, CoreInit, PipelineInv, Running

\* A reset edge empties the pipeline.
LEMMA PipelineReset ==
  ASSUME CoreEdge, Resetting
  PROVE  PipelineInv'
  BY DEF CoreEdge, IssueBlock, FsmSeq, Reg, PipelineInv, Running

\* What a run has stored depends on the dataset and the test points already issued.
LEMMA ExpectedKept ==
  ASSUME TypeOK, UNCHANGED data_points, NEW n \in Counter,
         \A e \in DistIdx : e < n => tested'[e] = tested[e]
  PROVE  \A e \in Counter : e < n + Delay => ExpectedAt(e)' = ExpectedAt(e)
<1> SUFFICES ASSUME NEW e \in Counter, e < n + Delay
             PROVE  ExpectedAt(e)' = ExpectedAt(e)
  OBVIOUS
<1>1. CASE e < Delay
  BY <1>1 DEF ExpectedAt
<1>2. CASE ~(e < Delay)
  <2>1. e - Delay \in DistIdx /\ e - Delay < n
    BY <1>2, NumPtsType DEF Delay
  <2>2. tested'[e - Delay] = tested[e - Delay]
    BY <2>1
  <2> QED
    BY <1>2, <2>2 DEF ExpectedAt
<1> QED
  BY <1>1, <1>2

\* While a run issues its points, each edge moves every stage one point on.
LEMMA RunningEdge ==
  ASSUME TypeOK, PipelineInv, CoreEdge, ~Resetting, Running, sw.KNN_RESET = 0
  PROVE  /\ data_points' = data_points
         /\ \A e \in DistIdx : e <= addr_wr => tested'[e] = tested[e]
         /\ addr_wr' = addr_wr + 1 /\ addr_wr \in DistIdx
         /\ sub' = Diff(addr_wr)
         /\ mul' = IF addr_wr < 1 THEN Origin
                    ELSE <<Square(Diff(addr_wr - 1)[1]), Square(Diff(addr_wr - 1)[2])>>
         /\ add' = ExpectedAt(addr_wr + 1)
         /\ \A e \in DistIdx : e <= addr_wr => distances'[e] = ExpectedAt(e)'
<1> USE NumPtsType
<1>1. state = "COMPUTE" /\ count = addr_wr + 1 /\ InFlight
  BY DEF PipelineInv
<1>2. addr_wr \in DistIdx
  BY <1>1 DEF TypeOK
<1>3. data_points' = data_points
  BY <1>1 DEF CoreEdge, LoadBlock, Loading, TypeOK
<1>4. \A e \in DistIdx : e <= addr_wr => tested'[e] = tested[e]
  BY <1>1, <1>2 DEF CoreEdge, History, TypeOK
<1>5. addr_wr' = addr_wr + 1
  BY <1>2 DEF CoreEdge, StoreBlock, StoreThenGoTo, Reg
<1>6. sub' = Diff(addr_wr)
  BY <1>1 DEF CoreEdge, ArithBlock, ArithElse, Reg, InFlight, Diff
<1>7. mul' = IF addr_wr < 1 THEN Origin
             ELSE <<Square(Diff(addr_wr - 1)[1]), Square(Diff(addr_wr - 1)[2])>>
  <2>1. mul' = <<Square(sub[1]), Square(sub[2])>>
    BY DEF CoreEdge, ArithBlock, ArithElse, Reg
  <2>2. <<Square(Origin[1]), Square(Origin[2])>> = Origin
    BY HalfType DEF Origin, Square, IsNegative
  <2>3. sub = IF addr_wr < 1 THEN Origin ELSE Diff(addr_wr - 1)
    BY <1>1 DEF InFlight
  <2> QED
    BY <2>1, <2>2, <2>3
<1>8. add' = ExpectedAt(addr_wr + 1)
  <2>1. add' = Sum(mul[1], mul[2])
    BY DEF CoreEdge, ArithBlock, ArithElse, Reg
  <2>2. CASE addr_wr < 2
    <3>1. mul = Origin
      BY <1>1, <2>2 DEF InFlight
    <3>2. Sum(Origin[1], Origin[2]) = 0
      <4>1. \A w \in Nat : w > 0 => 0 % w = 0
        BY SMT
      <4>2. Half * Half \in Nat /\ Half * Half > 0
        BY HalfType, SMT
      <4> QED
        BY <4>1, <4>2 DEF Sum, Origin
    <3> QED
      BY <1>2, <2>1, <2>2, <3>1, <3>2 DEF ExpectedAt, Delay
  <2>3. CASE ~(addr_wr < 2)
    <3> DEFINE p == addr_wr - 2
    <3>1. p \in DistIdx /\ p \in DataIdx
      BY <1>2, <2>3
    <3>2. tested[p] \in Points /\ data_points[p] \in Points
      BY <3>1 DEF TypeOK
    <3>3. add' = HwDist(tested[p], data_points[p])
      BY <1>1, <2>1, <2>3 DEF InFlight, HwDist, Diff
    <3>4. HwDist(tested[p], data_points[p]) = SqDist(tested[p], data_points[p])
      BY <3>2, DatapathIsSqDist DEF MatchesSqDist
    <3>5. ExpectedAt(addr_wr + 1) = SqDist(tested[p], data_points[p])
      BY <1>2, <2>3 DEF ExpectedAt, Delay
    <3> QED
      BY <3>3, <3>4, <3>5
  <2> QED
    BY <2>2, <2>3
<1>9. \A e \in DistIdx : e <= addr_wr => distances'[e] = ExpectedAt(e)'
  <2> SUFFICES ASSUME NEW e \in DistIdx, e <= addr_wr
               PROVE  distances'[e] = ExpectedAt(e)'
    OBVIOUS
  <2>1. ExpectedAt(e)' = ExpectedAt(e)
    <3>1. addr_wr + 1 \in Counter /\ \A m \in DistIdx : m < addr_wr + 1 => m <= addr_wr
      BY <1>2
    <3>2. \A m \in Counter : m < addr_wr + 1 + Delay => ExpectedAt(m)' = ExpectedAt(m)
      BY <1>3, <1>4, <3>1, ExpectedKept
    <3> QED
      BY <1>2, <3>2 DEF Delay
  <2>2. distances' = [distances EXCEPT ![addr_wr] = add]
    BY <1>2 DEF CoreEdge, StoreBlock, StoreThenGoTo, TypeOK
  <2>3. CASE e = addr_wr
    BY <1>1, <2>1, <2>2, <2>3 DEF InFlight, TypeOK
  <2>4. CASE e < addr_wr
    <3>1. distances[e] = ExpectedAt(e)
      BY <1>1, <2>4 DEF InFlight, Stored
    <3>2. distances'[e] = distances[e]
      BY <2>2, <2>4, <1>2 DEF TypeOK
    <3> QED
      BY <2>1, <3>1, <3>2
  <2> QED
    BY <2>3, <2>4, <1>2
<1> QED
  BY <1>2, <1>3, <1>4, <1>5, <1>6, <1>7, <1>8, <1>9

LEMMA PipelineEdge ==
  ASSUME TypeOK, PipelineInv, sw' \in SwRegs, CoreEdge
  PROVE  PipelineInv'
<1> USE NumPtsType
<1>1. CASE Resetting
  BY <1>1, PipelineReset
<1>2. CASE ~Resetting /\ Running
  <2> USE <1>2
  <2>1. sw.KNN_RESET = 0 /\ state = "COMPUTE" /\ count = addr_wr + 1
    BY DEF Resetting, TypeOK, SwRegs, PipelineInv
  <2>2. CASE Issuing
    <3>1. /\ KNN_START_O' = 1 /\ state' = "COMPUTE" /\ count' = count + 1
          /\ count \in DistIdx
      <4>1. count \in DistIdx
        BY <2>2 DEF Issuing, TypeOK
      <4>2. KNN_START_O' = 1 /\ count' = Inc(count)
        BY <2>2 DEF CoreEdge, IssueBlock, Reg
      <4>3. Inc(count) = count + 1
        BY <4>1 DEF Inc
      <4>4. state' = NextState
        BY DEF CoreEdge, FsmSeq, Reg
      <4>5. NextState = "COMPUTE"
        BY <2>1, <4>1 DEF NextState, NextStateAfter
      <4> QED
        BY <4>1, <4>2, <4>3, <4>4, <4>5
    <3>2. KNN_TEST_PT_O' = tested'[count] /\ KNN_DATA_PT_O' = data_points[count]
      BY <2>2, <3>1 DEF CoreEdge, IssueBlock, History, Reg, TypeOK
    <3>3. PICK a \in DistIdx : a = addr_wr
      BY <2>1, RunningEdge
    <3>4. /\ addr_wr' = a + 1 /\ count = a + 1 /\ a + 1 \in DistIdx
          /\ data_points' = data_points
          /\ \A p \in DistIdx : p <= a => tested'[p] = tested[p]
      BY <2>1, <3>1, <3>3, RunningEdge
    <3>5. \A p \in DistIdx : p <= a => Diff(p)' = Diff(p)
      BY <3>4 DEF Diff
    <3>6. ExpectedAt(a + 1)' = ExpectedAt(a + 1)
      <4>1. a + 1 \in Counter /\ \A m \in DistIdx : m < a + 1 => tested'[m] = tested[m]
        BY <3>4
      <4>2. \A m \in Counter : m < a + 1 + Delay => ExpectedAt(m)' = ExpectedAt(m)
        BY <3>4, <4>1, ExpectedKept
      <4>3. a + 1 < a + 1 + Delay
        BY <4>1 DEF Delay
      <4> QED
        BY <4>1, <4>2, <4>3
    <3>7. InFlight'
      <4>1. KNN_TEST_PT_O' = tested'[addr_wr'] /\ KNN_DATA_PT_O' = data_points'[addr_wr']
        BY <3>2, <3>4
      <4>2. sub' = IF addr_wr' < 1 THEN Origin ELSE Diff(addr_wr - 1)'
        <5>1. sub' = Diff(a)'
          BY <2>1, <3>3, <3>5, RunningEdge
        <5> QED
          BY <3>4, <5>1 DEF Diff
      <4>3. mul' = IF addr_wr' < 2 THEN Origin
                   ELSE <<Square(Diff(addr_wr - 2)[1]), Square(Diff(addr_wr - 2)[2])>>'
        <5>1. mul' = IF a < 1 THEN Origin
                     ELSE <<Square(Diff(a - 1)[1]), Square(Diff(a - 1)[2])>>
          BY <2>1, <3>3, RunningEdge
        <5>2. ~(a < 1) => Diff(a - 1)' = Diff(a - 1)
          BY <3>5
        <5>3. addr_wr' - 2 = a - 1 /\ (addr_wr' < 2 <=> a < 1)
          BY <3>4
        <5> QED
          BY <5>1, <5>2, <5>3 DEF Diff, Square, TwoComp, IsNegative
      <4>4. add' = ExpectedAt(addr_wr)'
        <5>1. add' = ExpectedAt(a + 1)'
          BY <2>1, <3>3, <3>6, RunningEdge
        <5> QED
          BY <3>4, <5>1 DEF ExpectedAt
      <4>5. Stored(addr_wr)'
        BY <2>1, <3>3, <3>4, RunningEdge DEF Stored
      <4> QED
        BY <4>1, <4>2, <4>3, <4>4, <4>5 DEF InFlight
    <3> QED
      BY <2>1, <3>1, <3>7, RunningEdge DEF PipelineInv, Running
  <2>3. CASE ~Issuing
    <3>1. count = NumPts /\ addr_wr = NumPts - 1
      BY <2>1, <2>3 DEF Issuing, TypeOK
    <3>2. KNN_START_O' = 0 /\ count' = 0
      BY <2>3 DEF CoreEdge, IssueBlock, Reg
    <3>3. Stored(NumPts)'
      BY <2>1, <3>1, RunningEdge DEF Stored
    <3> QED
      BY <3>2, <3>3 DEF PipelineInv, Running
  <2> QED
    BY <2>2, <2>3
<1>3. CASE ~Resetting /\ ~Running
  <2> USE <1>3
  <2>1. sw.KNN_RESET = 0 /\ count = 0
    BY DEF Resetting, TypeOK, SwRegs, PipelineInv
  <2>2. CASE Issuing
    <3>1. /\ KNN_START_O' = 1 /\ state = "COMPUTE" /\ state' = "COMPUTE" /\ count' = 1
      BY <2>1, <2>2 DEF CoreEdge, IssueBlock, FsmSeq, NextState, NextStateAfter,
                        Reg, Issuing, Inc
    <3>2. addr_wr' = 0 /\ sub' = Origin /\ mul' = Origin /\ add' = 0
      BY DEF CoreEdge, ArithBlock, ArithElse, StoreBlock, StoreThenGoTo, Reg
    <3>3. data_points' = data_points
      BY <3>1 DEF CoreEdge, LoadBlock, Loading, TypeOK
    <3>4. KNN_TEST_PT_O' = tested'[0] /\ KNN_DATA_PT_O' = data_points'[0]
      BY <2>1, <2>2, <3>3 DEF CoreEdge, IssueBlock, History, Reg, TypeOK
    <3>5. InFlight'
      BY <3>2, <3>4 DEF InFlight, Stored, ExpectedAt, Delay
    <3> QED
      BY <3>1, <3>2, <3>5 DEF PipelineInv, Running
  <2>3. CASE ~Issuing
    <3>1. KNN_START_O' = 0 /\ count' = 0
      BY <2>3 DEF CoreEdge, IssueBlock, Reg
    <3>2. state # "COMPUTE"
      BY <2>1, <2>3 DEF Issuing
    <3>3. state' = "OUTPUT" => state = "OUTPUT"
      BY <3>2 DEF CoreEdge, FsmSeq, NextState, NextStateAfter, Reg, TypeOK
    <3>4. state = "OUTPUT" => data_points' = data_points
      BY DEF CoreEdge, LoadBlock, Loading, TypeOK
    <3>5. distances' = distances /\ tested' = tested
      BY <2>3 DEF CoreEdge, StoreBlock, StoreThenGoTo, History, TypeOK
    <3>6. state' = "OUTPUT" => Stored(NumPts)'
      BY <3>3, <3>4, <3>5 DEF PipelineInv, Stored, ExpectedAt
    <3> QED
      BY <3>1, <3>6 DEF PipelineInv, Running
  <2> QED
    BY <2>2, <2>3
<1> QED
  BY <1>1, <1>2, <1>3

LEMMA PipelineStutter == PipelineInv /\ UNCHANGED vars => PipelineInv'
  BY DEF PipelineInv, Running, InFlight, Stored, ExpectedAt, Diff,
         vars, coreVars, fsmVars, pipeVars

\* The counters, the stages and the stored distances stay tied together.
THEOREM PipelineCorrect == Spec => []PipelineInv
<1>1. TypeOK /\ PipelineInv /\ [Next]_vars => PipelineInv'
  BY NextIsEdge, PipelineEdge, PipelineStutter
<1> QED
  BY <1>1, PipelineInit, TypeCorrect, PTL DEF Spec

\* Every run that ends leaves sq_dist of the right two points in every entry that
\* has a point, whatever software did meanwhile: ResultsCorrect of KnnCore.
THEOREM ResultsAreCorrect == Spec => []ResultsCorrect
<1>1. PipelineInv => ResultsCorrect
  BY NumPtsType DEF PipelineInv, ResultsCorrect, Stored
<1> QED
  BY <1>1, PipelineCorrect, PTL

\* The datapath never stores beyond the end of distances: NoOverrun of KnnCore.
THEOREM NeverOverruns == Spec => []NoOverrun
<1>1. TypeOK /\ PipelineInv => NoOverrun
  BY NumPtsType DEF TypeOK, PipelineInv, NoOverrun
<1> QED
  BY <1>1, TypeCorrect, PipelineCorrect, PTL

\* No store changes distances while VALID_OUT is up: StableWhileValid of KnnCore.
\* VALID_OUT trails the OUTPUT state by one edge, so it is never up in COMPUTE.
THEOREM DistancesStable == Spec => StableWhileValid
<1> DEFINE Settled == KNN_VALID_O = 1 => state # "COMPUTE"
<1>1. Init => Settled
  BY DEF Init, CoreInit
<1>2. TypeOK /\ Settled /\ [Next]_vars => Settled'
  <2> SUFFICES ASSUME TypeOK, Settled, [Next]_vars
               PROVE  Settled'
    OBVIOUS
  <2>1. CASE Next
    <3>1. CoreEdge
      BY <2>1, NextIsEdge
    <3>2. KNN_VALID_O' = 1 => state = "OUTPUT"
      BY <3>1 DEF CoreEdge, ValidBlock, Reg
    <3>3. state = "OUTPUT" => state' # "COMPUTE"
      BY <3>1 DEF CoreEdge, FsmSeq, NextState, NextStateAfter, Reg
    <3> QED
      BY <3>2, <3>3
  <2>2. CASE UNCHANGED vars
    BY <2>2 DEF vars, coreVars, fsmVars
  <2> QED
    BY <2>1, <2>2
<1>3. TypeOK /\ PipelineInv /\ Settled /\ [Next]_vars
        => [KNN_VALID_O = 1 /\ ~Resetting => UNCHANGED distances]_vars
  <2> SUFFICES ASSUME TypeOK, PipelineInv, Settled, Next, KNN_VALID_O = 1, ~Resetting
               PROVE  distances' = distances
    OBVIOUS
  <2>1. ~Running
    BY DEF PipelineInv
  <2>2. CoreEdge
    BY NextIsEdge
  <2> QED
    BY <2>1, <2>2 DEF CoreEdge, StoreBlock, StoreThenGoTo, TypeOK
<1> QED
  BY <1>1, <1>2, <1>3, TypeCorrect, PipelineCorrect, PTL DEF Spec, StableWhileValid

---------------------------------------------------------------------------
(* The driver over the core. *)

---------------------------------------------------------------------------
(* The inductive invariant: what the accesses made so far say of the core. *)

Preparing == {"reset", "unreset", "validin_init", "validin_set", "data", "validin_reset"}
Awaiting  == {"poll", "sample"}
Reading   == {"addr", "resample", "read"}
Leaving   == {"reset_data", "stop"}
Pcs       == Preparing \cup {"test_pt", "start"} \cup Awaiting \cup Reading \cup Leaving
               \cup {"classify", "done"}

DriverTypes ==
  /\ pc \in Pcs
  /\ data \in [0 .. N - 1 -> DataInputs] /\ x \in [0 .. NumTests - 1 -> TestInputs]
  /\ k \in Nat /\ (pc # "done" => k < NumTests)
  /\ i \in 0 .. N /\ (pc \in Reading \/ pc \in Preparing \ {"validin_reset"} => i < N)
  /\ DOMAIN distance = DistIdx

\* The registers are what the last access to each has left there.
Written ==
  /\ sw.KNN_RESET = 1 <=> pc = "unreset"
  /\ sw.KNN_VALID_IN = 1 <=> pc \in {"data", "validin_reset"}
  /\ sw.KNN_START = 1 <=> pc \in Awaiting \cup Reading \cup Leaving
  /\ sw.KNN_SAMPLE = 1 <=> pc \in Reading \cup {"reset_data"}
  /\ pc \in {"resample", "read"} => sw.KNN_ADDR = i
  /\ pc \in {"start", "classify"} \cup Awaiting \cup Reading \cup Leaving
       => sw.KNN_TEST_PT = Pack(x[k])

\* Where the FSM can be: VALID_OUT found up is of this run, and the run stays at its
\* end until START is taken down.
Following ==
  /\ pc \in Preparing \cup {"test_pt", "start", "done"} => state = "INIT"
  /\ pc = "start" => KNN_VALID_O = 0
  /\ pc = "poll" /\ KNN_VALID_O = 1 => state = "OUTPUT"
  /\ pc \in {"sample"} \cup Reading \cup Leaving => state = "OUTPUT"
  /\ pc = "classify" => state # "COMPUTE"

\* Every point was issued with the test point that is in the register.
Fresh ==
  /\ state = "COMPUTE" => \A n \in DistIdx : n < count => tested[n] = sw.KNN_TEST_PT
  /\ state = "OUTPUT" => \A n \in DistIdx : tested[n] = sw.KNN_TEST_PT

\* What the driver wants to read, and what it has read so far.
Wanted(n) == IF n < Delay THEN 0 ELSE SqDist(Pack(x[k]), data_points[n - Delay])

ReadBack ==
  /\ pc \in Reading => \A n \in DistIdx : n < i => distance[n] = Wanted(n)
  /\ pc \in Leaving \cup {"classify"} => \A n \in DistIdx : distance[n] = Wanted(n)
  /\ pc = "read" => add_reg = distances[i]

DriverInv ==
  /\ TypeOK /\ PipelineInv
  /\ DriverTypes /\ Written /\ Following /\ Fresh /\ ReadBack

---------------------------------------------------------------------------
(* One step of the driver *)

LEMMA PackType == ASSUME NEW p \in Points PROVE Pack(p) \in Points
BY HalfType DEF Points, Coord, Pack, IsNegative

\* Every access writes at most one register, with a value of its type.
AnyWrite ==
  \/ sw' = sw \/ \E b \in Bit : WriteBit(b)
  \/ \E p \in Points : WriteTestPt(p) \/ WriteDataPt(p)
  \/ \E a \in DistIdx : WriteAddr(a)

LEMMA AnyWriteType == ASSUME TypeOK, AnyWrite PROVE sw' \in SwRegs
BY DEF TypeOK, SwRegs, AnyWrite, WriteBit, WriteTestPt, WriteDataPt, WriteAddr

LEMMA DriverEdge ==
  ASSUME DriverInv, DriverNext
  PROVE  CoreEdge /\ sw' \in SwRegs
<1>1. TypeOK /\ DriverTypes
  BY DEF DriverInv
<1> SUFFICES CoreEdge /\ AnyWrite
  BY <1>1, AnyWriteType
<1>2. CASE Tick \/ Classify \/ Poll \/ ReadData
  BY <1>2 DEF Tick, Classify, Idle, Poll, ReadData, Write, AnyWrite
<1>3. CASE WriteData
  <2>1. Pack(data[i]) \in Points
    BY <1>1, <1>3, NumPtsType, PackType, InputsAssumption DEF WriteData, Access, Preparing, N, DriverTypes
  <2> QED
    BY <1>3, <2>1, Zenon DEF WriteData, AnyWrite
<1>4. CASE WriteTest
  <2>1. Pack(x[k]) \in Points
    BY <1>1, <1>4, PackType, InputsAssumption, NumTestsAssumption
    DEF WriteTest, Write, Access, DriverTypes
  <2> QED
    BY <1>4, <2>1, Zenon DEF WriteTest, Write, AnyWrite
<1>5. CASE AddressWr
  <2>1. i \in DistIdx
    BY <1>1, <1>5, NumPtsType DEF AddressWr, Write, Access, Reading, N, DriverTypes
  <2> QED
    BY <1>5, <2>1, Zenon DEF AddressWr, Write, AnyWrite
<1>6. CASE Reset \/ Unreset \/ ValidInInit \/ ValidInSet \/ ValidInReset
  BY <1>6 DEF Reset, Unreset, ValidInInit, ValidInSet, ValidInReset, Write, WriteBit, AnyWrite
<1>7. CASE Start \/ SampleData \/ Resample \/ ResetData \/ Stop
  BY <1>7 DEF Start, SampleData, Resample, ResetData, Stop, Write, WriteBit, AnyWrite
<1> QED
  BY <1>2, <1>3, <1>4, <1>5, <1>6, <1>7 DEF DriverNext, Cpu

\* What an edge without a reset does to the core.
LEMMA CoreStep ==
  ASSUME TypeOK, PipelineInv, CoreEdge, ~Resetting
  PROVE  /\ state' = NextState
         /\ KNN_VALID_O' = IF state = "OUTPUT" THEN 1 ELSE 0
         /\ sw.KNN_VALID_IN = 0 => data_points' = data_points
         /\ state # "COMPUTE" => distances' = distances /\ tested' = tested
         /\ sw.KNN_SAMPLE = 1 => add_reg' = distances[sw.KNN_ADDR]
<1>1. state' = NextState /\ KNN_VALID_O' = IF state = "OUTPUT" THEN 1 ELSE 0
  BY DEF CoreEdge, FsmSeq, ValidBlock, Reg
<1>2. sw.KNN_VALID_IN = 0 => data_points' = data_points
  BY DEF CoreEdge, LoadBlock, Loading, TypeOK
<1>3. state # "COMPUTE" => distances' = distances /\ tested' = tested
  BY DEF CoreEdge, StoreBlock, StoreThenGoTo, History, Issuing, PipelineInv, TypeOK
<1>4. sw.KNN_SAMPLE = 1 => add_reg' = distances[sw.KNN_ADDR]
  BY DEF CoreEdge, SampleBlock, Reg
<1> QED
  BY <1>1, <1>2, <1>3, <1>4

LEMMA DriverTypesKept == ASSUME DriverInv, DriverNext PROVE DriverTypes'
<1> USE NumPtsType, NumTestsAssumption DEF DriverInv, DriverTypes, Pcs, Preparing, Awaiting, Reading, Leaving, N
<1>1. CASE Tick \/ Classify
  BY <1>1 DEF Tick, Classify
<1>2. CASE WriteData \/ ReadData \/ SampleData
  BY <1>2 DEF WriteData, ReadData, SampleData, Access
<1>3. CASE Reset \/ Unreset \/ ValidInInit \/ ValidInSet \/ ValidInReset \/ WriteTest
  BY <1>3 DEF Reset, Unreset, ValidInInit, ValidInSet, ValidInReset, WriteTest, Write, Access, loopVars
<1>4. CASE Start \/ Poll \/ AddressWr \/ Resample \/ ResetData \/ Stop
  BY <1>4 DEF Start, Poll, AddressWr, Resample, ResetData, Stop, Write, Access, loopVars
<1> QED
  BY <1>1, <1>2, <1>3, <1>4 DEF DriverNext, Cpu

LEMMA WrittenKept == ASSUME DriverInv, DriverNext PROVE Written'
<1> USE DEF Written, Preparing, Awaiting, Reading, Leaving
<1>1. Written /\ sw \in SwRegs
  BY DEF DriverInv, TypeOK
<1>2. CASE Tick \/ Classify
  BY <1>1, <1>2 DEF Tick, Classify, Idle
<1>3. CASE WriteData
  BY <1>1, <1>3 DEF WriteData, WriteDataPt, Access, SwRegs
<1>4. CASE ReadData
  BY <1>1, <1>4 DEF ReadData, Access
<1>5. CASE SampleData
  BY <1>1, <1>5 DEF SampleData, Access, SwRegs
<1>6. CASE Reset
  BY <1>1, <1>6 DEF Reset, Write, Access, loopVars, SwRegs
<1>7. CASE Unreset
  BY <1>1, <1>7 DEF Unreset, Write, Access, loopVars, SwRegs
<1>8. CASE ValidInInit
  BY <1>1, <1>8 DEF ValidInInit, Write, Access, loopVars, SwRegs
<1>9. CASE ValidInSet
  BY <1>1, <1>9 DEF ValidInSet, Write, Access, loopVars, SwRegs
<1>10. CASE ValidInReset
  BY <1>1, <1>10 DEF ValidInReset, Write, Access, loopVars, SwRegs
<1>11. CASE WriteTest
  BY <1>1, <1>11 DEF WriteTest, WriteTestPt, Write, Access, loopVars, SwRegs
<1>12. CASE Start
  BY <1>1, <1>12 DEF Start, Write, Access, loopVars, SwRegs
<1>13. CASE Poll
  BY <1>1, <1>13 DEF Poll, Write, Access, loopVars, SwRegs
<1>14. CASE AddressWr
  BY <1>1, <1>14 DEF AddressWr, WriteAddr, Write, Access, loopVars, SwRegs
<1>15. CASE Resample
  BY <1>1, <1>15 DEF Resample, Write, Access, loopVars, SwRegs
<1>16. CASE ResetData
  BY <1>1, <1>16 DEF ResetData, Write, Access, loopVars, SwRegs
<1>17. CASE Stop
  BY <1>1, <1>17 DEF Stop, Write, Access, loopVars, SwRegs
<1> QED
  BY <1>2, <1>3, <1>4, <1>5, <1>6, <1>7, <1>8, <1>9, <1>10, <1>11, <1>12, <1>13, <1>14, <1>15, <1>16, <1>17
  DEF DriverNext, Cpu

\* The core is reset by knn_init only.
LEMMA NoReset ==
  ASSUME DriverInv, DriverNext, pc \notin {"reset", "unreset"}
  PROVE  ~Resetting
<1>1. pc' # "unreset"
  BY DEF DriverNext, Cpu, Tick, Reset, Unreset, ValidInInit, ValidInSet, WriteData, ValidInReset,
    WriteTest, Start, Poll, SampleData, AddressWr, Resample, ReadData, ResetData, Stop, Classify,
    Write, Access
<1> QED
  BY <1>1, WrittenKept DEF DriverInv, Written, Resetting

LEMMA FollowingKept == ASSUME DriverInv, DriverNext PROVE Following'
<1> USE DEF Preparing, Awaiting, Reading, Leaving
<1>1. Following /\ Written /\ sw \in SwRegs /\ state \in FsmState /\ CoreEdge
  BY DriverEdge DEF DriverInv, TypeOK
<1>2. CASE pc \in {"reset", "unreset"}
  <2>1. state' = "INIT"
    BY <1>1, <1>2 DEF CoreEdge, FsmSeq, Reg, NextState, NextStateAfter, Following, Written, SwRegs
  <2>2. pc' \in Preparing
    BY <1>2 DEF DriverNext, Cpu, Tick, Reset, Unreset, ValidInInit, ValidInSet, WriteData,
      ValidInReset, WriteTest, Start, Poll, SampleData, AddressWr, Resample, ReadData, ResetData,
      Stop, Classify, Write, Access
  <2> QED
    BY <2>1, <2>2 DEF Following
<1>3. CASE pc \notin {"reset", "unreset"}
  <2>1. state' = NextState /\ KNN_VALID_O' = IF state = "OUTPUT" THEN 1 ELSE 0
    BY <1>1, <1>3, NoReset, CoreStep DEF DriverInv
  <2>2. /\ sw.KNN_START = 0 /\ state # "COMPUTE" => state' = "INIT"
        /\ sw.KNN_START = 1 /\ state = "OUTPUT" => state' = "OUTPUT"
    BY <1>1, <2>1 DEF NextState, NextStateAfter
  <2>3. pc \notin Awaiting \cup Reading \cup Leaving => sw.KNN_START = 0
    BY <1>1 DEF Written, SwRegs
  <2>4. pc \in Awaiting \cup Reading \cup Leaving => sw.KNN_START = 1
    BY <1>1 DEF Written
  <2> USE <1>1, <1>3, <2>1, <2>2, <2>3, <2>4 DEF Following
  <2>5. CASE Tick \/ Classify
    BY <2>5 DEF Tick, Classify
  <2>6. CASE WriteData \/ SampleData \/ ReadData
    BY <2>6 DEF WriteData, SampleData, ReadData, Access
  <2>7. CASE ValidInInit \/ ValidInSet \/ ValidInReset \/ WriteTest \/ Start
    BY <2>7 DEF ValidInInit, ValidInSet, ValidInReset, WriteTest, Start, Write, Access
  <2>8. CASE Poll \/ AddressWr \/ Resample \/ ResetData \/ Stop
    BY <2>8 DEF Poll, AddressWr, Resample, ResetData, Stop, Write, Access
  <2> QED
    BY <2>5, <2>6, <2>7, <2>8 DEF DriverNext, Cpu, Reset, Unreset, Write, Access
<1> QED
  BY <1>2, <1>3

\* During a run, and while its results are read, software writes neither the test
\* point nor the dataset.
LEMMA RunUndisturbed ==
  ASSUME DriverInv, DriverNext, pc \in {"classify"} \cup Awaiting \cup Reading \cup Leaving
  PROVE  /\ ~Resetting /\ data_points' = data_points
         /\ sw'.KNN_TEST_PT = sw.KNN_TEST_PT /\ data' = data /\ x' = x
         /\ k' = k \/ (pc = "classify" /\ pc' \in {"test_pt", "done"})
<1> USE DEF Awaiting, Reading, Leaving
<1>1. Written /\ sw \in SwRegs /\ CoreEdge /\ ~Resetting
  BY DriverEdge, NoReset DEF DriverInv, TypeOK
<1>2. sw.KNN_VALID_IN = 0
  BY <1>1 DEF Written, SwRegs
<1>3. data_points' = data_points
  BY <1>1, <1>2, CoreStep DEF DriverInv
<1>4. CASE Tick \/ Classify
  BY <1>1, <1>3, <1>4 DEF Tick, Classify, Idle
<1>5. CASE SampleData \/ ReadData
  BY <1>1, <1>3, <1>5 DEF SampleData, ReadData, Access, SwRegs
<1>6. CASE Poll \/ AddressWr
  BY <1>1, <1>3, <1>6 DEF Poll, AddressWr, WriteAddr, Write, Access, loopVars, SwRegs
<1>7. CASE Resample \/ ResetData \/ Stop
  BY <1>1, <1>3, <1>7 DEF Resample, ResetData, Stop, Write, Access, loopVars, SwRegs
<1> QED
  BY <1>4, <1>5, <1>6, <1>7 DEF DriverNext, Cpu, Reset, Unreset, ValidInInit, ValidInSet,
    WriteData, ValidInReset, WriteTest, Start, Write, Access

LEMMA FreshKept == ASSUME DriverInv, DriverNext PROVE Fresh'
<1>1. /\ Fresh /\ Following /\ Written /\ sw \in SwRegs /\ CoreEdge /\ TypeOK /\ PipelineInv
      /\ Following'
  BY DriverEdge, FollowingKept DEF DriverInv, TypeOK
<1>2. CASE pc \in {"classify"} \cup Awaiting \cup Reading \cup Leaving
  <2>1. ~Resetting /\ sw'.KNN_TEST_PT = sw.KNN_TEST_PT /\ state' = NextState
    BY <1>1, <1>2, RunUndisturbed, CoreStep
  <2>2. CASE state = "COMPUTE"
    <3>1. sw.KNN_START = 1
      BY <1>1, <1>2, <2>2 DEF Following, Written, Awaiting, Reading, Leaving
    <3>2. CASE Issuing
      <4>1. count' = count + 1 /\ tested' = [tested EXCEPT ![count] = sw.KNN_TEST_PT]
        <5>1. count' = Inc(count) /\ count \in DistIdx
          BY <1>1, <2>1, <3>2 DEF CoreEdge, IssueBlock, Reg, Issuing, TypeOK
        <5>2. Inc(count) = count + 1
          BY <5>1, NumPtsType DEF Inc
        <5>3. tested' = [tested EXCEPT ![count] = sw.KNN_TEST_PT]
          BY <1>1, <2>1, <3>2 DEF CoreEdge, History
        <5> QED
          BY <5>1, <5>2, <5>3
      <4>2. state' = "COMPUTE"
        BY <1>1, <2>1, <2>2, <3>2, NumPtsType DEF NextState, NextStateAfter, Issuing, TypeOK
      <4>3. \A n \in DistIdx : n < count => tested[n] = sw.KNN_TEST_PT
        BY <1>1, <2>2 DEF Fresh
      <4>4. \A n \in DistIdx : n < count' => tested'[n] = sw'.KNN_TEST_PT
        BY <1>1, <2>1, <4>1, <4>3, NumPtsType DEF TypeOK
      <4> QED
        BY <4>2, <4>4 DEF Fresh
    <3>3. CASE ~Issuing
      <4>1. count = NumPts /\ tested' = tested
        BY <1>1, <2>2, <3>3, NumPtsType DEF Issuing, CoreEdge, History, TypeOK
      <4>2. state' = "OUTPUT"
        BY <2>1, <2>2, <3>1, <4>1, NumPtsType DEF NextState, NextStateAfter
      <4>3. \A n \in DistIdx : tested'[n] = sw'.KNN_TEST_PT
        BY <1>1, <2>1, <2>2, <4>1, NumPtsType DEF Fresh
      <4> QED
        BY <4>2, <4>3 DEF Fresh
    <3> QED
      BY <3>2, <3>3
  <2>3. CASE state = "OUTPUT"
    <3>1. tested' = tested /\ state' # "COMPUTE"
      BY <1>1, <2>1, <2>3, CoreStep DEF NextState, NextStateAfter
    <3> QED
      BY <1>1, <2>1, <2>3, <3>1 DEF Fresh
  <2>4. CASE state = "INIT"
    <3>1. state' # "OUTPUT" /\ count' = 0
      <4>1. ~Issuing
        BY <2>4 DEF Issuing
      <4> QED
        BY <1>1, <2>1, <2>4, <4>1 DEF CoreEdge, IssueBlock, Reg, NextState, NextStateAfter
    <3> QED
      BY <3>1 DEF Fresh
  <2> QED
    BY <1>1, <2>2, <2>3, <2>4 DEF TypeOK
<1>3. CASE pc \notin {"classify"} \cup Awaiting \cup Reading \cup Leaving
  <2>1. state = "INIT" /\ sw.KNN_START = 0
    BY <1>1, <1>3 DEF DriverInv, DriverTypes, Pcs, Following, Written, SwRegs
  <2>2. state' = "INIT"
    BY <1>1, <2>1 DEF CoreEdge, FsmSeq, Reg, NextState, NextStateAfter
  <2> QED
    BY <2>2 DEF Fresh
<1> QED
  BY <1>2, <1>3

LEMMA ReadBackKept == ASSUME DriverInv, DriverNext PROVE ReadBack'
<1> USE DEF Awaiting, Reading, Leaving
<1>1. /\ ReadBack /\ Following /\ Written /\ Fresh /\ DriverTypes /\ CoreEdge
      /\ TypeOK /\ PipelineInv
  BY DriverEdge DEF DriverInv
<1>2. CASE pc \in {"classify"} \cup Awaiting \cup Reading \cup Leaving /\ k' = k
  <2>1. /\ ~Resetting /\ data_points' = data_points /\ x' = x
        /\ \A n \in DistIdx : Wanted(n)' = Wanted(n)
    BY <1>2, RunUndisturbed DEF Wanted
  <2>2. pc \in {"sample"} \cup Reading \cup Leaving =>
          /\ distances' = distances
          /\ \A n \in DistIdx : distances[n] = Wanted(n)
    <3> SUFFICES ASSUME pc \in {"sample"} \cup Reading \cup Leaving
                 PROVE  distances' = distances /\ \A n \in DistIdx : distances[n] = Wanted(n)
      OBVIOUS
    <3>1. state = "OUTPUT" /\ sw.KNN_TEST_PT = Pack(x[k])
      BY <1>1 DEF Following, Written
    <3>2. \A n \in DistIdx : distances[n] = ExpectedAt(n)
      BY <1>1, <3>1, NumPtsType DEF PipelineInv, Stored
    <3>3. \A n \in DistIdx : ExpectedAt(n) = Wanted(n)
      BY <1>1, <3>1, NumPtsType DEF ExpectedAt, Wanted, Fresh, Delay
    <3> QED
      BY <1>1, <2>1, <3>1, <3>2, <3>3, CoreStep
  <2>3. sw.KNN_SAMPLE = 1 => add_reg' = distances[sw.KNN_ADDR]
    BY <1>1, <2>1, CoreStep
  <2>4. CASE Tick
    BY <1>1, <2>1, <2>2, <2>3, <2>4 DEF Tick, ReadBack, Written
  <2>5. CASE Poll
    BY <2>5 DEF Poll, Write, Access, ReadBack
  <2>6. CASE SampleData
    BY <2>6, NumPtsType DEF SampleData, Access, ReadBack
  <2>7. CASE AddressWr
    BY <1>1, <2>1, <2>7 DEF AddressWr, Write, Access, loopVars, ReadBack
  <2>8. CASE Resample
    BY <1>1, <2>1, <2>2, <2>3, <2>8 DEF Resample, Write, Access, loopVars, ReadBack, Written
  <2>9. CASE ReadData
    <3>1. /\ pc = "read" /\ add_reg = Wanted(i) /\ i \in DistIdx
          /\ distance' = [distance EXCEPT ![i] = add_reg] /\ i' = i + 1
          /\ pc' = IF i < N - 1 THEN "addr" ELSE "reset_data"
      BY <1>1, <2>2, <2>9, NumPtsType DEF ReadData, Access, ReadBack, DriverTypes, N
    <3>2. \A n \in DistIdx : n < i + 1 => distance'[n] = Wanted(n)
      BY <1>1, <3>1, NumPtsType DEF ReadBack, DriverTypes
    <3>3. pc' = "reset_data" => i + 1 = NumPts
      BY <3>1, NumPtsType DEF N
    <3> QED
      BY <2>1, <3>1, <3>2, <3>3 DEF ReadBack
  <2>10. CASE ResetData \/ Stop
    BY <1>1, <2>1, <2>10 DEF ResetData, Stop, Write, Access, loopVars, ReadBack
  <2>11. CASE Classify
    BY <2>11 DEF Classify, ReadBack
  <2> QED
    BY <1>2, <2>4, <2>5, <2>6, <2>7, <2>8, <2>9, <2>10, <2>11 DEF DriverNext, Cpu, Reset, Unreset,
      ValidInInit, ValidInSet, WriteData, ValidInReset, WriteTest, Start, Write, Access
<1>3. CASE pc \in {"classify"} \cup Awaiting \cup Reading \cup Leaving /\ k' # k
  BY <1>3, RunUndisturbed DEF ReadBack
<1>4. CASE pc \notin {"classify"} \cup Awaiting \cup Reading \cup Leaving
  <2>1. pc' \notin {"classify"} \cup Reading \cup Leaving
    BY <1>4 DEF DriverNext, Cpu, Tick, Reset, Unreset, ValidInInit, ValidInSet, WriteData,
      ValidInReset, WriteTest, Start, Poll, SampleData, AddressWr, Resample, ReadData, ResetData,
      Stop, Classify, Write, Access
  <2> QED
    BY <2>1 DEF ReadBack
<1> QED
  BY <1>2, <1>3, <1>4

LEMMA DriverInitially == DriverInit => DriverInv
<1> SUFFICES ASSUME DriverInit PROVE DriverInv
  OBVIOUS
<1>1. TypeOK /\ PipelineInv
  BY TypeInit, PipelineInit DEF DriverInit
<1>2. DriverTypes /\ Written /\ Following /\ Fresh /\ ReadBack
  BY NumPtsType, NumTestsAssumption
  DEF DriverInit, Init, CoreInit, DriverTypes, Written, Following, Fresh, ReadBack, Pcs,
      Preparing, Awaiting, Reading, Leaving, N
<1> QED
  BY <1>1, <1>2 DEF DriverInv

LEMMA DriverInvKept == DriverInv /\ [DriverNext]_allVars => DriverInv'
<1> SUFFICES ASSUME DriverInv, [DriverNext]_allVars PROVE DriverInv'
  OBVIOUS
<1>1. CASE DriverNext
  <2>1. TypeOK' /\ PipelineInv'
    BY <1>1, DriverEdge, TypeEdge, PipelineEdge DEF DriverInv
  <2> QED
    BY <1>1, <2>1, DriverTypesKept, WrittenKept, FollowingKept, FreshKept, ReadBackKept DEF DriverInv
<1>2. CASE UNCHANGED allVars
  <2>1. UNCHANGED vars /\ UNCHANGED driverVars
    BY <1>2 DEF allVars
  <2>2. TypeOK' /\ PipelineInv'
    BY <2>1, TypeStutter, PipelineStutter DEF DriverInv
  <2>3. DriverTypes' /\ Written' /\ Following' /\ Fresh' /\ ReadBack'
    BY <2>1 DEF vars, coreVars, fsmVars, pipeVars, driverVars, DriverInv, DriverTypes, Written,
      Following, Fresh, ReadBack, Wanted
  <2> QED
    BY <2>2, <2>3 DEF DriverInv
<1> QED
  BY <1>1, <1>2

LEMMA DriverInvariant == DriverSpec => []DriverInv
BY DriverInitially, DriverInvKept, PTL DEF DriverSpec

---------------------------------------------------------------------------
(* The theorems *)

\* What the driver has read back when it classifies is the distance of the core's dataset
\* from the test point at hand, entry by entry (knn.c:114-142), whatever the bus timing.
THEOREM ReadsRight == DriverSpec => []ReadsThisTestPoint
<1>1. DriverInv => ReadsThisTestPoint
  BY DEF DriverInv, ReadBack, Wanted, ReadsThisTestPoint
<1> QED
  BY <1>1, DriverInvariant, PTL

\* Past its loading loop the driver never changes the dataset in the core (knn.c:93).
THEOREM LoadsOnce == DriverSpec => LoadedOnce
<1>1. DriverInv /\ [DriverNext]_allVars =>
        [pc \notin {"reset", "unreset", "validin_init", "validin_set", "data", "validin_reset"}
           => UNCHANGED data_points]_allVars
  <2> SUFFICES ASSUME DriverInv, DriverNext, pc \notin Preparing
               PROVE  data_points' = data_points
    BY DEF Preparing
  <2>1. CoreEdge /\ ~Resetting /\ sw.KNN_VALID_IN = 0
    BY DriverEdge, NoReset DEF DriverInv, Written, TypeOK, SwRegs, Preparing
  <2> QED
    BY <2>1, CoreStep DEF DriverInv
<1> QED
  BY <1>1, DriverInvariant, PTL DEF DriverSpec, LoadedOnce

\* The safety of KnnService: the first state and every step are the abstract ones'.
ServiceSafety == Service!Init /\ [][Service!Next]_(Service!vars)

LEMMA ServiceInitially == DriverInit => Service!Init
<1> SUFFICES ASSUME DriverInit PROVE Service!Init
  OBVIOUS
<1>1. state = "INIT"
  BY DEF DriverInit, Init, CoreInit
<1>2. data_points \in [0 .. NumPts -> Service!Points] /\ sw.KNN_TEST_PT \in Service!Points
  BY DriverInitially DEF DriverInv, TypeOK, SwRegs, Points, Coord, Service!Points, Service!Coord
<1> QED
  BY <1>1, <1>2 DEF Service!Init, Service!NoResult

LEMMA ServiceStep ==
  ASSUME DriverInv, DriverInv', DriverNext
  PROVE  Service!Next \/ UNCHANGED Service!vars
<1> DEFINE Engaged == pc \in {"classify"} \cup Awaiting \cup Reading \cup Leaving
<1>1. /\ TypeOK /\ PipelineInv /\ Following /\ Written /\ DriverTypes /\ sw \in SwRegs
      /\ TypeOK' /\ PipelineInv' /\ Fresh' /\ CoreEdge /\ state \in FsmState /\ state' \in FsmState
  BY DriverEdge DEF DriverInv, TypeOK
<1>2. Engaged => /\ ~Resetting /\ state' = NextState
                 /\ data_points' = data_points /\ sw'.KNN_TEST_PT = sw.KNN_TEST_PT
                 /\ (state # "COMPUTE" => distances' = distances)
  BY <1>1, RunUndisturbed, CoreStep
<1>3. state # "INIT" => Engaged
  BY <1>1 DEF Following, DriverTypes, Pcs, Preparing
<1>4. sw.KNN_START = 1 => Engaged
  BY <1>1 DEF Written
<1>5. CASE state = "INIT" /\ state' = "INIT"
  <2>1. /\ data_points' \in [0 .. NumPts -> Service!Points] /\ sw'.KNN_TEST_PT \in Service!Points
    BY <1>1 DEF TypeOK, SwRegs, Points, Coord, Service!Points, Service!Coord
  <2>2. Service!Prepare
    BY <1>5, <2>1 DEF Service!Prepare
  <2> QED
    BY <2>2 DEF Service!Next
<1>6. CASE state = "INIT" /\ state' # "INIT"
  <2>1. Engaged
    BY <1>1, <1>4, <1>6 DEF CoreEdge, FsmSeq, Reg, NextState, NextStateAfter, SwRegs
  <2>2. state' = "COMPUTE"
    BY <1>2, <1>6, <2>1 DEF NextState, NextStateAfter
  <2>3. Service!Start
    BY <1>2, <1>6, <2>1, <2>2 DEF Service!Start
  <2> QED
    BY <2>3 DEF Service!Next
<1>7. CASE state = "COMPUTE" /\ state' = "COMPUTE"
  BY <1>2, <1>3, <1>7 DEF Service!vars
<1>8. CASE state = "COMPUTE" /\ state' # "COMPUTE"
  <2>1. state' = "OUTPUT"
    BY <1>2, <1>3, <1>8 DEF NextState, NextStateAfter
  <2>2. \A n \in DistIdx : distances'[n] = Service!DistanceOf(n)
    <3>1. \A n \in DistIdx : distances'[n] = ExpectedAt(n)'
      BY <1>1, <2>1, NumPtsType DEF PipelineInv, Stored
    <3>2. ASSUME NEW n \in DistIdx
          PROVE  ExpectedAt(n)' = Service!DistanceOf(n)
      <4>1. ~(n < Delay) => n - Delay \in DistIdx /\ tested'[n - Delay] = sw'.KNN_TEST_PT
        BY <1>1, <2>1, NumPtsType DEF Fresh, Delay
      <4> QED
        BY <1>2, <1>3, <1>8, <4>1
        DEF ExpectedAt, Service!DistanceOf, SqDist, Service!SqDist, Signed, Service!Signed,
            IsNegative, Service!IsNegative
    <3> QED
      BY <3>1, <3>2
  <2>3. distances' = [n \in DistIdx |-> Service!DistanceOf(n)]
    BY <1>1, <2>2 DEF TypeOK
  <2>4. Service!Finish
    BY <1>2, <1>3, <1>8, <2>1, <2>3 DEF Service!Finish
  <2> QED
    BY <2>4 DEF Service!Next
<1>9. CASE state = "OUTPUT" /\ state' = "OUTPUT"
  BY <1>2, <1>3, <1>9 DEF Service!vars
<1>10. CASE state = "OUTPUT" /\ state' # "OUTPUT"
  <2>1. state' = "INIT"
    BY <1>2, <1>3, <1>10 DEF NextState, NextStateAfter
  <2>2. Service!Stop
    BY <1>2, <1>3, <1>10, <2>1 DEF Service!Stop, Service!NoResult
  <2> QED
    BY <2>2 DEF Service!Next
<1> QED
  BY <1>1, <1>5, <1>6, <1>7, <1>8, <1>9, <1>10

\* The core under its driver implements KnnService, its liveness apart: the dataset and the
\* test point stand still from start to stop, and a run ends with all the distances there.
THEOREM ImplementsService == DriverSpec => ServiceSafety
<1>1. DriverInv /\ DriverInv' /\ [DriverNext]_allVars => [Service!Next]_(Service!vars)
  <2> SUFFICES ASSUME DriverInv, DriverInv', [DriverNext]_allVars
               PROVE  Service!Next \/ UNCHANGED Service!vars
    OBVIOUS
  <2>1. CASE DriverNext
    BY <2>1, ServiceStep
  <2>2. CASE UNCHANGED allVars
    BY <2>2 DEF allVars, vars, coreVars, fsmVars, pipeVars, Service!vars
  <2> QED
    BY <2>1, <2>2
<1> QED
  BY <1>1, ServiceInitially, DriverInvariant, PTL DEF DriverSpec, ServiceSafety
============================================================================
