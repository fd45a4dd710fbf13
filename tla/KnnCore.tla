------------------------------ MODULE KnnCore ------------------------------
(***************************************************************************)
(* The KNN accelerator, cycle by cycle: the software registers and the     *)
(* combined reset of iob_knn.v, the control of knn_fsm.v and the three     *)
(* stage pipeline of knn_datapath.v.                                       *)
(*                                                                         *)
(* One step is one rising edge of clk.  Every always block of the source   *)
(* is one operator below that gives its registers' next values from the    *)
(* old ones, as non-blocking assignments do; CoreEdge is all of them       *)
(* together.  The register file is the only block the bus reaches: an      *)
(* edge carries at most one write, and Spec lets software write any        *)
(* register at any edge, in any order.                                     *)
(***************************************************************************)
EXTENDS KnnArith

CONSTANTS
  NumPts,         \* K_NUM_DATA_PTS: 127
  DataInputs,     \* the points software writes to KNN_DATA_PT
  TestInputs,     \* the points software writes to KNN_TEST_PT
  ReadAddrs       \* the indices software writes to KNN_ADDR

ASSUME NumPtsAssumption == NumPts \in Nat \ {0}
ASSUME InputsAssumption == DataInputs \subseteq Points /\ TestInputs \subseteq Points
ASSUME ReadAddrsAssumption == ReadAddrs \subseteq 0 .. NumPts - 1

Bit       == 0 .. 1
Counter   == 0 .. NumPts                \* 7 bits: 2^7 = K_NUM_DATA_PTS + 1
IncTooWide(n) == n + 1                  \* mutation: no wrap at seven bits
Inc(n)    == (n + 1) % (NumPts + 1)
DataIdx   == 0 .. NumPts                \* data_points[`K_NUM_DATA_PTS:0]
DistIdx   == 0 .. NumPts - 1            \* distances[`K_NUM_DATA_PTS-1:0]
WrCounter == 0 .. 2 * NumPts + 1        \* addr_wr, 8 bits: twice the range of count
LastCount == NumPts - 1                 \* `K_NUM_DATA_PTS-1

FsmState == {"INIT", "COMPUTE", "OUTPUT"}

VARIABLES
  sw,             \* the seven registers software can write
  data_points,    \* knn_fsm: the dataset
  state,
  count,          \* knn_fsm: the next data point to issue
  addr,           \* knn_fsm: the next data point to load
  KNN_TEST_PT_O, KNN_DATA_PT_O, KNN_START_O, KNN_VALID_O,
  sub, mul, add,  \* knn_datapath: the pipeline, sub and mul as <<X, Y>>
  addr_wr,        \* knn_datapath: the next distance to store
  distances,
  add_reg,        \* knn_datapath: what software reads as KNN_ADD
  tested          \* history: the test point each data point was issued with

fsmVars  == <<data_points, state, count, addr,
              KNN_TEST_PT_O, KNN_DATA_PT_O, KNN_START_O, KNN_VALID_O>>
pipeVars == <<sub, mul, add, addr_wr, distances, add_reg>>
coreVars == <<fsmVars, pipeVars, tested>>
vars     == <<sw, coreVars>>

SwRegs == [KNN_RESET : Bit, KNN_START : Bit, KNN_VALID_IN : Bit, KNN_SAMPLE : Bit,
           KNN_TEST_PT : Points, KNN_DATA_PT : Points, KNN_ADDR : DistIdx]

---------------------------------------------------------------------------
(* Register file: `SWREG_W and the write strobes mkregs.py makes of it. *)

WriteBit(b)    == \/ sw' = [sw EXCEPT !.KNN_RESET = b]
                  \/ sw' = [sw EXCEPT !.KNN_START = b]
                  \/ sw' = [sw EXCEPT !.KNN_VALID_IN = b]
                  \/ sw' = [sw EXCEPT !.KNN_SAMPLE = b]
WriteTestPt(p) == sw' = [sw EXCEPT !.KNN_TEST_PT = p]
WriteDataPt(p) == sw' = [sw EXCEPT !.KNN_DATA_PT = p]
WriteAddr(a)   == sw' = [sw EXCEPT !.KNN_ADDR = a]

\* At a rising edge the core takes its reset values when rst_comb is high already,
\* or goes high with the write of this very edge: its blocks are sensitive to
\* posedge rst as well.
Resetting == sw.KNN_RESET = 1 \/ sw'.KNN_RESET = 1

\* A register with a reset value: the value after the edge.
Reg(reset, next) == IF Resetting THEN reset ELSE next

---------------------------------------------------------------------------
(* knn_fsm.v *)

Loading == sw.KNN_RESET = 0 /\ sw.KNN_VALID_IN = 1 /\ state = "INIT"

\* The reset loop stops short of the last two entries; they keep what the edge
\* itself may have stored.
LoadBlock ==
  LET loaded == IF Loading THEN [data_points EXCEPT ![addr] = sw.KNN_DATA_PT]
                           ELSE data_points
  IN  /\ data_points' = [i \in DataIdx |-> IF Resetting /\ i < LastCount
                                             THEN Origin ELSE loaded[i]]
      /\ addr' = Reg(0, IF Loading THEN Inc(addr) ELSE 0)

NextStateAfter(last) ==
  CASE state = "INIT"    -> IF sw.KNN_START = 1 THEN "COMPUTE" ELSE "INIT"
    [] state = "COMPUTE" -> IF sw.KNN_START = 1 /\ count > last
                              THEN "OUTPUT" ELSE "COMPUTE"
    [] state = "OUTPUT"  -> IF sw.KNN_START = 1 THEN "OUTPUT" ELSE "INIT"

NextStateOffByOne == NextStateAfter(LastCount + 1)      \* mutation: never reached
NextStateOneShort == NextStateAfter(LastCount - 1)      \* mutation: one point too early
NextState         == NextStateAfter(LastCount)

FsmSeq == state' = Reg("INIT", NextState)

IssuingForever == state = "COMPUTE"     \* mutation: count is not tested

Issuing == state = "COMPUTE" /\ count <= LastCount

IssueBlock ==
  /\ KNN_TEST_PT_O' = Reg(Origin, IF Issuing THEN sw.KNN_TEST_PT ELSE Origin)
  /\ KNN_DATA_PT_O' = Reg(Origin, IF Issuing THEN data_points[count] ELSE Origin)
  /\ KNN_START_O'   = Reg(0, IF Issuing THEN 1 ELSE 0)
  /\ count'         = Reg(0, IF Issuing THEN Inc(count) ELSE 0)

\* mutation: the answer is announced when the last point is issued
ValidBlockEarly ==
  KNN_VALID_O' = Reg(0, IF (state = "COMPUTE" /\ count = LastCount) \/ state = "OUTPUT"
                          THEN 1 ELSE 0)

ValidBlock == KNN_VALID_O' = Reg(0, IF state = "OUTPUT" THEN 1 ELSE 0)

---------------------------------------------------------------------------
(* knn_datapath.v *)

Running == KNN_START_O = 1

\* The stages, and the values they take while the datapath does not run.
ArithElse(sub0, mul0, add0) ==
  /\ sub' = Reg(Origin, IF Running
                  THEN <<Subtract(KNN_TEST_PT_O[1], KNN_DATA_PT_O[1]),
                         Subtract(KNN_TEST_PT_O[2], KNN_DATA_PT_O[2])>>
                  ELSE sub0)
  /\ mul' = Reg(Origin, IF Running THEN <<Square(sub[1]), Square(sub[2])>> ELSE mul0)
  /\ add' = Reg(0, IF Running THEN Sum(mul[1], mul[2]) ELSE add0)

ArithBlockNoClear == ArithElse(sub, mul, add)   \* mutation: they keep the last points
ArithBlock        == ArithElse(Origin, Origin, 0)

\* A store beyond the array is lost.  The reset loop stops short of the last entry,
\* which keeps what the edge itself may have stored.
StoreThenGoTo(start) ==
  LET stores == sw.KNN_RESET = 0 /\ Running /\ addr_wr \in DistIdx
      stored == IF stores THEN [distances EXCEPT ![addr_wr] = add] ELSE distances
  IN  /\ distances' = [i \in DistIdx |-> IF Resetting /\ i < LastCount
                                           THEN 0 ELSE stored[i]]
      /\ addr_wr' = Reg(0, IF Running THEN (addr_wr + 1) % (2 * (NumPts + 1)) ELSE start)

StoreBlockNoClear == StoreThenGoTo(addr_wr)     \* mutation: addr_wr goes on from there
StoreBlock        == StoreThenGoTo(0)

SampleBlock ==
  add_reg' = Reg(0, IF sw.KNN_SAMPLE = 1 THEN distances[sw.KNN_ADDR] ELSE add_reg)

---------------------------------------------------------------------------

History == tested' = IF ~Resetting /\ Issuing
                       THEN [tested EXCEPT ![count] = sw.KNN_TEST_PT] ELSE tested

CoreEdge ==
  /\ LoadBlock /\ FsmSeq /\ IssueBlock /\ ValidBlock
  /\ ArithBlock /\ StoreBlock /\ SampleBlock
  /\ History

\* After the system reset; the array entries outside the reset loops hold anything.
CoreInit ==
  /\ data_points \in {f \in [DataIdx -> DataInputs \cup {Origin}] :
                        \A i \in DataIdx : i < LastCount => f[i] = Origin}
  /\ state = "INIT" /\ count = 0 /\ addr = 0
  /\ KNN_TEST_PT_O = Origin /\ KNN_DATA_PT_O = Origin
  /\ KNN_START_O = 0 /\ KNN_VALID_O = 0
  /\ sub = Origin /\ mul = Origin /\ add = 0 /\ addr_wr = 0
  /\ distances \in {f \in [DistIdx -> {0, 1}] :
                      \A i \in DistIdx : i < LastCount => f[i] = 0}
  /\ add_reg = 0
  /\ tested = [i \in DistIdx |-> Origin]

Init ==
  /\ sw = [KNN_RESET |-> 0, KNN_START |-> 0, KNN_VALID_IN |-> 0, KNN_SAMPLE |-> 0,
           KNN_TEST_PT |-> Origin, KNN_DATA_PT |-> Origin, KNN_ADDR |-> 0]
  /\ CoreInit

Idle       == sw' = sw /\ CoreEdge
PokeBit    == \E b \in Bit : WriteBit(b) /\ CoreEdge
PokeTestPt == \E p \in TestInputs : WriteTestPt(p) /\ CoreEdge
PokeDataPt == \E p \in DataInputs : WriteDataPt(p) /\ CoreEdge
PokeAddr   == \E a \in ReadAddrs : WriteAddr(a) /\ CoreEdge

Next == Idle \/ PokeBit \/ PokeTestPt \/ PokeDataPt \/ PokeAddr

Spec == Init /\ [][Next]_vars

---------------------------------------------------------------------------
(* Properties *)

\* Every register holds a value of its width.
TypeOK ==
  /\ sw \in SwRegs
  /\ data_points \in [DataIdx -> Points]
  /\ state \in FsmState /\ count \in Counter /\ addr \in Counter
  /\ KNN_TEST_PT_O \in Points /\ KNN_DATA_PT_O \in Points
  /\ KNN_START_O \in Bit /\ KNN_VALID_O \in Bit
  /\ sub \in Points /\ mul \in Word \X Word /\ add \in Word
  /\ addr_wr \in WrCounter /\ distances \in [DistIdx -> Word] /\ add_reg \in Word
  /\ tested \in [DistIdx -> Points]

\* The pipeline is three stages deep, and nothing delays addr_wr to match: entry i
\* belongs to data point i - 3, and the first three entries are the empty pipeline.
Delay == 3

ExpectedAt(i) ==
  IF i < Delay THEN 0 ELSE SqDist(tested[i - Delay], data_points[i - Delay])

Diff(i) == <<Subtract(tested[i][1], data_points[i][1]),
             Subtract(tested[i][2], data_points[i][2])>>

Stored(n) == \A i \in DistIdx : i < n => distances[i] = ExpectedAt(i)

\* While point addr_wr is on the FSM's outputs, each stage holds the work of the
\* point one, two or three places before it, or zero when there is none.
InFlight ==
  /\ KNN_TEST_PT_O = tested[addr_wr] /\ KNN_DATA_PT_O = data_points[addr_wr]
  /\ sub = IF addr_wr < 1 THEN Origin ELSE Diff(addr_wr - 1)
  /\ mul = IF addr_wr < 2 THEN Origin
                          ELSE <<Square(Diff(addr_wr - 2)[1]), Square(Diff(addr_wr - 2)[2])>>
  /\ add = ExpectedAt(addr_wr)
  /\ Stored(addr_wr)

\* What ties the two counters and the pipeline together: the datapath runs in COMPUTE
\* only and exactly one point behind count, nothing of an earlier run is left in the
\* stages, and when the FSM reaches OUTPUT every entry is stored.  It is the
\* inductive invariant behind ResultsCorrect and NoOverrun.
PipelineInv ==
  /\ ~Running => count = 0
  /\ Running => state = "COMPUTE" /\ count = addr_wr + 1 /\ InFlight
  /\ state = "OUTPUT" => Stored(NumPts)

\* Whatever software wrote and when, a run that ends leaves in every entry of
\* distances the distance of one data point, still in the dataset, from the test
\* point it was issued with: no entry is left over from an earlier run, and none
\* mixes two points (knn_fsm.v and knn_datapath.v together).
ResultsCorrect == state = "OUTPUT" => \A i \in DistIdx : distances[i] = ExpectedAt(i)

\* The datapath counts its stores on its own; it never stores past the end of
\* distances, however START_O and the reset come and go.
NoOverrun == Running => addr_wr \in DistIdx

\* While VALID_OUT is up, software may read distances in its own time: no store
\* changes them under it, not even when it drops START early.
StableWhileValid == [][KNN_VALID_O = 1 /\ ~Resetting => UNCHANGED distances]_vars

\* Software that holds START up gets VALID_OUT, for good, from whatever state it
\* found the core in.
Answered ==
  <>[](sw.KNN_START = 1 /\ sw.KNN_RESET = 0) => <>[](KNN_VALID_O = 1)

===========================================================================
