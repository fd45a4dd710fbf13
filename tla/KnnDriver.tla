----------------------------- MODULE KnnDriver -----------------------------
(***************************************************************************)
(* The accelerator under its driver: main() of knn.c, access by access,    *)
(* composed with KnnCore.                                                  *)
(*                                                                         *)
(* Every IO_SET and IO_GET of the source is one action, and happens at one *)
(* edge of the clock.  Between two accesses the CPU fetches and executes   *)
(* other instructions, so any number of edges passes, and never fewer than *)
(* MinGap: iob_picorv32.v drops valid for the edge that answers.           *)
(* Choosing the neighbours, which needs no access, is in KnnSelect.        *)
(***************************************************************************)
EXTENDS KnnCore

CONSTANTS
  NumTests,       \* M: the points to classify
  MinGap          \* the edges from one access to the next, at least

ASSUME NumTestsAssumption == NumTests \in Nat \ {0}
ASSUME MinGapAssumption == MinGap \in Nat \ {0}
ASSUME PackAssumption ==
  /\ \A p \in DataInputs : Pack(p) \in DataInputs
  /\ \A p \in TestInputs : Pack(p) \in TestInputs
ASSUME AllAddrsAssumption == ReadAddrs = DistIdx

N == NumPts             \* the dataset of the DEBUG build fits the core exactly

VARIABLES
  pc,             \* the next access of main()
  gap,            \* edges since the last access, up to MinGap
  i,              \* the index of the two inner loops (i, then ind)
  k,              \* the test point at hand
  data, x,        \* the dataset and the test points
  distance        \* the distances read back

loopVars   == <<i, k>>
driverVars == <<pc, gap, i, k, data, x, distance>>
allVars    == <<vars, driverVars>>

DriverInit ==
  /\ Init
  /\ pc = "reset" /\ gap = MinGap /\ i = 0 /\ k = 0
  /\ data \in [0 .. N - 1 -> DataInputs]
  /\ x \in [0 .. NumTests - 1 -> TestInputs]
  /\ distance = [n \in DistIdx |-> 0]

---------------------------------------------------------------------------
(* An edge without an access, and one with. *)

Tick == Idle /\ gap' = (IF gap < MinGap THEN gap + 1 ELSE gap)
             /\ UNCHANGED <<pc, i, k, data, x, distance>>

Access(from, to) == pc = from /\ gap = MinGap /\ gap' = 1 /\ pc' = to
                    /\ UNCHANGED <<data, x>>

Write(from, to, bus) == /\ Access(from, to) /\ bus /\ CoreEdge
                        /\ UNCHANGED <<loopVars, distance>>

(* knn_init: a soft reset, then VALID_IN down. *)

Reset        == Write("reset", "unreset", sw' = [sw EXCEPT !.KNN_RESET = 1])
Unreset      == Write("unreset", "validin_init", sw' = [sw EXCEPT !.KNN_RESET = 0])
ValidInInit  == Write("validin_init", "validin_set", sw' = [sw EXCEPT !.KNN_VALID_IN = 0])

(* The dataset, once for all test points. *)

ValidInSet   == Write("validin_set", "data", sw' = [sw EXCEPT !.KNN_VALID_IN = 1])

WriteData ==
  /\ Access("data", IF i + 1 < N THEN "data" ELSE "validin_reset")
  /\ WriteDataPt(Pack(data[i])) /\ CoreEdge
  /\ i' = i + 1
  /\ UNCHANGED <<k, distance>>

ValidInLeft  == Write("validin_reset", "test_pt", sw' = sw)   \* mutation: VALID_IN stays up
ValidInReset == Write("validin_reset", "test_pt", sw' = [sw EXCEPT !.KNN_VALID_IN = 0])

(* One test point. *)

WriteTest    == Write("test_pt", "start", WriteTestPt(Pack(x[k])))
Start        == Write("start", "poll", sw' = [sw EXCEPT !.KNN_START = 1])
Poll         == Write("poll", IF KNN_VALID_O = 1 THEN "sample" ELSE "poll", sw' = sw)

SampleData ==
  /\ Access("sample", "addr") /\ sw' = [sw EXCEPT !.KNN_SAMPLE = 1] /\ CoreEdge
  /\ i' = 0
  /\ UNCHANGED <<k, distance>>

AddressWr    == Write("addr", "resample", WriteAddr(i))
Resample     == Write("resample", "read", sw' = [sw EXCEPT !.KNN_SAMPLE = 1])

ReadData ==
  /\ Access("read", IF i < N - 1 THEN "addr" ELSE "reset_data")
  /\ sw' = sw /\ CoreEdge
  /\ distance' = [distance EXCEPT ![i] = add_reg]
  /\ i' = i + 1
  /\ UNCHANGED k

ResetData    == Write("reset_data", "stop", sw' = [sw EXCEPT !.KNN_SAMPLE = 0])
Stop         == Write("stop", "classify", sw' = [sw EXCEPT !.KNN_START = 0])

\* The neighbours and the vote need no access; then the next test point.
Classify ==
  /\ pc = "classify" /\ Idle
  /\ k' = k + 1
  /\ pc' = IF k + 1 < NumTests THEN "test_pt" ELSE "done"
  /\ UNCHANGED <<gap, i, data, x, distance>>

Cpu == \/ Reset \/ Unreset \/ ValidInInit \/ ValidInSet \/ WriteData \/ ValidInReset
       \/ WriteTest \/ Start \/ Poll \/ SampleData \/ AddressWr \/ Resample \/ ReadData
       \/ ResetData \/ Stop \/ Classify

DriverNext == Tick \/ Cpu

\* The clock never stops, and the CPU gets to its next access.
DriverSpec == DriverInit /\ [][DriverNext]_allVars /\ WF_allVars(Tick) /\ WF_allVars(Cpu)

---------------------------------------------------------------------------
(* Properties *)

\* When the driver turns to classifying, what it read back is, entry by entry, the
\* distance of the dataset in the core from the current test point: no entry is of
\* the test point before, and each read got the address written just before it.
ReadsThisTestPoint ==
  pc = "classify" =>
    \A n \in DistIdx : distance[n] = IF n < Delay THEN 0
                                     ELSE SqDist(Pack(x[k]), data_points[n - Delay])

\* "WRITE DATA TO FPGA ONLY ONCE FOR ALL TEST POINTS" (knn.c): once the driver is
\* past the loading loop, nothing it does to the core changes the dataset again.
LoadedOnce ==
  [][pc \notin {"reset", "unreset", "validin_init", "validin_set", "data", "validin_reset"}
       => UNCHANGED data_points]_allVars

\* The polling loop is left for every test point, and main() ends.
Terminates == <>(pc = "done")

\* "WRITE DATA TO FPGA ONLY ONCE FOR ALL TEST POINTS" (knn.c:93): after the loading
\* loop the core holds the dataset, point for point.
DatasetLoaded == pc = "test_pt" => \A n \in 0 .. N - 1 : data_points[n] = data[n]

\* The core under this driver keeps the promise of KnnService: the dataset and the
\* test point stand still during a run, every run is finished, and it ends with all
\* the distances there at once.
Service == INSTANCE KnnService WITH
  phase  <- CASE state = "INIT"    -> "idle"
              [] state = "COMPUTE" -> "busy"
              [] state = "OUTPUT"  -> "done",
  pts    <- data_points,
  test   <- sw.KNN_TEST_PT,
  result <- IF state = "OUTPUT" THEN distances ELSE <<>>

ServiceSpec == Service!Spec

===========================================================================
