----------------------------- MODULE KnnService -----------------------------
(***************************************************************************)
(* What the accelerator promises software, without clock, pipeline or      *)
(* registers: software prepares a dataset and a test point, starts a run,  *)
(* and some time later finds all the distances, which stay until it stops. *)
(***************************************************************************)
EXTENDS KnnArith

CONSTANTS
  NumPts,         \* points of the dataset
  Delay           \* the place of the first point's distance

VARIABLES
  phase,          \* "idle", "busy" or "done"
  pts,            \* the dataset
  test,           \* the test point
  result          \* the distances, when phase is "done"

vars == <<phase, pts, test, result>>

NoResult == <<>>

DistanceOf(i) == IF i < Delay THEN 0 ELSE SqDist(test, pts[i - Delay])

Init ==
  /\ phase = "idle" /\ result = NoResult
  /\ pts \in [0 .. NumPts -> Points] /\ test \in Points

\* Only an idle accelerator takes another dataset or test point.
Prepare ==
  /\ phase = "idle"
  /\ pts' \in [0 .. NumPts -> Points] /\ test' \in Points
  /\ UNCHANGED <<phase, result>>

Start == phase = "idle" /\ phase' = "busy" /\ UNCHANGED <<pts, test, result>>

Finish ==
  /\ phase = "busy" /\ phase' = "done"
  /\ result' = [i \in 0 .. NumPts - 1 |-> DistanceOf(i)]
  /\ UNCHANGED <<pts, test>>

Stop == phase = "done" /\ phase' = "idle" /\ result' = NoResult /\ UNCHANGED <<pts, test>>

Next == Prepare \/ Start \/ Finish \/ Stop

\* Every run that is started is finished.
Spec == Init /\ [][Next]_vars /\ WF_vars(Finish)

=============================================================================
