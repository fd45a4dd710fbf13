----------------------------- MODULE KnnSelect -----------------------------
(***************************************************************************)
(* The software half of the classifier: main() of knn.c from the distances *)
(* read back for one test point to its label, for one test point after the *)
(* other.  The distances themselves are those KnnDriver ends with: entry i *)
(* of the array is the distance of data point i - Delay.                   *)
(***************************************************************************)
EXTENDS Integers, Sequences, FiniteSets

CONSTANTS
  N,              \* points of the dataset, and entries of distance
  K,              \* neighbours that vote
  C,              \* classes
  NumTests,       \* M: points to classify
  Delay,          \* place of the first point's distance
  INFINITE,       \* ~0 as an unsigned int
  Dists           \* the distances the core may report

ASSUME SizesAssumption ==
  /\ N \in Nat \ {0} /\ K \in Nat \ {0} /\ C \in Nat \ {0} /\ NumTests \in Nat
  /\ Delay \in Nat /\ Delay <= N
ASSUME DistsAssumption ==
  INFINITE \in Nat /\ \A d \in Dists : d \in Nat /\ d < INFINITE

Slots    == 0 .. K - 1
Labels   == 0 .. C - 1
Neighbor == [idx : 0 .. N - 1, dist : 0 .. INFINITE]

VARIABLES
  pc,             \* "read", "scan" or "vote"
  k,              \* the test point at hand
  i,              \* the entry of distance to look at next
  label,          \* the label of each data point
  distance,       \* the distances of the test point at hand
  neighbor,       \* the list of the nearest points so far
  votes_acc,      \* how many test points got each label
  scanned         \* history: the entries looked at, in order

vars == <<pc, k, i, label, distance, neighbor, votes_acc, scanned>>

\* neighbor is static, so every idx starts at 0; the distances are set to INFINITE
\* once, before the first test point.
Init ==
  /\ pc = "read" /\ k = 0 /\ i = 0
  /\ label \in [0 .. N - 1 -> Labels]
  /\ distance = [n \in 0 .. N - 1 |-> 0]
  /\ neighbor = [j \in Slots |-> [idx |-> 0, dist |-> INFINITE]]
  /\ votes_acc = [l \in Labels |-> 0]
  /\ scanned = <<>>

---------------------------------------------------------------------------
(* The ordered list *)

\* insert: everything from position on moves one slot down, and the last is dropped.
Insert(list, element, position) ==
  [j \in Slots |-> IF j < position THEN list[j]
                   ELSE IF j = position THEN element ELSE list[j - 1]]

\* The slots whose neighbour is farther than d; mutation: or just as far.
FartherOrTied(list, d) == {j \in Slots : d <= list[j].dist}
Farther(list, d)       == {j \in Slots : d < list[j].dist}

IsFirst(j, slots) == j \in slots /\ \A other \in slots : j <= other

\* The loop over j inserts at the first such slot, or not at all.
Consider(list, element) ==
  LET slots == Farther(list, element.dist)
  IN  IF slots = {} THEN list
      ELSE Insert(list, element, CHOOSE j \in Slots : IsFirst(j, slots))

(* The vote *)

\* votes[l] after the first n neighbours have voted.
VotesOf(l, n) == Cardinality({j \in 0 .. n - 1 : label[neighbor[j].idx] = l})

\* best_voted after all neighbours, and best_votation on the way: a label replaces
\* the best so far when it leads it by margin.
BestVotedBy(margin) ==
  LET best[n \in 0 .. K] ==
        IF n = 0 THEN [voted |-> 0, votation |-> 0]
        ELSE LET l == label[neighbor[n - 1].idx]
                 v == VotesOf(l, n)
             IN  IF v >= best[n - 1].votation + margin
                   THEN [voted |-> l, votation |-> v] ELSE best[n - 1]
  IN  best[K].voted

BestVotedLast == BestVotedBy(0)         \* mutation: >= instead of >
BestVoted     == BestVotedBy(1)

---------------------------------------------------------------------------

\* The distances of the next test point are read back from the core.
Read ==
  /\ pc = "read" /\ k < NumTests
  /\ distance' \in {f \in [0 .. N - 1 -> Dists \cup {0}] :
                      \A n \in 0 .. N - 1 : IF n < Delay THEN f[n] = 0 ELSE f[n] \in Dists}
  /\ i' = Delay /\ pc' = "scan"
  /\ UNCHANGED <<k, label, neighbor, votes_acc, scanned>>

Scan ==
  /\ pc = "scan" /\ i < N
  /\ LET element == [idx |-> i, dist |-> distance[i]]
     IN  neighbor' = Consider(neighbor, element) /\ scanned' = Append(scanned, element)
  /\ i' = i + 1
  /\ UNCHANGED <<pc, k, label, distance, votes_acc>>

ScanDone == pc = "scan" /\ i = N /\ pc' = "vote"
            /\ UNCHANGED <<k, i, label, distance, neighbor, votes_acc, scanned>>

Vote ==
  /\ pc = "vote"
  /\ votes_acc' = [votes_acc EXCEPT ![BestVoted] = @ + 1]
  /\ k' = k + 1 /\ pc' = "read"
  /\ UNCHANGED <<i, label, distance, neighbor, scanned>>

Next == Read \/ Scan \/ ScanDone \/ Vote

Spec == Init /\ [][Next]_vars

---------------------------------------------------------------------------
(* Properties *)

TypeOK ==
  /\ pc \in {"read", "scan", "vote"}
  /\ k \in 0 .. NumTests /\ i \in 0 .. N
  /\ label \in [0 .. N - 1 -> Labels]
  /\ distance \in [0 .. N - 1 -> Dists \cup {0}]
  /\ neighbor \in [Slots -> Neighbor]
  /\ votes_acc \in [Labels -> Nat]
  /\ scanned \in Seq([idx : 0 .. N - 1, dist : Dists])

\* How many entries come before entry s: nearer ones, and equally near earlier ones.
Rank(s) ==
  Cardinality({t \in 1 .. Len(scanned) :
                 \/ scanned[t].dist < scanned[s].dist
                 \/ scanned[t].dist = scanned[s].dist /\ t < s})

\* Inserting while scanning amounts to sorting: the list is the first K of all the
\* entries looked at since the program began, nearest first and, of equally near
\* ones, the earlier first; the slots beyond them are still at INFINITE.
NearestFirst ==
  /\ \A s \in 1 .. Len(scanned) : Rank(s) < K => neighbor[Rank(s)] = scanned[s]
  /\ \A j \in Slots : j >= Len(scanned) => neighbor[j].dist = INFINITE

\* The last neighbour to vote for l.
LastVoter(l) == CHOOSE j \in Slots : /\ label[neighbor[j].idx] = l
                                     /\ \A m \in Slots : label[neighbor[m].idx] = l => m <= j

\* The label that gains a test point has the most votes, and of the labels with as
\* many it is the one whose votes come from nearer neighbours.
Plurality ==
  [][\A w \in Labels : votes_acc'[w] # votes_acc[w] =>
       \A o \in Labels \ {w} :
         \/ VotesOf(o, K) < VotesOf(w, K)
         \/ VotesOf(o, K) = VotesOf(w, K) /\ LastVoter(w) < LastVoter(o)]_vars

\* "index in dataset array" and "distance to test point" (iob_knn.h:42-43), of the
\* first test point: a neighbour's dist is the distance of the data point its idx names.
IdxIsDatasetIndex ==
  pc = "vote" /\ k = 0 =>
    \A j \in Slots : neighbor[j].dist # INFINITE /\ neighbor[j].idx + Delay < N
                       => neighbor[j].dist = distance[neighbor[j].idx + Delay]

===========================================================================
