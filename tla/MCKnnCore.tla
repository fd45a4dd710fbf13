----------------------------- MODULE MCKnnCore -----------------------------
(***************************************************************************)
(* KnnCore under software that makes at most MaxWrites register writes, of *)
(* any register and at any edge.                                           *)
(***************************************************************************)
EXTENDS KnnCore

CONSTANT MaxWrites

VARIABLE writes         \* the writes made so far

mcVars == <<vars, writes>>

\* One point with a negative difference in X and one in Y, so that the
\* sign branches of the datapath are all taken.
MCDataInputs == {<<3, 2>>}
MCTestInputs == {<<0, 0>>, <<1, 3>>}
MCReadAddrs  == {3}

MCInit == Init /\ writes = 0

Write(A) == writes < MaxWrites /\ A /\ writes' = writes + 1

MCNext ==
  \/ Idle /\ UNCHANGED writes
  \/ Write(PokeBit)
  \/ Write(PokeTestPt)
  \/ Write(PokeDataPt)
  \/ Write(PokeAddr)

\* The clock never stops.
MCSpec == MCInit /\ [][MCNext]_mcVars /\ WF_mcVars(Idle /\ UNCHANGED writes)

===========================================================================
