------------------------------- MODULE MCCache -------------------------------
(***************************************************************************)
(* Two ways, two indices, lines of two words.  Three lines share index 0,  *)
(* so a fetch evicts; one is at index 1.                                   *)
(***************************************************************************)
EXTENDS Cache

CONSTANTS t0, t1, t2

MCTag   == {t0, t1, t2}
MCIndex == {0, 1}
MCLines == {<<t0, 0>>, <<t1, 0>>, <<t2, 0>>, <<t0, 1>>}
At(t, i, o) == [tag |-> t, index |-> i, offset |-> o]
MCReadAddr  == {At(t0, 0, 1), At(t1, 0, 0), At(t2, 0, 0), At(t0, 1, 1)}
MCWriteAddr == {At(t0, 0, 1)}

\* The other two policies, at four ways.
Four == INSTANCE Replacement WITH N_WAYS <- 4

\* The tree sends the next fill to the other half than the last hit.
ASSUME TreeLooksAway ==
  \A bit \in [Four!Node -> {0, 1}] : \A w \in Four!Way :
    Four!TreeVictim(Four!TreeHit(bit, w)) \div 2 # w \div 2

\* Once every way has been hit, the one hit longest ago goes next.
ASSUME LeastRecentlyUsed ==
  \A order \in {s \in [1 .. 4 -> Four!Way] : \A a, b \in 1 .. 4 : s[a] = s[b] => a = b} :
    Four!LruVictims(FoldLeft(Four!LruHit, Four!NeverUsed("lru"), order)) = {order[1]}

\* A line that was never hit holds no ranks: a first hit of a way but 0 or 1 leaves two
\* ways at rank 0, and a fill then would go to both.
ASSUME FirstHitOfLru ==
  \A w \in Four!Way \ {0, 1} : Four!LruVictims(Four!LruHit(Four!NeverUsed("lru"), w)) = {0, 1}

=============================================================================
