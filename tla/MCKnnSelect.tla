---------------------------- MODULE MCKnnSelect ----------------------------
EXTENDS KnnSelect

\* Three distances, so that ties, nearer and farther points all occur.
MCDists == 1 .. 3

===========================================================================
