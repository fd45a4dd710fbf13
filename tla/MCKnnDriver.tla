---------------------------- MODULE MCKnnDriver ----------------------------
EXTENDS KnnDriver

\* With Half = 4 a coordinate of 2 or 3 is negative, and so is the y of <<3, 2>>.
MCDataInputs == {<<0, 1>>, <<3, 2>>}
MCTestInputs == {<<1, 0>>, <<3, 3>>}
MCReadAddrs  == DistIdx

\* No negative y: Pack leaves these points alone.
MCPlainInputs == {<<0, 1>>, <<3, 0>>}

===========================================================================
