------------------------------ MODULE MCTxPool ------------------------------
EXTENDS TxPool, TLC

\* buffers are interchangeable (the order of the free list does not matter), and
\* so are the writers that fill a buffer in place
Symmetry == {p @@ q : p \in Permutations(Buf), q \in Permutations(Direct)}
=============================================================================
