---------------------------- MODULE MCBufferPool ----------------------------
(* BufferPool.tla with five args objects and a pool of four buffers: one    *)
(* object too many, so that the pool can run out.                           *)
EXTENDS BufferPool, TLC

\* Init, Next and the properties treat all args objects alike.
Symmetry == Permutations(Args)
=============================================================================
