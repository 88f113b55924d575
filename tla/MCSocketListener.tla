-------------------------- MODULE MCSocketListener --------------------------
(* SocketListener.tla with a single listener that anyone may start and stop.*)
EXTENDS SocketListener, TLC

Symmetry == Permutations(Ops) \cup Permutations(Clients)
=============================================================================
