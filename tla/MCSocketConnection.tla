------------------------- MODULE MCSocketConnection -------------------------
(* SocketConnection.tla on small pools, for TLC.                            *)
EXTENDS SocketConnection, TLC

\* Connections and args objects are interchangeable, among themselves.
Symmetry == Permutations(Connections) \cup Permutations(Args)
=============================================================================
