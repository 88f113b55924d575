--------------------------- MODULE MCPortListener ---------------------------
(* PortListener.tla for a host that starts, stops and starts the server.    *)
EXTENDS PortListener, TLC

Symmetry == Permutations(Listeners) \cup Permutations(Ops) \cup Permutations(Clients)
=============================================================================
