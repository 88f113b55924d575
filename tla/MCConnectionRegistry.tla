-------------------------- MODULE MCConnectionRegistry ------------------------
(* ConnectionRegistry.tla with connections that are interchangeable.         *)
EXTENDS ConnectionRegistry, TLC

Symmetry == Permutations(Connections)
=============================================================================
