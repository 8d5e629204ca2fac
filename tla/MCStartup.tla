------------------------------ MODULE MCStartup ------------------------------
(* A small instance of Startup for TLC. *)
EXTENDS Startup, TLC

CONSTANTS k1, k2, k3, k4, k5, c1, c2

\* A key for every start: the first one and one more per crash or failed statement.
MCKey == {k1, k2, k3, k4, k5}
MCClient == {c1, c2}
Symmetry == Permutations(MCKey) \cup Permutations(MCClient)
==============================================================================
