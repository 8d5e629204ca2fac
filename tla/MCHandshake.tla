----------------------------- MODULE MCHandshake -----------------------------
(* A small instance of Handshake for TLC. *)
EXTENDS Handshake

CONSTANTS k1, k2, k3, k4, k5, c1, c2

\* A key for every start: the first one and one more per crash or failed statement.
MCKey == {k1, k2, k3, k4, k5}
MCClient == {c1, c2}
==============================================================================
