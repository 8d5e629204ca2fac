------------------------------ MODULE MCContent ------------------------------
(* Small instances of Content for TLC. *)
EXTENDS Content, TLC

CONSTANTS d1, garbage, t1, t2

\* A well-formed key and bytes that are no point.
MCUncompressed == {d1}
MCPoint == {d1}
MCDevice == {d1, garbage}
MCTask == {t1, t2}
MCBlobOfInteger == {"error", "panic"}

Symmetry == Permutations(MCTask)
==============================================================================
