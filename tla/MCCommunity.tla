----------------------------- MODULE MCCommunity -----------------------------
(* Small instances of Community for TLC. *)
EXTENDS Community

CONSTANTS d1, c1, garbage, t1, t2

\* A well-formed key, a compressed one and bytes that are no point.
MCUncompressed == {d1}
MCPoint == {d1, c1}
MCDevice == {d1, c1, garbage}
MCTask == {t1, t2}
MCBlobOfInteger == {"error", "panic"}
==============================================================================
