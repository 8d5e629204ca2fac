-------------------------- MODULE MCNoiseConnection --------------------------
(* Small instances of NoiseConnection for TLC. *)
EXTENDS NoiseConnection

\* The empty frame and the largest one that the length bytes can announce.
MCPayload == {0, MaxMsg}
==============================================================================
