----------------------------- MODULE MCAdminTui -----------------------------
(* A small instance of AdminTui for TLC. *)
EXTENDS AdminTui, TLC

CONSTANTS d1, d2

MCDevice == {d1, d2}

\* Two reports are filed in the same second.
MCReportedAt == <<1, 2, 2>>

Symmetry == Permutations(MCDevice)
==============================================================================
