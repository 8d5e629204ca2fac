------------------------------- MODULE MCThread -------------------------------
(* A small instance of Thread for TLC. *)
EXTENDS Thread

MCTimestamp == {0, 1}
===============================================================================
