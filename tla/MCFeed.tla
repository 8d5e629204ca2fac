-------------------------------- MODULE MCFeed --------------------------------
(* A small instance of Feed for TLC: few timestamps, so that they collide. *)
EXTENDS Feed

MCTimestamp == {-1, 0, 1}
MCLimit == {0, 1, 3}
==============================================================================
