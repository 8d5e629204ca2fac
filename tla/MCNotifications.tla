--------------------------- MODULE MCNotifications ---------------------------
(* A small instance of Notifications for TLC. *)
EXTENDS Notifications

CONSTANTS reader, sleeper

\* A client that reads what it is sent and one that may stop reading at any time.
MCClient == {reader, sleeper}
MCReader == {reader}

\* The second post is dated before the first.
MCStamp == <<2, 1>>
==============================================================================
