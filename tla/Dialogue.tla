------------------------------- MODULE Dialogue -------------------------------
(***************************************************************************)
(* What a Noise connection promises its client, without bytes, buffers or  *)
(* channels: the requests are answered one by one in the order they were   *)
(* asked, until one of them cannot be decrypted; from then on none is      *)
(* answered.  The notifications are numbered through and pushed in between,*)
(* and the connection may end at any time.                                 *)
(***************************************************************************)
EXTENDS Naturals, Sequences

VARIABLES
  asked,   \* for each request of the client, whether it can be decrypted
  served,  \* how many of them the server is through with
  pushed,  \* how many notifications it has written
  said,    \* what it has written to the client
  over     \* the connection has ended

vars == <<asked, served, pushed, said, over>>

Init == asked = <<>> /\ served = 0 /\ pushed = 0 /\ said = <<>> /\ over = FALSE

\* Requests may be written to a connection that the server has given up.
Ask ==
  /\ \E sound \in BOOLEAN : asked' = Append(asked, sound)
  /\ UNCHANGED <<served, pushed, said, over>>

\* The next request can be decrypted, and so could all before it.
Answer ==
  /\ ~over
  /\ served < Len(asked)
  /\ \A i \in 1..served + 1 : asked[i]
  /\ served' = served + 1
  /\ said' = Append(said, <<"answer", served + 1>>)
  /\ UNCHANGED <<asked, pushed, over>>

Drop ==
  /\ ~over
  /\ served < Len(asked)
  /\ \E i \in 1..served + 1 : ~asked[i]
  /\ served' = served + 1
  /\ UNCHANGED <<asked, pushed, said, over>>

Push ==
  /\ ~over
  /\ pushed' = pushed + 1
  /\ said' = Append(said, <<"notification", pushed + 1>>)
  /\ UNCHANGED <<asked, served, over>>

End ==
  /\ over' = TRUE
  /\ UNCHANGED <<asked, served, pushed, said>>

Next == Ask \/ Answer \/ Drop \/ Push \/ End

Spec == Init /\ [][Next]_vars
==============================================================================
