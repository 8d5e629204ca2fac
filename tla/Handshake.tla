------------------------------ MODULE Handshake ------------------------------
(***************************************************************************)
(* The Noise NK handshake that begins every connection: handshake in       *)
(* server/src/noise.rs, and the accept loop of server/src/main.rs that     *)
(* runs it in a task per connection, over the starts, crashes and failed   *)
(* statements of Startup.                                                  *)
(*                                                                         *)
(* Message 1 is a point of PointSize bytes and a tag of TagSize bytes that *)
(* only matches under the server key and the prologue (the trusted APK     *)
(* key) that it was made with.  TCP hands it over in any segments.         *)
(***************************************************************************)
EXTENDS Startup

CONSTANTS PointSize, TagSize

ASSUME SizeAssumption == PointSize \in Nat \ {0} /\ TagSize \in Nat \ {0}

VARIABLES
  link,    \* per client, where its connection stands
  aim,     \* the server key its message 1 is made for
  ours,    \* that message is made with the prologue the server uses
  offset   \* the bytes of it that the server has read

links == <<link, aim, ours, offset>>
handshakeVars == <<vars, links>>

Link == {"closed", "reading", "answering", "open", "refused"}
MsgSize == PointSize + TagSize

\* The loop reads on only for the rest of the point, so that read always has room.
ReadingIsShort == \A c \in Client : link[c] = "reading" => offset[c] < PointSize

HandshakeTypeOK ==
  /\ TypeOK
  /\ link \in [Client -> Link]
  /\ aim \in [Client -> drawn \cup {NoKey}]
  /\ ours \in [Client -> BOOLEAN]
  /\ offset \in [Client -> 0..MsgSize]
  /\ ReadingIsShort

NoLinks ==
  /\ link = [c \in Client |-> "closed"]
  /\ aim = [c \in Client |-> NoKey]
  /\ ours = [c \in Client |-> FALSE]
  /\ offset = [c \in Client |-> 0]

HandshakeInit == Init /\ NoLinks
------------------------------------------------------------------------------
\* A client that has registered connects, perhaps built for another APK key, and
\* sends its message 1; accept spawns a task.
Connect(c, trusted) ==
  /\ phase = "serving"
  /\ link[c] \in {"closed", "refused"}
  /\ known[c] # NoKey
  /\ link' = [link EXCEPT ![c] = "reading"]
  /\ aim' = [aim EXCEPT ![c] = known[c]]
  /\ ours' = [ours EXCEPT ![c] = trusted]
  /\ offset' = [offset EXCEPT ![c] = 0]
  /\ UNCHANGED vars

\* Mutant: the responder is built without its prologue.
AnswerAnyApp(c, bytes) ==
  CASE bytes < PointSize -> "reading"
    [] bytes >= PointSize -> IF bytes = MsgSize /\ aim[c] = sk THEN "answering" ELSE "refused"

\* Mutant: the task ends on any error, and message 1 must come in one segment.
RefuseShortMessage(c, bytes) ==
  IF bytes = MsgSize /\ ours[c] /\ aim[c] = sk THEN "answering" ELSE "refused"

\* Mutant: the loop goes on after any error, Error::Decrypt included.
ReadOnAfterAnyError(c, bytes) ==
  IF bytes = MsgSize /\ ours[c] /\ aim[c] = sk THEN "answering" ELSE "reading"

\* read_message of the bytes read so far: Error::Input while the point is incomplete,
\* and the loop goes on; Error::Decrypt, and the task ends, as soon as the rest is
\* not the whole and right tag, part of it included.
ReadMessage1(c, bytes) ==
  CASE bytes < PointSize -> "reading"
    [] bytes >= PointSize ->
         IF bytes = MsgSize /\ ours[c] /\ aim[c] = sk THEN "answering" ELSE "refused"

ReadSegment(c, n) ==
  /\ link[c] = "reading"
  /\ n \in 1..MsgSize - offset[c]
  /\ offset' = [offset EXCEPT ![c] = @ + n]
  /\ link' = [link EXCEPT ![c] = ReadMessage1(c, offset[c] + n)]
  /\ UNCHANGED <<vars, aim, ours>>

\* write_message, write_all of message 2, into_transport_mode.
Answer(c) ==
  /\ link[c] = "answering"
  /\ link' = [link EXCEPT ![c] = "open"]
  /\ UNCHANGED <<vars, aim, ours, offset>>

\* The task returns, and the stream is closed.
Closed(c) ==
  /\ link' = [link EXCEPT ![c] = "closed"]
  /\ aim' = [aim EXCEPT ![c] = NoKey]
  /\ ours' = [ours EXCEPT ![c] = FALSE]
  /\ offset' = [offset EXCEPT ![c] = 0]
  /\ UNCHANGED vars

\* Mutant: the time is limited for the first read only.
FirstTimeout(c) == link[c] = "reading" /\ offset[c] = 0 /\ Closed(c)

\* 10 s have passed since the last segment.
Timeout(c) == link[c] = "reading" /\ Closed(c)

\* The client is gone: read returns 0 or an error, or write_all an error; on an open
\* connection it is handle_connection's loop that ends.
Hangup(c) == link[c] \in {"reading", "answering", "open"} /\ Closed(c)

\* What the task does without its client.
HandshakeStep(c) == Answer(c) \/ Timeout(c)

\* A crash takes every connection with it; so does an error of accept, which ends main
\* through try_join!.
CrashLinks ==
  /\ Crash
  /\ link' = [c \in Client |-> "closed"]
  /\ aim' = [c \in Client |-> NoKey]
  /\ ours' = [c \in Client |-> FALSE]
  /\ offset' = [c \in Client |-> 0]

HandshakeNext ==
  \/ (Boot \/ Fault) /\ UNCHANGED links
  \/ CrashLinks
  \/ \E c \in Client : \/ RegisterClient(c) /\ UNCHANGED links
                       \/ Hangup(c) \/ HandshakeStep(c)
                       \/ \E n \in 1..MsgSize : ReadSegment(c, n)
                       \/ \E trusted \in BOOLEAN : Connect(c, trusted)

HandshakeSpec == HandshakeInit /\ [][HandshakeNext]_handshakeVars

\* main as in Startup; each connection's task runs, and its timer, if no segment comes,
\* fires.  Neither waits for the task of another connection, and segments need not come.
HandshakeFairSpec ==
  /\ HandshakeSpec
  /\ WF_handshakeVars(Boot /\ UNCHANGED links)
  /\ \A c \in Client : WF_handshakeVars(HandshakeStep(c))
------------------------------------------------------------------------------
(* Properties. *)

\* A handshake is refused for one of three reasons only: another app's prologue, a
\* segment that ends in the tag, or a key that a failed statement took from the
\* server; crashes and restarts between registration and handshake are none.
RefusedForCause ==
  \A c \in Client : link[c] = "refused" =>
    \/ ~ours[c]
    \/ offset[c] \in PointSize..MsgSize - 1
    \/ aim[c] # stored /\ faults > 0

\* Whoever has a connection made it for the key that is in the database, with the
\* prologue of the trusted APK, with the server that is running.
OpenForTheIdentity ==
  \A c \in Client : link[c] \in {"answering", "open"} =>
    phase = "serving" /\ ours[c] /\ aim[c] = stored

\* Every handshake ends, in a connection or without one, even if the client stops in
\* the middle of its message.
HandshakesEnd ==
  \A c \in Client : link[c] \in {"reading", "answering"} ~> link[c] \in {"open", "refused", "closed"}
==============================================================================
