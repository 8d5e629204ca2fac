--------------------------- MODULE NoiseConnection ---------------------------
(***************************************************************************)
(* One client connection after its handshake: the select! loop of          *)
(* handle_connection in server/src/noise.rs.  It reassembles the client's  *)
(* length-prefixed frames, answers each request, and in between pushes the *)
(* notifications that the posts of all connections send.                   *)
(*                                                                         *)
(* Bytes are counted, not represented: the client's stream is the sequence *)
(* of frames it has written, of which any part may have arrived, and       *)
(* read_buf holds the bytes from stream offset base to base + read_pos.    *)
(***************************************************************************)
EXTENDS Naturals, Sequences

CONSTANTS
  MaxMsg,       \* the largest frame length that two bytes encode: 65535
  BufSize,      \* the length of read_buf: 65536 + 2
  Payload,      \* the lengths of the frames a client writes
  Capacity,     \* notifications the broadcast channel keeps for a slow receiver
  Window,       \* messages the transport holds for a client that does not read
  MaxFrame,     \* bound: frames the client writes
  MaxPost       \* bound: posts of other clients while the connection is open

ASSUME BufferAssumption == MaxMsg \in Nat /\ BufSize \in Nat /\ BufSize > MaxMsg + 2
ASSUME PayloadAssumption == Payload \subseteq 0..MaxMsg
ASSUME ChannelAssumption ==
  Capacity \in Nat \ {0} /\ Window \in Nat \ {0} /\ MaxFrame \in Nat /\ MaxPost \in Nat

VARIABLES
  frames,    \* what the client has written: for each frame its stream offset, its
             \* length and its kind
  written,   \* the bytes it has written
  gone,      \* the client has closed its side
  base,      \* stream offset of read_buf[0]
  read_pos,  \* bytes in read_buf
  nonce,     \* frames decrypted so far: the receiving nonce of the transport
  phase,     \* where the loop is
  pending,   \* the message it is writing
  sent,      \* notifications ever sent on the channel since it subscribed
  received,  \* how many of them notification_rx has delivered
  out,       \* messages written to the client
  taken,     \* how many of them the client has read
  reason     \* why the connection ended

server == <<base, read_pos, nonce, phase, pending, received, out, reason>>
client == <<frames, written, gone>>
vars == <<client, sent, taken, server>>

\* A post is a request whose handler also sends a notification; the answer to a
\* large request does not fit a Noise message; a garbled frame fails to decrypt; a
\* malformed one decrypts to no NoiseApiRequest.
Kind == {"request", "post", "large", "garbled", "malformed"}
Frame == [at : Nat, len : Payload, kind : Kind]
Message == {"answer", "notification"} \X Nat
Phase == {"select", "drain", "routing", "answering", "notifying", "closed"}
Reason == {"none", "disconnected", "write_failed", "too_large", "channel_closed"}

\* The frame at the front of the buffer, as the number of frames before it.
IsFront(k) == k \in 0..Len(frames) - 1 /\ base = frames[k + 1].at

\* The two length bytes and the whole payload are in the buffer.
Complete(k) == read_pos >= 2 /\ read_pos >= 2 + frames[k + 1].len

TypeOK ==
  /\ frames \in Seq(Frame)
  /\ written \in Nat /\ gone \in BOOLEAN
  /\ base \in Nat /\ read_pos \in 0..BufSize
  /\ nonce \in Nat
  /\ phase \in Phase /\ pending \in {<<>>} \cup Message
  /\ sent \in Nat /\ received \in 0..sent
  /\ out \in Seq(Message) /\ taken \in 0..Len(out)
  /\ reason \in Reason

Init ==
  /\ frames = <<>> /\ written = 0 /\ gone = FALSE
  /\ base = 0 /\ read_pos = 0 /\ nonce = 0
  /\ phase = "select" /\ pending = <<>>
  /\ sent = 0 /\ received = 0
  /\ out = <<>> /\ taken = 0
  /\ reason = "none"
------------------------------------------------------------------------------
(* The client, and the other connections. *)

ClientWrite(len, kind) ==
  /\ ~gone
  /\ Len(frames) < MaxFrame
  /\ frames' = Append(frames, [at |-> written, len |-> len, kind |-> kind])
  /\ written' = written + 2 + len
  /\ UNCHANGED <<gone, sent, taken, server>>

ClientRead ==
  /\ ~gone
  /\ taken < Len(out)
  /\ taken' = taken + 1
  /\ UNCHANGED <<client, sent, server>>

ClientClose ==
  /\ ~gone
  /\ gone' = TRUE
  /\ UNCHANGED <<frames, written, sent, taken, server>>

\* A post stored for another connection: state.notifications.send.
OtherPost ==
  /\ sent < MaxPost
  /\ sent' = sent + 1
  /\ UNCHANGED <<client, taken, server>>
------------------------------------------------------------------------------
(* The read branch of select!. *)

Goto(next) == phase' = next

Close(why) ==
  /\ Goto("closed")
  /\ reason' = why

\* Mutant: read is given the whole buffer again, &mut read_buf[..].
ReadPastEnd(n) ==
  /\ phase = "select"
  /\ n \in 1..BufSize
  /\ base + read_pos + n <= written
  /\ read_pos' = read_pos + n
  /\ Goto("drain")
  /\ UNCHANGED <<client, sent, taken, base, nonce, pending, received, out, reason>>

\* Some of the bytes that have been written arrive.
Read(n) ==
  /\ phase = "select"
  /\ n \in 1..BufSize - read_pos
  /\ base + read_pos + n <= written
  /\ read_pos' = read_pos + n
  /\ Goto("drain")
  /\ UNCHANGED <<client, sent, taken, base, nonce, pending, received, out, reason>>

\* Ok(0) or an error: the peer is gone (a reset discards what was still to be read),
\* or read was given an empty slice.
ReadNothing ==
  /\ phase = "select"
  /\ gone \/ read_pos = BufSize
  /\ Close("disconnected")
  /\ UNCHANGED <<client, sent, taken, base, read_pos, nonce, pending, received, out>>

\* Mutants: copy_within(msg_len..read_pos, 0) forgets the length bytes, and so does
\* read_pos -= msg_len.
ShiftPayload(k) ==
  /\ base' = base + frames[k + 1].len
  /\ read_pos' = read_pos - frames[k + 1].len

ShiftKeepsLength(k) ==
  /\ base' = base + 2 + frames[k + 1].len
  /\ read_pos' = read_pos - frames[k + 1].len

\* read_buf.copy_within(2 + msg_len..read_pos, 0), and read_pos -= 2 + msg_len.
Shift(k) ==
  /\ base' = base + 2 + frames[k + 1].len
  /\ read_pos' = read_pos - (2 + frames[k + 1].len)

\* No complete frame is left: back to select!.
Await ==
  /\ phase = "drain"
  /\ \A k \in 0..Len(frames) - 1 : IsFront(k) => ~Complete(k)
  /\ Goto("select")
  /\ UNCHANGED <<client, sent, taken, base, read_pos, nonce, pending, received, out,
                 reason>>

\* Frame k + 1 was encrypted with nonce k; snow keeps its nonce when it refuses one.
Decrypts(k) == frames[k + 1].kind # "garbled" /\ nonce = k

\* Mutant: a frame that fails to decrypt is answered like one that fails to parse.
AnswerUndecrypted(k) ==
  /\ phase = "drain"
  /\ IsFront(k) /\ Complete(k) /\ ~Decrypts(k)
  /\ pending' = <<"answer", k + 1>>
  /\ Goto("answering")
  /\ UNCHANGED <<client, sent, taken, base, read_pos, nonce, received, out, reason>>

\* The frame is dropped without an answer.
DropFrame(k) ==
  /\ phase = "drain"
  /\ IsFront(k) /\ Complete(k) /\ ~Decrypts(k)
  /\ Shift(k)
  /\ UNCHANGED <<client, sent, taken, nonce, phase, pending, received, out, reason>>

\* The frame decrypts: "invalid request" is answered at once, a request is routed.
TakeFrame(k) ==
  /\ phase = "drain"
  /\ IsFront(k) /\ Complete(k) /\ Decrypts(k)
  /\ nonce' = nonce + 1
  /\ pending' = <<"answer", k + 1>>
  /\ Goto(IF frames[k + 1].kind = "malformed" THEN "answering" ELSE "routing")
  /\ UNCHANGED <<client, sent, taken, base, read_pos, received, out, reason>>

\* The handler returns; transport.write_message refuses what does not fit.
Routed(k) ==
  /\ phase = "routing"
  /\ IsFront(k)
  /\ sent' = IF frames[k + 1].kind = "post" THEN sent + 1 ELSE sent
  /\ IF frames[k + 1].kind = "large"
       THEN Close("too_large")
       ELSE Goto("answering") /\ UNCHANGED reason
  /\ UNCHANGED <<client, taken, base, read_pos, nonce, pending, received, out>>

\* Mutant: the loop over complete frames runs once per read.
WriteAnswerOnce(k) ==
  /\ phase = "answering"
  /\ IsFront(k)
  /\ Len(out) < taken + Window
  /\ out' = Append(out, pending)
  /\ pending' = <<>>
  /\ Shift(k)
  /\ Goto("select")
  /\ UNCHANGED <<client, sent, taken, nonce, received, reason>>

\* write_all waits until the transport takes the message.
WriteAnswer(k) ==
  /\ phase = "answering"
  /\ IsFront(k)
  /\ Len(out) < taken + Window
  /\ out' = Append(out, pending)
  /\ pending' = <<>>
  /\ Shift(k)
  /\ Goto("drain")
  /\ UNCHANGED <<client, sent, taken, nonce, received, reason>>
------------------------------------------------------------------------------
(* The notification branch of select!. *)

Notify ==
  /\ phase = "select"
  /\ received < sent
  /\ sent - received <= Capacity
  /\ received' = received + 1
  /\ pending' = <<"notification", received + 1>>
  /\ Goto("notifying")
  /\ UNCHANGED <<client, sent, taken, base, read_pos, nonce, out, reason>>

\* Mutant: Lagged is ignored, and the notifications it stands for are lost.
RecvSkips ==
  /\ phase = "select"
  /\ sent - received > Capacity
  /\ received' = sent - Capacity
  /\ UNCHANGED <<client, sent, taken, base, read_pos, nonce, phase, pending, out, reason>>

\* recv reports Lagged, the only error while AppState holds the sender.
RecvError ==
  /\ phase = "select"
  /\ sent - received > Capacity
  /\ Close("channel_closed")
  /\ UNCHANGED <<client, sent, taken, base, read_pos, nonce, pending, received, out>>

WriteNotification ==
  /\ phase = "notifying"
  /\ Len(out) < taken + Window
  /\ out' = Append(out, pending)
  /\ pending' = <<>>
  /\ Goto("select")
  /\ UNCHANGED <<client, sent, taken, base, read_pos, nonce, received, reason>>

\* Writing to a client that is gone succeeds until its side resets the connection.
WriteFails ==
  /\ phase \in {"answering", "notifying"}
  /\ gone
  /\ Close("write_failed")
  /\ UNCHANGED <<client, sent, taken, base, read_pos, nonce, pending, received, out>>
------------------------------------------------------------------------------
ServerStep ==
  \/ \E n \in 1..BufSize : Read(n)
  \/ \E k \in 0..Len(frames) - 1 :
       DropFrame(k) \/ TakeFrame(k) \/ Routed(k) \/ WriteAnswer(k)
  \/ ReadNothing \/ Await \/ Notify \/ RecvError \/ WriteNotification \/ WriteFails

Next ==
  \/ \E len \in Payload, kind \in Kind : ClientWrite(len, kind)
  \/ ClientRead \/ ClientClose \/ OtherPost
  \/ ServerStep

Spec == Init /\ [][Next]_vars

\* The task is scheduled, written bytes arrive, and the client, until it closes, reads
\* what it is sent.
FairSpec == Spec /\ WF_vars(ServerStep) /\ WF_vars(ClientRead)
------------------------------------------------------------------------------
(* Properties. *)

\* The buffer always starts at a frame: no sequence of reads, answers and dropped
\* frames makes the server take payload bytes for a length.
Aligned ==
  base = written \/ \E i \in DOMAIN frames : base = frames[i].at

\* The server gives a connection up for dead only when its client has closed it: the
\* slice handed to read is never empty, whatever is still in the buffer.
OnlyTheClientDisconnects == reason \in {"disconnected", "write_failed"} => gone

\* Answers leave in the order of the requests and notifications in the order of the
\* posts, neither repeated nor skipped, however the two are interleaved.
InOrder ==
  \A n \in DOMAIN out :
    /\ out[n][2] >= 1
    /\ out[n][2] > 1 => \E m \in 1..n - 1 : out[m] = <<out[n][1], out[n][2] - 1>>
    /\ \A m \in 1..n - 1 : out[m] # out[n]

\* A frame that can be decrypted is answered, or the connection ends.
FramesAreAnswered ==
  \A k \in 1..MaxFrame :
    (k <= Len(frames) /\ \A i \in 1..k : i <= Len(frames) => frames[i].kind # "garbled")
      ~> (phase = "closed" \/ \E i \in DOMAIN out : out[i] = <<"answer", k>>)

\* The buffer starts after frame k.
After(k) == IsFront(k) \/ (k = Len(frames) /\ base = written)

\* The message in hand is of that kind.
Preparing(what) == pending \in {what} \X Nat

\* The connection as Dialogue sees it; Answered is what nonce counts before the answer
\* in hand is written.
Asked == [i \in DOMAIN frames |-> frames[i].kind # "garbled"]
Served == CHOOSE k \in 0..Len(frames) : After(k)
Answered == IF Preparing("answer") THEN nonce - 1 ELSE nonce
Pushed == IF Preparing("notification") THEN received - 1 ELSE received
Over == phase = "closed"

Promised == INSTANCE Dialogue WITH
  asked <- Asked, served <- Served, pushed <- Pushed, said <- out, over <- Over

\* The loop keeps what Dialogue promises: a frame that cannot be decrypted silences the
\* requests after it and nothing else, and no cut of the stream into reads, no slow
\* client and no notification in between loses, repeats or reorders an answer.
ImplementsDialogue == Promised!Spec
==============================================================================
