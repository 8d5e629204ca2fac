----------------------------- MODULE NoiseProofs -----------------------------
(***************************************************************************)
(* Proofs about NoiseConnection: whatever the sizes of the buffer and of   *)
(* the frames, however the stream is cut into reads, and however many      *)
(* notifications are pushed in between, read_buf stays aligned to a frame  *)
(* and never fills up.                                                     *)
(***************************************************************************)
EXTENDS NoiseConnection, SequenceTheorems, TLAPS

\* The stream offset after frame i.
End(i) == frames[i].at + 2 + frames[i].len

\* The frames follow each other in the stream.
Ordered ==
  /\ \A i \in 1..Len(frames) :
       /\ End(i) <= written
       /\ End(i) = written \/ \E j \in 1..Len(frames) : End(i) = frames[j].at
  /\ \A i, j \in 1..Len(frames) : i < j => End(i) <= frames[j].at

\* The server has no byte that was not written.
Buffered == base + read_pos <= written

\* select! is reached only when no complete frame is left, and the frame that is being
\* served is complete.
FrontFrame ==
  /\ phase \in {"select", "notifying"} =>
       \A k \in 0..Len(frames) - 1 : IsFront(k) => ~Complete(k)
  /\ phase \in {"routing", "answering"} =>
       /\ read_pos >= 2
       /\ \A k \in 0..Len(frames) - 1 : IsFront(k) => Complete(k)

\* What is about to be written is a message.
Prepared == phase \in {"routing", "answering", "notifying"} => pending \in Message

Inv ==
  /\ TypeOK
  /\ Ordered
  /\ Aligned
  /\ Buffered
  /\ FrontFrame
  /\ Prepared
  /\ OnlyTheClientDisconnects

\* A payload fits the buffer together with its length bytes, and a byte is left.
LEMMA PayloadIsNat == \A p \in Payload : p \in Nat /\ p + 2 < BufSize
BY BufferAssumption, PayloadAssumption

\* Appending a frame at the end of the stream keeps the frames and the buffer in order.
LEMMA ClientWriteKeeps ==
  ASSUME Inv, NEW len \in Payload, NEW kind \in Kind, ClientWrite(len, kind)
  PROVE  Inv'
<1> DEFINE f == [at |-> written, len |-> len, kind |-> kind]
<1> USE BufferAssumption, PayloadIsNat
<1>1. /\ frames \in Seq(Frame) /\ written \in Nat /\ base \in Nat /\ read_pos \in Nat
      /\ len \in Nat
  BY DEF Inv, TypeOK
<1>2. f \in Frame
  BY <1>1 DEF Frame
<1>3. /\ frames' = Append(frames, f)
      /\ written' = written + 2 + len
      /\ UNCHANGED <<gone, sent, taken, server>>
  BY DEF ClientWrite
<1>4. /\ frames' \in Seq(Frame)
      /\ Len(frames') = Len(frames) + 1
      /\ \A i \in 1..Len(frames) : frames'[i] = frames[i]
      /\ frames'[Len(frames) + 1] = f
  BY <1>1, <1>2, <1>3, AppendProperties
<1>5. \A i \in 1..Len(frames) : frames[i].at \in Nat /\ frames[i].len \in Nat
  <2> TAKE i \in 1..Len(frames)
  <2>1. frames[i] \in Frame
    BY <1>1
  <2>2. frames[i].at \in Nat /\ frames[i].len \in Payload
    BY <2>1 DEF Frame
  <2> QED
    BY <2>2, PayloadIsNat
<1>6. TypeOK'
  BY <1>1, <1>3, <1>4 DEF Inv, TypeOK, server
<1>7. Ordered'
  <2>1. \A i \in 1..Len(frames) : End(i)' = End(i) /\ End(i) <= written
    BY <1>4 DEF End, Inv, Ordered
  <2>2. \A i : i = Len(frames) + 1 => End(i)' = written'
    BY <1>3, <1>4 DEF End
  <2>3. Len(frames) \in Nat
    BY <1>1
  <2>4. ASSUME NEW i \in 1..Len(frames')
        PROVE  /\ End(i)' <= written'
               /\ End(i)' = written' \/ \E j \in 1..Len(frames') : End(i)' = frames'[j].at
    <3>1. CASE i = Len(frames) + 1
      BY <3>1, <2>2, <1>1, <1>3
    <3>2. CASE i \in 1..Len(frames)
      <4>1. End(i)' = End(i) /\ End(i) <= written /\ End(i) \in Nat
        <5>1. \A m, n \in Nat : m + 2 + n \in Nat
          OBVIOUS
        <5> QED
          BY <5>1, <3>2, <2>1, <1>5 DEF End
      <4>2. CASE End(i) = written
        BY <4>1, <4>2, <1>1, <1>3, <1>4, <2>3
      <4>3. CASE \E j \in 1..Len(frames) : End(i) = frames[j].at
        BY <4>1, <4>3, <1>1, <1>3, <1>4, <2>3
      <4> QED
        BY <4>2, <4>3, <3>2 DEF Inv, Ordered
    <3> QED
      BY <3>1, <3>2, <1>4, <2>3
  <2>5. ASSUME NEW i \in 1..Len(frames'), NEW j \in 1..Len(frames'), i < j
        PROVE  End(i)' <= frames'[j].at
    <3>1. i \in 1..Len(frames)
      BY <2>5, <2>3, <1>4
    <3>2. CASE j = Len(frames) + 1
      BY <3>1, <3>2, <2>1, <1>4
    <3>3. CASE j \in 1..Len(frames)
      BY <3>1, <3>3, <2>1, <2>5, <1>4 DEF Inv, Ordered
    <3> QED
      BY <3>2, <3>3, <1>4, <2>3
  <2> QED
    BY <2>4, <2>5 DEF Ordered
<1>8. Aligned'
  <2>1. CASE base = written
    BY <2>1, <1>1, <1>3, <1>4 DEF Aligned, server
  <2>2. CASE \E i \in DOMAIN frames : base = frames[i].at
    <3>1. PICK i \in 1..Len(frames) : base = frames[i].at
      BY <2>2, <1>1
    <3>2. i \in DOMAIN frames' /\ frames'[i].at = base'
      BY <3>1, <1>1, <1>3, <1>4 DEF server
    <3> QED
      BY <3>2 DEF Aligned
  <2> QED
    BY <2>1, <2>2 DEF Inv, Aligned
<1>9. Buffered'
  BY <1>1, <1>3 DEF Inv, Buffered, server
<1>10. FrontFrame'
  <2>1. ASSUME NEW k \in 0..Len(frames') - 1, IsFront(k)'
        PROVE  \/ k \in 0..Len(frames) - 1 /\ IsFront(k) /\ (Complete(k)' <=> Complete(k))
               \/ k = Len(frames) /\ ~Complete(k)' /\ base = written
    <3>1. CASE k = Len(frames)
      BY <3>1, <2>1, <1>1, <1>3, <1>4 DEF IsFront, Complete, Inv, Buffered, server
    <3>2. CASE k \in 0..Len(frames) - 1
      BY <3>2, <2>1, <1>1, <1>3, <1>4 DEF IsFront, Complete, server
    <3> QED
      BY <3>1, <3>2, <1>1, <1>4
  <2>2. phase' = phase
    BY <1>3 DEF server
  <2>3. ASSUME phase \in {"routing", "answering"}
        PROVE  base # written
    BY <2>3, <1>1 DEF Inv, Buffered, FrontFrame
  <2> QED
    <3>1. read_pos' = read_pos
      BY <1>3 DEF server
    <3>2. CASE phase \in {"select", "notifying"}
      BY <3>2, <2>1, <2>2 DEF Inv, FrontFrame
    <3>3. CASE phase \in {"routing", "answering"}
      BY <3>1, <3>3, <2>1, <2>2, <2>3 DEF Inv, FrontFrame
    <3>4. CASE phase \notin {"select", "notifying", "routing", "answering"}
      BY <3>4, <2>2 DEF FrontFrame
    <3> QED
      BY <3>2, <3>3, <3>4
<1>11. Prepared' /\ OnlyTheClientDisconnects'
  BY <1>3 DEF Inv, Prepared, OnlyTheClientDisconnects, server
<1> QED
  BY <1>6, <1>7, <1>8, <1>9, <1>10, <1>11 DEF Inv

\* The frames are numbers all through.
LEMMA FrameNumbers ==
  ASSUME Inv, NEW i \in 1..Len(frames)
  PROVE  frames[i].at \in Nat /\ frames[i].len \in Nat /\ frames[i].len + 2 < BufSize
<1>1. frames[i] \in Frame
  BY DEF Inv, TypeOK
<1> QED
  BY <1>1, PayloadIsNat DEF Frame

\* A frame ends after it starts, and within the stream.
LEMMA FrameSpan ==
  ASSUME Inv, NEW i \in 1..Len(frames)
  PROVE  /\ frames[i].at \in Nat
         /\ End(i) \in Nat
         /\ End(i) > frames[i].at
         /\ End(i) <= written
<1>1. \A m, n \in Nat : m + 2 + n \in Nat /\ m + 2 + n > m
  OBVIOUS
<1>2. frames[i].at \in Nat /\ frames[i].len \in Nat
  BY FrameNumbers
<1>3. End(i) \in Nat /\ End(i) > frames[i].at
  BY <1>1, <1>2 DEF End
<1>4. End(i) <= written
  BY DEF Inv, Ordered
<1> QED
  BY <1>2, <1>3, <1>4

\* Only one frame is at the front of the buffer.
LEMMA FrontIsUnique ==
  ASSUME Inv, NEW k \in 0..Len(frames) - 1, NEW j \in 0..Len(frames) - 1,
         IsFront(k), IsFront(j)
  PROVE  k = j
<1>1. Len(frames) \in Nat
  BY DEF Inv, TypeOK
<1>2. /\ k + 1 \in 1..Len(frames) /\ j + 1 \in 1..Len(frames)
      /\ frames[k + 1].at = base /\ frames[j + 1].at = base
  BY <1>1 DEF IsFront
<1>3. /\ k < j => End(k + 1) <= frames[j + 1].at
      /\ j < k => End(j + 1) <= frames[k + 1].at
  BY <1>1, <1>2 DEF Inv, Ordered
<1>4. End(k + 1) > base /\ End(j + 1) > base
  BY <1>2, FrameSpan
<1>5. ~(k < j) /\ ~(j < k)
  <2>1. \A m, n \in Nat : ~(m > n /\ m <= n)
    OBVIOUS
  <2>2. End(k + 1) \in Nat /\ End(j + 1) \in Nat /\ base \in Nat
    BY <1>2, FrameSpan
  <2> QED
    BY <2>1, <2>2, <1>2, <1>3, <1>4
<1> QED
  BY <1>1, <1>5

\* The frames stay in order as long as the client writes nothing.
LEMMA OrderedUnchanged ==
  ASSUME Inv, UNCHANGED client
  PROVE  Ordered'
BY DEF Inv, Ordered, End, client

\* Taking a complete frame off the buffer leaves the buffer at the next frame.
LEMMA ShiftKeeps ==
  ASSUME Inv, NEW k \in 0..Len(frames) - 1, IsFront(k), Complete(k), Shift(k),
         UNCHANGED client
  PROVE  base' \in Nat /\ read_pos' \in 0..BufSize /\ Aligned' /\ Buffered'
<1>1. /\ Len(frames) \in Nat /\ written \in Nat /\ base \in Nat /\ read_pos \in 0..BufSize
      /\ base + read_pos <= written
  BY DEF Inv, TypeOK, Buffered
<1>2. k + 1 \in 1..Len(frames)
  BY <1>1
<1>3. frames[k + 1].at \in Nat /\ frames[k + 1].len \in Nat
  BY <1>2, FrameNumbers
<1>4. /\ base' = End(k + 1)
      /\ base' = base + 2 + frames[k + 1].len
      /\ read_pos' = read_pos - (2 + frames[k + 1].len)
  BY <1>3 DEF Shift, IsFront, End
<1>5. read_pos >= 2 + frames[k + 1].len
  BY DEF Complete
<1>6. base' = written \/ \E j \in 1..Len(frames) : base' = frames[j].at
  BY <1>2, <1>4 DEF Inv, Ordered
<1>7. DOMAIN frames = 1..Len(frames)
  BY DEF Inv, TypeOK
<1>8. Aligned'
  BY <1>6, <1>7 DEF Aligned, client
<1>9. base' \in Nat /\ read_pos' \in 0..BufSize
  <2>1. base' \in Nat
    BY <1>1, <1>3, <1>4
  <2>2. \A n \in Nat, p \in 0..BufSize : p >= n => p - n \in 0..BufSize
    BY BufferAssumption
  <2>3. 2 + frames[k + 1].len \in Nat
    BY <1>3
  <2> QED
    BY <1>1, <1>4, <1>5, <2>1, <2>2, <2>3
<1>10. base' + read_pos' = base + read_pos
  <2>1. \A b, r, n \in Nat : (b + 2 + n) + (r - (2 + n)) = b + r
    OBVIOUS
  <2>2. base \in Nat /\ read_pos \in Nat
    BY <1>1, BufferAssumption
  <2>3. (base + 2 + frames[k + 1].len) + (read_pos - (2 + frames[k + 1].len)) = base + read_pos
    BY <2>1, <2>2, <1>3
  <2> QED
    BY <2>3, <1>4
<1>11. Buffered'
  BY <1>1, <1>10 DEF Buffered, client
<1> QED
  BY <1>8, <1>9, <1>11

\* At select! there is always room in the buffer.
LEMMA RoomToRead ==
  ASSUME Inv, phase = "select"
  PROVE  read_pos < BufSize
<1>1. /\ Len(frames) \in Nat /\ written \in Nat /\ base \in Nat /\ read_pos \in Nat
      /\ DOMAIN frames = 1..Len(frames)
      /\ base + read_pos <= written
  BY BufferAssumption DEF Inv, TypeOK, Buffered
<1>2. CASE base = written
  BY <1>1, <1>2, BufferAssumption
<1>3. CASE \E i \in DOMAIN frames : base = frames[i].at
  <2>1. PICK i \in 1..Len(frames) : base = frames[i].at
    BY <1>1, <1>3
  <2>2. frames[i].len \in Nat /\ frames[i].len + 2 < BufSize
    BY FrameNumbers
  <2>3. i - 1 \in 0..Len(frames) - 1 /\ (i - 1) + 1 = i
    BY <1>1
  <2>4. IsFront(i - 1)
    BY <2>1, <2>3 DEF IsFront
  <2>5. ~Complete(i - 1)
    BY <2>3, <2>4 DEF Inv, FrontFrame
  <2>6. read_pos < 2 \/ read_pos < 2 + frames[i].len
    BY <2>2, <2>3, <2>5, <1>1 DEF Complete
  <2> QED
    BY <2>2, <2>6, <1>1, BufferAssumption
<1> QED
  BY <1>2, <1>3 DEF Inv, Aligned

\* What the client, the other connections and the loop do keeps Inv.
LEMMA InvStep ==
  ASSUME Inv, Next
  PROVE  Inv'
<1> USE BufferAssumption
<1>1. CASE \E len \in Payload, kind \in Kind : ClientWrite(len, kind)
  BY <1>1, ClientWriteKeeps
<1>2. CASE ClientRead \/ ClientClose \/ OtherPost
  <2>1. UNCHANGED <<frames, written, base, read_pos, nonce, phase, pending, received, out, reason>>
    BY <1>2 DEF ClientRead, ClientClose, OtherPost, client, server
  <2>2. TypeOK'
    <3>1. /\ frames \in Seq(Frame) /\ out \in Seq(Message)
          /\ sent \in Nat /\ received \in 0..sent /\ taken \in 0..Len(out) /\ gone \in BOOLEAN
      BY DEF Inv, TypeOK
    <3>2. gone' \in BOOLEAN /\ sent' \in Nat /\ received' \in 0..sent'
      <4>1. gone' = gone \/ gone' = TRUE
        BY <1>2 DEF ClientRead, ClientClose, OtherPost, client
      <4>2. gone' \in BOOLEAN
        BY <3>1, <4>1, Zenon
      <4>3. received' = received /\ (sent' = sent \/ sent' = sent + 1)
        BY <1>2, <2>1 DEF ClientRead, ClientClose, OtherPost
      <4> QED
        BY <3>1, <4>2, <4>3
    <3>3. taken' \in 0..Len(out')
      <4>1. Len(out) \in Nat /\ out' = out
        BY <2>1, <3>1
      <4>2. taken' = taken \/ (taken < Len(out) /\ taken' = taken + 1)
        BY <1>2 DEF ClientRead, ClientClose, OtherPost
      <4> QED
        BY <3>1, <4>1, <4>2
    <3> QED
      BY <2>1, <3>2, <3>3 DEF Inv, TypeOK
  <2>3. Ordered' /\ Aligned' /\ Buffered' /\ FrontFrame' /\ Prepared'
    BY <2>1 DEF Inv, Ordered, End, Aligned, Buffered, FrontFrame, IsFront, Complete, Prepared
  <2>4. OnlyTheClientDisconnects'
    BY <1>2, <2>1 DEF ClientRead, ClientClose, OtherPost, client, server, Inv,
      OnlyTheClientDisconnects
  <2> QED
    BY <2>2, <2>3, <2>4 DEF Inv
<1>3. CASE \E n \in 1..BufSize : Read(n)
  <2>1. PICK n \in 1..BufSize : Read(n)
    BY <1>3
  <2>2. TypeOK'
    BY <2>1 DEF Read, Goto, Inv, TypeOK, Phase, client
  <2>3. Ordered'
    BY <2>1, OrderedUnchanged DEF Read
  <2>4. Aligned' /\ Buffered' /\ FrontFrame' /\ Prepared' /\ OnlyTheClientDisconnects'
    BY <2>1 DEF Read, Goto, Inv, TypeOK, client, Aligned, Buffered, FrontFrame, Prepared,
      OnlyTheClientDisconnects
  <2> QED
    BY <2>2, <2>3, <2>4 DEF Inv
<1>4. CASE \E k \in 0..Len(frames) - 1 : DropFrame(k)
  <2>1. PICK k \in 0..Len(frames) - 1 : DropFrame(k)
    BY <1>4
  <2>2. base' \in Nat /\ read_pos' \in 0..BufSize /\ Aligned' /\ Buffered'
    BY <2>1, ShiftKeeps DEF DropFrame
  <2>3. TypeOK'
    BY <2>1, <2>2 DEF DropFrame, Inv, TypeOK, client
  <2>4. Ordered'
    BY <2>1, OrderedUnchanged DEF DropFrame
  <2>5. FrontFrame' /\ Prepared' /\ OnlyTheClientDisconnects'
    BY <2>1 DEF DropFrame, Inv, client, FrontFrame, Prepared, OnlyTheClientDisconnects
  <2> QED
    BY <2>2, <2>3, <2>4, <2>5 DEF Inv
<1>5. CASE \E k \in 0..Len(frames) - 1 : TakeFrame(k)
  <2>1. PICK k \in 0..Len(frames) - 1 : TakeFrame(k)
    BY <1>5
  <2>2. Len(frames) \in Nat
    BY DEF Inv, TypeOK
  <2>3. pending' \in Message
    BY <2>1, <2>2 DEF TakeFrame, Message
  <2>4. TypeOK'
    BY <2>1, <2>3 DEF TakeFrame, Goto, Inv, TypeOK, Phase, client
  <2>5. Ordered'
    BY <2>1, OrderedUnchanged DEF TakeFrame
  <2>6. \A j \in 0..Len(frames) - 1 : IsFront(j) => Complete(j)
    BY <2>1, FrontIsUnique DEF TakeFrame
  <2>7. read_pos >= 2
    BY <2>1 DEF TakeFrame, Complete
  <2>8. FrontFrame'
    BY <2>1, <2>6, <2>7 DEF TakeFrame, Goto, client, FrontFrame, IsFront, Complete
  <2>9. Aligned' /\ Buffered' /\ Prepared' /\ OnlyTheClientDisconnects'
    BY <2>1, <2>3 DEF TakeFrame, Inv, client, Aligned, Buffered, Prepared,
      OnlyTheClientDisconnects
  <2> QED
    BY <2>4, <2>5, <2>8, <2>9 DEF Inv
<1>6. CASE \E k \in 0..Len(frames) - 1 : Routed(k)
  <2>1. PICK k \in 0..Len(frames) - 1 : Routed(k)
    BY <1>6
  <2>2. TypeOK'
    BY <2>1 DEF Routed, Goto, Close, Inv, TypeOK, Phase, Reason, client
  <2>3. Ordered'
    BY <2>1, OrderedUnchanged DEF Routed
  <2>4. FrontFrame'
    BY <2>1 DEF Routed, Goto, Close, client, Inv, FrontFrame, IsFront, Complete
  <2>5. Aligned' /\ Buffered' /\ Prepared' /\ OnlyTheClientDisconnects'
    BY <2>1 DEF Routed, Goto, Close, Inv, client, Aligned, Buffered, Prepared,
      OnlyTheClientDisconnects
  <2> QED
    BY <2>2, <2>3, <2>4, <2>5 DEF Inv
<1>7. CASE \E k \in 0..Len(frames) - 1 : WriteAnswer(k)
  <2>1. PICK k \in 0..Len(frames) - 1 : WriteAnswer(k)
    BY <1>7
  <2>2. Complete(k)
    BY <2>1 DEF WriteAnswer, Inv, FrontFrame
  <2>3. base' \in Nat /\ read_pos' \in 0..BufSize /\ Aligned' /\ Buffered'
    BY <2>1, <2>2, ShiftKeeps DEF WriteAnswer
  <2>4. out \in Seq(Message) /\ pending \in Message /\ taken \in 0..Len(out)
    BY <2>1 DEF WriteAnswer, Inv, Prepared, TypeOK
  <2>5. out' \in Seq(Message) /\ taken' \in 0..Len(out')
    BY <2>1, <2>4, AppendProperties DEF WriteAnswer
  <2>6. TypeOK'
    BY <2>1, <2>3, <2>5 DEF WriteAnswer, Goto, Inv, TypeOK, Phase, client
  <2>7. Ordered'
    BY <2>1, OrderedUnchanged DEF WriteAnswer
  <2>8. FrontFrame' /\ Prepared' /\ OnlyTheClientDisconnects'
    BY <2>1 DEF WriteAnswer, Goto, Inv, client, FrontFrame, Prepared, OnlyTheClientDisconnects
  <2> QED
    BY <2>3, <2>6, <2>7, <2>8 DEF Inv
<1>8. CASE ReadNothing
  <2>1. gone
    BY <1>8, RoomToRead DEF ReadNothing, Inv, TypeOK
  <2>2. TypeOK' /\ OnlyTheClientDisconnects'
    BY <1>8, <2>1 DEF ReadNothing, Close, Goto, Inv, TypeOK, Phase, Reason, client,
      OnlyTheClientDisconnects
  <2>3. Ordered'
    BY <1>8, OrderedUnchanged DEF ReadNothing
  <2>4. Aligned' /\ Buffered' /\ FrontFrame' /\ Prepared'
    BY <1>8 DEF ReadNothing, Close, Goto, Inv, client, Aligned, Buffered, FrontFrame, Prepared
  <2> QED
    BY <2>2, <2>3, <2>4 DEF Inv
<1>9. CASE Await
  <2>1. TypeOK'
    BY <1>9 DEF Await, Goto, Inv, TypeOK, Phase, client
  <2>2. Ordered'
    BY <1>9, OrderedUnchanged DEF Await
  <2>3. FrontFrame'
    BY <1>9 DEF Await, Goto, client, FrontFrame, IsFront, Complete
  <2>4. Aligned' /\ Buffered' /\ Prepared' /\ OnlyTheClientDisconnects'
    BY <1>9 DEF Await, Goto, Inv, client, Aligned, Buffered, Prepared, OnlyTheClientDisconnects
  <2> QED
    BY <2>1, <2>2, <2>3, <2>4 DEF Inv
<1>10. CASE Notify
  <2>1. pending' \in Message
    BY <1>10 DEF Notify, Inv, TypeOK, Message
  <2>2. TypeOK'
    BY <1>10, <2>1 DEF Notify, Goto, Inv, TypeOK, Phase, client
  <2>3. Ordered'
    BY <1>10, OrderedUnchanged DEF Notify
  <2>4. Aligned' /\ Buffered' /\ FrontFrame' /\ Prepared' /\ OnlyTheClientDisconnects'
    BY <1>10, <2>1 DEF Notify, Goto, Inv, client, Aligned, Buffered, FrontFrame, IsFront,
      Complete, Prepared, OnlyTheClientDisconnects
  <2> QED
    BY <2>2, <2>3, <2>4 DEF Inv
<1>11. CASE RecvError \/ WriteFails
  <2>1. TypeOK' /\ OnlyTheClientDisconnects'
    BY <1>11 DEF RecvError, WriteFails, Close, Goto, Inv, TypeOK, Phase, Reason, client,
      OnlyTheClientDisconnects
  <2>2. Ordered'
    BY <1>11, OrderedUnchanged DEF RecvError, WriteFails
  <2>3. Aligned' /\ Buffered' /\ FrontFrame' /\ Prepared'
    BY <1>11 DEF RecvError, WriteFails, Close, Goto, Inv, client, Aligned, Buffered,
      FrontFrame, Prepared
  <2> QED
    BY <2>1, <2>2, <2>3 DEF Inv
<1>12. CASE WriteNotification
  <2>1. out \in Seq(Message) /\ pending \in Message /\ taken \in 0..Len(out)
    BY <1>12 DEF WriteNotification, Inv, Prepared, TypeOK
  <2>2. out' \in Seq(Message) /\ taken' \in 0..Len(out')
    BY <1>12, <2>1, AppendProperties DEF WriteNotification
  <2>3. TypeOK'
    BY <1>12, <2>2 DEF WriteNotification, Goto, Inv, TypeOK, Phase, client
  <2>4. Ordered'
    BY <1>12, OrderedUnchanged DEF WriteNotification
  <2>5. FrontFrame'
    BY <1>12 DEF WriteNotification, Goto, client, Inv, FrontFrame, IsFront, Complete
  <2>6. Aligned' /\ Buffered' /\ Prepared' /\ OnlyTheClientDisconnects'
    BY <1>12 DEF WriteNotification, Goto, Inv, client, Aligned, Buffered, Prepared,
      OnlyTheClientDisconnects
  <2> QED
    BY <2>3, <2>4, <2>5, <2>6 DEF Inv
<1> QED
  BY <1>1, <1>2, <1>3, <1>4, <1>5, <1>6, <1>7, <1>8, <1>9, <1>10, <1>11, <1>12
    DEF Next, ServerStep

\* A connection starts with an empty buffer and an empty stream.
LEMMA InvInit == Init => Inv
<1> SUFFICES ASSUME Init PROVE Inv
  OBVIOUS
<1>1. Len(frames) = 0 /\ Len(out) = 0 /\ frames \in Seq(Frame) /\ out \in Seq(Message)
  BY DEF Init
<1>2. TypeOK
  <2>1. gone \in BOOLEAN
    BY DEF Init
  <2>2. /\ written \in Nat /\ base \in Nat /\ read_pos \in 0..BufSize /\ nonce \in Nat
        /\ sent \in Nat /\ received \in 0..sent /\ taken \in 0..Len(out)
    BY <1>1, BufferAssumption DEF Init
  <2>3. phase \in Phase /\ pending \in {<<>>} \cup Message /\ reason \in Reason
    BY DEF Init, Phase, Reason
  <2> QED
    BY <1>1, <2>1, <2>2, <2>3 DEF TypeOK
<1>3. Ordered /\ FrontFrame
  BY <1>1 DEF Init, Ordered, FrontFrame
<1>4. Aligned /\ Buffered /\ Prepared /\ OnlyTheClientDisconnects
  BY DEF Init, Aligned, Buffered, Prepared, OnlyTheClientDisconnects
<1> QED
  BY <1>2, <1>3, <1>4 DEF Inv

\* Inv holds throughout.
THEOREM InvAlways == Spec => []Inv
<1>1. Init => Inv
  BY InvInit
<1>2. Inv /\ UNCHANGED vars => Inv'
  BY DEF vars, client, server, Inv, TypeOK, Ordered, End, Aligned, Buffered, FrontFrame,
    IsFront, Complete, Prepared, OnlyTheClientDisconnects
<1>3. Inv /\ [Next]_vars => Inv'
  BY <1>2, InvStep
<1> QED
  BY <1>1, <1>3, PTL DEF Spec

\* The state of a connection stays well typed: read_pos never leaves the buffer, and
\* the writer always has a message to write.
THEOREM TypeCorrect == Spec => []TypeOK
<1>1. Inv => TypeOK
  BY DEF Inv
<1> QED
  BY <1>1, InvAlways, PTL

\* handle_connection never takes payload bytes for a length, whatever the sizes of the
\* frames and however the stream is cut into reads.
THEOREM AlwaysAligned == Spec => []Aligned
<1>1. Inv => Aligned
  BY DEF Inv
<1> QED
  BY <1>1, InvAlways, PTL

\* read_buf is long enough: read is never given an empty slice, whose Ok(0) the loop
\* would take for the end of the connection.
THEOREM NeverMistakenForGone == Spec => []OnlyTheClientDisconnects
<1>1. Inv => OnlyTheClientDisconnects
  BY DEF Inv
<1> QED
  BY <1>1, InvAlways, PTL
------------------------------------------------------------------------------
(* What the connection says, in terms of Dialogue. *)

What == {"answer", "notification"}
Count(what) == IF what = "answer" THEN Answered ELSE Pushed

\* The message in hand is the next one of its kind, and every phase has its own.
Held ==
  \/ pending = <<>> /\ phase \in {"select", "drain", "closed"}
  \/ /\ pending = <<"answer", nonce>> /\ nonce # 0
     /\ phase \in {"routing", "answering", "closed"}
  \/ /\ pending = <<"notification", received>> /\ received # 0
     /\ phase \in {"notifying", "closed"}

\* out holds the messages of each kind up to their count.
Said ==
  \A what \in What :
    /\ \A n \in DOMAIN out : out[n][1] = what => out[n][2] \in 1..Count(what)
    /\ \A c \in 1..Count(what) : \E n \in DOMAIN out : out[n] = <<what, c>>

\* The nonce keeps up with the frames until one is garbled, and not after it.
Silenced ==
  /\ Answered <= Served
  /\ Answered = Served <=> \A i \in 1..Served : frames[i].kind # "garbled"

\* The frame whose answer is in hand is the one at the front, and it was decrypted.
InHand ==
  Preparing("answer") =>
    /\ Answered = Served
    /\ Served < Len(frames)
    /\ frames[Served + 1].kind # "garbled"

Talk == Inv /\ Held /\ Said /\ InOrder /\ Silenced /\ InHand

\* The counts are numbers, and each phase has its message in hand.
Counted ==
  /\ Answered \in Nat /\ Pushed \in Nat
  /\ \A what \in What : Count(what) \in Nat
  /\ phase \in {"select", "drain"} =>
       /\ ~Preparing("answer")
       /\ Answered = nonce /\ Pushed = received
  /\ phase \in {"routing", "answering"} =>
       /\ Preparing("answer") /\ pending = <<"answer", Answered + 1>>
       /\ Answered = nonce - 1 /\ Pushed = received
  /\ phase = "notifying" =>
       /\ ~Preparing("answer") /\ pending = <<"notification", Pushed + 1>>
       /\ Answered = nonce /\ Pushed = received - 1

LEMMA Counts == Inv /\ Held => Counted
<1> SUFFICES ASSUME Inv, Held PROVE Counted
  OBVIOUS
<1>1. nonce \in Nat /\ received \in Nat
  BY DEF Inv, TypeOK
<1>2. CASE pending = <<>> /\ phase \in {"select", "drain", "closed"}
  BY <1>1, <1>2 DEF Answered, Pushed, Preparing, Count, What, Counted
<1>3. CASE /\ pending = <<"answer", nonce>> /\ nonce # 0
           /\ phase \in {"routing", "answering", "closed"}
  BY <1>1, <1>3 DEF Answered, Pushed, Preparing, Count, What, Counted
<1>4. CASE /\ pending = <<"notification", received>> /\ received # 0
           /\ phase \in {"notifying", "closed"}
  BY <1>1, <1>4 DEF Answered, Pushed, Preparing, Count, What, Counted
<1> QED
  BY <1>2, <1>3, <1>4 DEF Held

\* The frames leave no gap in the stream.
LEMMA NextFrame ==
  ASSUME Inv, NEW i \in 1..Len(frames)
  PROVE  End(i) = IF i = Len(frames) THEN written ELSE frames[i + 1].at
<1>1. Len(frames) \in Nat /\ written \in Nat
  BY DEF Inv, TypeOK
<1>2. \A j \in 1..Len(frames) :
        frames[j].at \in Nat /\ End(j) \in Nat /\ End(j) > frames[j].at /\ End(j) <= written
  BY FrameSpan
<1>3. \A j, m \in 1..Len(frames) : j < m => End(j) <= frames[m].at
  BY DEF Inv, Ordered
<1>4. CASE End(i) = written
  <2>1. i < Len(frames) => i + 1 \in 1..Len(frames)
    BY <1>1
  <2>2. ~(i < Len(frames))
    BY <2>1, <1>1, <1>2, <1>3, <1>4
  <2> QED
    BY <2>2, <1>1, <1>4
<1>5. CASE \E j \in 1..Len(frames) : End(i) = frames[j].at
  <2>1. PICK j \in 1..Len(frames) : End(i) = frames[j].at
    BY <1>5
  <2>2. i < j
    <3>1. CASE j < i
      BY <3>1, <2>1, <1>1, <1>2, <1>3
    <3>2. CASE j = i
      BY <3>2, <2>1, <1>2
    <3> QED
      BY <3>1, <3>2
  <2>3. ~(i + 1 < j)
    <3>1. SUFFICES ASSUME i + 1 < j PROVE FALSE
      OBVIOUS
    <3>2. i + 1 \in 1..Len(frames)
      BY <3>1, <1>1
    <3>3. End(i + 1) <= frames[j].at /\ End(i) <= frames[i + 1].at
      BY <3>1, <3>2, <1>3, <1>1
    <3> QED
      BY <3>2, <3>3, <2>1, <1>2
  <2> QED
    BY <2>1, <2>2, <2>3, <1>1
<1> QED
  BY <1>4, <1>5 DEF Inv, Ordered

\* The buffer starts after exactly one number of frames.
LEMMA ServedIs ==
  ASSUME Inv
  PROVE  /\ Served \in 0..Len(frames) /\ After(Served)
         /\ \A k \in 0..Len(frames) : After(k) => Served = k
         /\ \A k \in 0..Len(frames) - 1 : IsFront(k) <=> Served = k
<1>1. /\ Len(frames) \in Nat /\ written \in Nat /\ base \in Nat
      /\ DOMAIN frames = 1..Len(frames)
  BY DEF Inv, TypeOK
<1>2. \E k \in 0..Len(frames) : After(k)
  <2>1. CASE base = written
    <3>1. Len(frames) \in 0..Len(frames) /\ After(Len(frames))
      BY <2>1, <1>1 DEF After
    <3> QED
      BY <3>1
  <2>2. CASE \E i \in DOMAIN frames : base = frames[i].at
    <3>1. PICK i \in 1..Len(frames) : base = frames[i].at
      BY <2>2, <1>1
    <3>2. i - 1 \in 0..Len(frames) - 1 /\ i - 1 \in 0..Len(frames) /\ (i - 1) + 1 = i
      BY <1>1
    <3>3. After(i - 1)
      BY <3>1, <3>2 DEF After, IsFront
    <3> QED
      BY <3>2, <3>3
  <2> QED
    BY <2>1, <2>2 DEF Inv, Aligned
<1>3. Served \in 0..Len(frames) /\ After(Served)
  BY <1>2 DEF Served
<1>4. \A k \in 0..Len(frames) - 1 : After(k) <=> IsFront(k)
  <2>1. \A n \in Nat : \A m \in 0..n - 1 : m # n
    OBVIOUS
  <2>2. \A k \in 0..Len(frames) - 1 : k # Len(frames)
    BY <1>1, <2>1
  <2> QED
    BY <2>2 DEF After
<1>5. \A k \in 0..Len(frames) - 1 : ~(After(k) /\ After(Len(frames)))
  <2> SUFFICES ASSUME NEW k \in 0..Len(frames) - 1, After(k), After(Len(frames)) PROVE FALSE
    OBVIOUS
  <2>1. \A n \in Nat : n \notin 0..n - 1 /\ \A m \in 0..n - 1 : m + 1 \in 1..n
    OBVIOUS
  <2>2. Len(frames) \notin 0..Len(frames) - 1 /\ k + 1 \in 1..Len(frames)
    BY <1>1, <2>1
  <2>3. base = written
    BY <2>2 DEF After, IsFront
  <2>4. frames[k + 1].at = written
    BY <2>3, <1>4 DEF IsFront
  <2>5. frames[k + 1].at \in Nat /\ frames[k + 1].len \in Nat /\ End(k + 1) <= written
    BY <2>2, FrameNumbers DEF Inv, Ordered
  <2> QED
    BY <2>4, <2>5 DEF End
<1>6. \A k, j \in 0..Len(frames) : After(k) /\ After(j) => k = j
  <2> TAKE k, j \in 0..Len(frames)
  <2>1. \A n \in Nat : \A m \in 0..n : m = n \/ m \in 0..n - 1
    OBVIOUS
  <2>2. \A m \in 0..Len(frames) : m = Len(frames) \/ m \in 0..Len(frames) - 1
    BY <1>1, <2>1
  <2>3. CASE k \in 0..Len(frames) - 1 /\ j \in 0..Len(frames) - 1
    BY <2>3, <1>4, FrontIsUnique
  <2>4. CASE k = Len(frames)
    BY <2>2, <2>4, <1>5
  <2>5. CASE j = Len(frames)
    BY <2>2, <2>5, <1>5
  <2> QED
    BY <2>2, <2>3, <2>4, <2>5
<1> QED
  BY <1>1, <1>3, <1>4, <1>6

\* ServedIs and Counts, of the next state as well.
ServedOne == \A k \in 0..Len(frames) : After(k) => Served = k

LEMMA NextServed == Inv' => ServedOne'
<1>1. Inv => ServedOne
  BY ServedIs DEF ServedOne
<1> QED
  BY <1>1, PTL

LEMMA NextCounts == Inv' /\ Held' => Counted'
BY Counts, PTL

\* A message that continues the count of its kind keeps the messages in order.
LEMMA OutAppend ==
  ASSUME Inv, Held, Said, InOrder, NEW what \in What,
         out' = Append(out, <<what, Count(what) + 1>>),
         Count(what)' = Count(what) + 1,
         \A o \in What : o # what => Count(o)' = Count(o)
  PROVE  Said' /\ InOrder'
<1> DEFINE m == <<what, Count(what) + 1>>
<1>1. out \in Seq(Message) /\ \A o \in What : Count(o) \in Nat
  BY Counts DEF Inv, TypeOK, Counted
<1>2. m \in Message
  BY <1>1 DEF Message, What
<1>3. /\ Len(out) \in Nat /\ Len(out') = Len(out) + 1
      /\ DOMAIN out = 1..Len(out) /\ DOMAIN out' = 1..Len(out) + 1
      /\ \A n \in 1..Len(out) : out'[n] = out[n]
      /\ out'[Len(out) + 1] = m
  BY <1>1, <1>2, AppendProperties
<1>4. m[1] = what /\ m[2] = Count(what) + 1
  OBVIOUS
<1> HIDE DEF m
<1>5. \A n \in 1..Len(out) : out[n] # m
  <2> SUFFICES ASSUME NEW n \in 1..Len(out), out[n] = m PROVE FALSE
    OBVIOUS
  <2>1. m[2] \in 1..Count(what)
    BY <1>3, <1>4 DEF Said
  <2> QED
    BY <2>1, <1>1, <1>4
<1>6. ASSUME NEW o \in What
      PROVE  /\ \A n \in DOMAIN out' : out'[n][1] = o => out'[n][2] \in 1..Count(o)'
             /\ \A c \in 1..Count(o)' : \E n \in DOMAIN out' : out'[n] = <<o, c>>
  <2>1. /\ Count(o) \in Nat
        /\ Count(o)' = Count(o) \/ (o = what /\ Count(o)' = Count(o) + 1)
    BY <1>1
  <2>2. ASSUME NEW n \in DOMAIN out', out'[n][1] = o
        PROVE  out'[n][2] \in 1..Count(o)'
    <3>1. CASE n = Len(out) + 1
      BY <3>1, <2>1, <2>2, <1>1, <1>3, <1>4
    <3>2. CASE n \in 1..Len(out)
      <4>1. out[n][2] \in 1..Count(o) /\ out'[n] = out[n]
        BY <3>2, <2>2, <1>3 DEF Said
      <4> QED
        BY <4>1, <2>1
    <3> QED
      BY <3>1, <3>2, <1>3
  <2>3. ASSUME NEW c \in 1..Count(o)'
        PROVE  \E n \in DOMAIN out' : out'[n] = <<o, c>>
    <3>1. CASE c \in 1..Count(o)
      <4>1. PICK n \in DOMAIN out : out[n] = <<o, c>>
        BY <3>1 DEF Said
      <4> QED
        BY <4>1, <1>3
    <3>2. CASE o = what /\ c = Count(what) + 1
      BY <3>2, <1>3 DEF m
    <3> QED
      BY <3>1, <3>2, <2>1
  <2> QED
    BY <2>2, <2>3
<1>7. ASSUME NEW n \in DOMAIN out'
      PROVE  /\ out'[n][2] >= 1
             /\ out'[n][2] > 1 =>
                  \E j \in 1..n - 1 : out'[j] = <<out'[n][1], out'[n][2] - 1>>
             /\ \A j \in 1..n - 1 : out'[j] # out'[n]
  <2>1. CASE n = Len(out) + 1
    <3>1. out'[n] = m /\ \A j \in 1..n - 1 : j \in 1..Len(out) /\ out'[j] = out[j]
      BY <2>1, <1>3
    <3>2. m[2] >= 1 /\ (m[2] > 1 => Count(what) \in 1..Count(what)) /\ m[2] - 1 = Count(what)
      BY <1>1, <1>4
    <3>3. m[2] > 1 => \E j \in 1..Len(out) : out[j] = <<what, Count(what)>>
      BY <3>2, <1>3 DEF Said
    <3> QED
      BY <3>1, <3>2, <3>3, <2>1, <1>3, <1>4, <1>5
  <2>2. CASE n \in 1..Len(out)
    <3>1. out'[n] = out[n] /\ \A j \in 1..n - 1 : out'[j] = out[j]
      BY <2>2, <1>3
    <3>2. n \in DOMAIN out
      BY <2>2, <1>3
    <3> QED
      BY <3>1, <3>2 DEF InOrder
  <2>3. n = Len(out) + 1 \/ n \in 1..Len(out)
    BY <1>3
  <2> QED
    BY <2>1, <2>2, <2>3
<1> QED
  BY <1>6, <1>7 DEF Said, InOrder

\* Nothing is written: the messages stay as they are.
LEMMA OutKept ==
  ASSUME Said, InOrder, UNCHANGED <<out, Answered, Pushed>>
  PROVE  Said' /\ InOrder'
<1>1. \A what \in What : Count(what)' = Count(what)
  BY DEF Count
<1>2. Said'
  BY <1>1 DEF Said
<1>3. InOrder'
  BY DEF InOrder
<1> QED
  BY <1>2, <1>3

\* The stream and the buffer's place in it stay: Dialogue sees no change there.
LEMMA StreamKept ==
  ASSUME UNCHANGED <<frames, written, base>>
  PROVE  Served' = Served /\ Asked' = Asked
BY DEF Served, Asked, After, IsFront

\* Nothing that Dialogue sees changes, unless the connection closes.
LEMMA QuietStep ==
  ASSUME Talk, Inv', Held', InHand', UNCHANGED <<frames, written, base, out>>,
         Answered' = Answered, Pushed' = Pushed, Over' = Over \/ Over' = TRUE
  PROVE  Talk' /\ [Promised!Next]_Promised!vars
<1>1. Served' = Served /\ Asked' = Asked
  BY StreamKept
<1>2. Said' /\ InOrder'
  BY OutKept DEF Talk
<1>3. Silenced'
  BY <1>1 DEF Talk, Silenced
<1>4. Talk'
  BY <1>2, <1>3 DEF Talk
<1>5. CASE Over' = Over
  BY <1>1, <1>4, <1>5 DEF Promised!vars
<1>6. CASE Over' = TRUE
  BY <1>1, <1>4, <1>6 DEF Promised!Next, Promised!End
<1> QED
  BY <1>4, <1>5, <1>6

\* A frame written by the client is one more request.
LEMMA AskStep ==
  ASSUME Talk, Inv', NEW len \in Payload, NEW kind \in Kind, ClientWrite(len, kind)
  PROVE  Talk' /\ Promised!Ask
<1> DEFINE f == [at |-> written, len |-> len, kind |-> kind]
<1>1. /\ frames \in Seq(Frame) /\ Len(frames) \in Nat /\ written \in Nat /\ len \in Nat
      /\ DOMAIN frames = 1..Len(frames)
  <2>1. frames \in Seq(Frame) /\ written \in Nat
    BY DEF Talk, Inv, TypeOK
  <2> QED
    BY <2>1, PayloadIsNat
<1>2. f \in Frame /\ f.at = written /\ f.kind = kind
  BY <1>1 DEF Frame
<1>3. frames' = Append(frames, f) /\ UNCHANGED server
  BY DEF ClientWrite
<1> HIDE DEF f
<1>4. /\ Len(frames') = Len(frames) + 1
      /\ DOMAIN frames' = 1..Len(frames) + 1
      /\ \A i \in 1..Len(frames) : frames'[i] = frames[i]
      /\ frames'[Len(frames) + 1] = f
  BY <1>1, <1>2, <1>3, AppendProperties
<1>5. UNCHANGED <<base, nonce, phase, pending, received, out>>
  BY <1>3 DEF server
<1>6. Answered' = Answered /\ Pushed' = Pushed /\ Over' = Over
  BY <1>5 DEF Answered, Pushed, Preparing, Over
<1>7. PICK k \in 0..Len(frames) : k = Served /\ After(k)
  BY ServedIs DEF Talk
<1>8. k \in 0..Len(frames') - 1 /\ k \in 0..Len(frames')
  BY <1>1, <1>4
<1>9. After(k)'
  <2>1. CASE IsFront(k)
    <3>1. k + 1 \in 1..Len(frames) /\ base = frames[k + 1].at
      BY <2>1, <1>1 DEF IsFront
    <3>2. base' = frames'[k + 1].at
      BY <3>1, <1>4, <1>5
    <3> QED
      BY <3>2, <1>8 DEF After, IsFront
  <2>2. CASE k = Len(frames) /\ base = written
    BY <2>2, <1>2, <1>4, <1>5, <1>8 DEF After, IsFront
  <2> QED
    BY <2>1, <2>2, <1>7 DEF After
<1>10. Served' = k
  BY <1>8, <1>9, NextServed DEF ServedOne
<1>11. Asked' = Append(Asked, kind # "garbled")
  <2>1. Asked \in Seq(BOOLEAN) /\ Len(Asked) = Len(frames)
    BY <1>1 DEF Asked
  <2>2. /\ DOMAIN Append(Asked, kind # "garbled") = 1..Len(frames) + 1
        /\ \A i \in 1..Len(frames) : Append(Asked, kind # "garbled")[i] = Asked[i]
        /\ Append(Asked, kind # "garbled")[Len(frames) + 1] = (kind # "garbled")
    BY <2>1, <1>1, AppendProperties
  <2> QED
    BY <2>1, <2>2, <1>1, <1>2, <1>4 DEF Asked
<1>12. Held'
  BY <1>5 DEF Talk, Held
<1>13. Said' /\ InOrder'
  BY <1>5, <1>6, OutKept DEF Talk
<1>14. \A i \in 1..k : frames'[i] = frames[i]
  BY <1>1, <1>4
<1>15. Silenced'
  BY <1>6, <1>7, <1>10, <1>14 DEF Talk, Silenced
<1>16. InHand'
  <2>1. Preparing("answer")' = Preparing("answer")
    BY <1>5 DEF Preparing
  <2>2. k < Len(frames) => k + 1 \in 1..Len(frames) /\ k < Len(frames')
    BY <1>1, <1>4
  <2> QED
    BY <2>1, <2>2, <1>4, <1>6, <1>7, <1>10 DEF Talk, InHand
<1>17. Promised!Ask
  <2>1. UNCHANGED <<Served, Pushed, out, Over>>
    BY <1>5, <1>6, <1>7, <1>10
  <2>2. (kind # "garbled") \in BOOLEAN
    OBVIOUS
  <2> QED
    BY <2>1, <2>2, <1>11 DEF Promised!Ask
<1> QED
  BY <1>12, <1>13, <1>15, <1>16, <1>17 DEF Talk

\* A request can be decrypted if its frame is not garbled.
LEMMA AskedIs ==
  ASSUME Inv, NEW k \in 0..Len(frames) - 1, NEW i \in 1..k + 1
  PROVE  Asked[i] <=> frames[i].kind # "garbled"
<1>1. i \in DOMAIN frames
  BY DEF Inv, TypeOK
<1> QED
  BY <1>1, Zenon DEF Asked

\* Taking the front frame off the buffer serves it.
LEMMA ShiftServes ==
  ASSUME Inv, Inv', NEW k \in 0..Len(frames) - 1, IsFront(k), Shift(k), UNCHANGED client
  PROVE  Served = k /\ Served' = k + 1 /\ Asked' = Asked
<1>1. Len(frames) \in Nat /\ base \in Nat
  BY DEF Inv, TypeOK
<1>2. k + 1 \in 1..Len(frames) /\ k + 1 \in 0..Len(frames) /\ (k + 1) + 1 = k + 2
  BY <1>1
<1>3. frames[k + 1].at = base /\ frames[k + 1].len \in Nat
  BY <1>2, FrameNumbers DEF IsFront
<1>4. base' = End(k + 1)
  BY <1>1, <1>3 DEF Shift, End
<1>5. End(k + 1) = IF k + 1 = Len(frames) THEN written ELSE frames[k + 2].at
  BY <1>2, NextFrame
<1>6. UNCHANGED <<frames, written>>
  BY DEF client
<1>7. After(k + 1)'
  <2>1. CASE k + 1 = Len(frames)
    BY <2>1, <1>4, <1>5, <1>6 DEF After
  <2>2. CASE k + 1 # Len(frames)
    <3>1. k + 1 \in 0..Len(frames) - 1
      BY <2>2, <1>1, <1>2
    <3> QED
      BY <2>2, <3>1, <1>2, <1>4, <1>5, <1>6 DEF After, IsFront
  <2> QED
    BY <2>1, <2>2
<1>8. Served' = k + 1
  BY <1>2, <1>6, <1>7, NextServed DEF ServedOne
<1>9. Served = k
  BY ServedIs
<1> QED
  BY <1>6, <1>8, <1>9 DEF Asked

\* A frame that does not decrypt, or comes after one that did not, is dropped.
LEMMA DropStep ==
  ASSUME Talk, Inv', NEW k \in 0..Len(frames) - 1, DropFrame(k)
  PROVE  Talk' /\ Promised!Drop
<1>1. /\ IsFront(k) /\ Shift(k) /\ ~Decrypts(k) /\ phase = "drain"
      /\ UNCHANGED <<frames, written, gone, nonce, phase, pending, received, out>>
  BY DEF DropFrame, client
<1>2. Served = k /\ Served' = k + 1 /\ Asked' = Asked
  BY <1>1, ShiftServes DEF Talk, client
<1>3. Answered' = Answered /\ Pushed' = Pushed /\ Over' = Over /\ ~Over
  BY <1>1 DEF Answered, Pushed, Preparing, Over
<1>4. Answered = nonce /\ Answered \in Nat /\ ~Preparing("answer") /\ Len(frames) \in Nat
  BY <1>1, Counts DEF Talk, Counted, Inv, TypeOK
<1>5. Held'
  BY <1>1 DEF Talk, Held
<1>6. Said' /\ InOrder'
  BY <1>1, <1>3, OutKept DEF Talk
<1>7. \E i \in 1..k + 1 : frames[i].kind = "garbled"
  <2>1. CASE frames[k + 1].kind = "garbled"
    BY <2>1, <1>4
  <2>2. CASE nonce # k
    <3>1. \E i \in 1..k : frames[i].kind = "garbled"
      BY <2>2, <1>2, <1>4 DEF Talk, Silenced
    <3> QED
      BY <3>1, <1>4
  <2> QED
    BY <2>1, <2>2, <1>1 DEF Decrypts
<1>8. Silenced'
  <2>1. Answered <= k
    BY <1>2 DEF Talk, Silenced
  <2>2. Answered' <= k + 1 /\ Answered' # k + 1
    BY <2>1, <1>3, <1>4
  <2> QED
    BY <2>2, <1>1, <1>2, <1>7 DEF Silenced
<1>9. InHand'
  BY <1>1, <1>4 DEF InHand, Preparing
<1>10. Promised!Drop
  <2>1. Len(Asked) = Len(frames) /\ k < Len(frames)
    BY <1>4 DEF Asked
  <2>2. \E i \in 1..k + 1 : ~Asked[i]
    BY <1>7, AskedIs DEF Talk
  <2> QED
    BY <1>1, <1>2, <1>3, <2>1, <2>2 DEF Promised!Drop
<1> QED
  BY <1>5, <1>6, <1>8, <1>9, <1>10 DEF Talk

\* Taking a frame that decrypts puts its answer in hand.
LEMMA TakeStep ==
  ASSUME Talk, Inv', NEW k \in 0..Len(frames) - 1, TakeFrame(k)
  PROVE  Talk' /\ [Promised!Next]_Promised!vars
<1>1. /\ IsFront(k) /\ Decrypts(k) /\ phase = "drain"
      /\ UNCHANGED <<frames, written, base, received, out>>
      /\ nonce' = nonce + 1 /\ pending' = <<"answer", k + 1>>
      /\ phase' \in {"answering", "routing"}
  BY DEF TakeFrame, client, Goto
<1>2. nonce = k /\ frames[k + 1].kind # "garbled" /\ Served = k /\ Len(frames) \in Nat
  <2>1. Inv /\ Len(frames) \in Nat
    BY DEF Talk, Inv, TypeOK
  <2> QED
    BY <2>1, <1>1, ServedIs DEF Decrypts
<1>3. Answered = nonce /\ Pushed = received
  BY <1>1, Counts DEF Talk, Counted
<1>4. Held'
  BY <1>1, <1>2 DEF Held
<1>5. Counted'
  BY <1>4, NextCounts
<1>6. Answered' = nonce' - 1 /\ Pushed' = received'
  BY <1>1, <1>5 DEF Counted
<1>7. Answered' = Answered /\ Pushed' = Pushed
  BY <1>1, <1>2, <1>3, <1>6
<1>8. Over' = Over
  BY <1>1 DEF Over
<1>9. Served' = Served
  BY <1>1, StreamKept
<1>10. InHand'
  BY <1>1, <1>2, <1>3, <1>7, <1>9 DEF InHand
<1> QED
  BY <1>1, <1>4, <1>7, <1>8, <1>10, QuietStep

\* The answer in hand leaves, and its frame is served.
LEMMA AnswerStep ==
  ASSUME Talk, Inv', NEW k \in 0..Len(frames) - 1, WriteAnswer(k)
  PROVE  Talk' /\ Promised!Answer
<1>1. /\ IsFront(k) /\ Shift(k) /\ phase = "answering" /\ phase' = "drain"
      /\ UNCHANGED <<frames, written, gone, nonce, received>>
      /\ out' = Append(out, pending) /\ pending' = <<>>
  BY DEF WriteAnswer, client, Goto
<1>2. Served = k /\ Served' = k + 1 /\ Asked' = Asked
  BY <1>1, ShiftServes DEF Talk, client
<1>3. /\ pending = <<"answer", Answered + 1>> /\ Answered = nonce - 1 /\ Pushed = received
      /\ Preparing("answer") /\ Answered \in Nat
  BY <1>1, Counts DEF Talk, Counted
<1>4. nonce \in Nat /\ Len(frames) \in Nat /\ DOMAIN frames = 1..Len(frames)
  <2>1. nonce \in Nat /\ frames \in Seq(Frame)
    BY DEF Talk, Inv, TypeOK
  <2> QED
    BY <2>1
<1>5. Held'
  BY <1>1 DEF Held
<1>6. Answered' = nonce' /\ Pushed' = received' /\ ~Preparing("answer")'
  BY <1>1, <1>5, NextCounts DEF Counted
<1>7. Answered' = Answered + 1 /\ Pushed' = Pushed
  BY <1>1, <1>3, <1>4, <1>6
<1>8. Answered = k /\ frames[k + 1].kind # "garbled"
  BY <1>2, <1>3 DEF Talk, InHand
<1>9. \A i \in 1..k + 1 : frames[i].kind # "garbled"
  <2>1. \A i \in 1..k : frames[i].kind # "garbled"
    BY <1>2, <1>8 DEF Talk, Silenced
  <2>2. \A i \in 1..k + 1 : i \in 1..k \/ i = k + 1
    BY <1>4
  <2> QED
    BY <2>1, <2>2, <1>8
<1>10. Said' /\ InOrder'
  <2>1. Count("answer") = Answered /\ Count("notification") = Pushed
    BY DEF Count
  <2>2. Count("answer")' = Answered' /\ Count("notification")' = Pushed'
    BY DEF Count
  <2>3. \A o \in What : o # "answer" => Count(o)' = Count(o)
    BY <2>1, <2>2, <1>7 DEF What
  <2>4. out' = Append(out, <<"answer", Count("answer") + 1>>)
    BY <2>1, <1>1, <1>3
  <2> QED
    BY <2>1, <2>2, <2>3, <2>4, <1>7, OutAppend DEF Talk, What
<1>11. Silenced'
  BY <1>1, <1>2, <1>7, <1>8, <1>9 DEF Silenced
<1>12. InHand'
  BY <1>6 DEF InHand
<1>13. Promised!Answer
  <2>1. Len(Asked) = Len(frames) /\ k < Len(frames) /\ k + 1 \in 1..Len(frames)
    BY <1>4 DEF Asked
  <2>2. \A i \in 1..k + 1 : Asked[i]
    BY <1>9, AskedIs DEF Talk
  <2>3. ~Over /\ Over' = Over
    BY <1>1 DEF Over
  <2> QED
    BY <1>1, <1>2, <1>3, <1>7, <1>8, <2>1, <2>2, <2>3 DEF Promised!Answer
<1> QED
  BY <1>5, <1>10, <1>11, <1>12, <1>13 DEF Talk

\* The notification in hand leaves.
LEMMA PushStep ==
  ASSUME Talk, Inv', WriteNotification
  PROVE  Talk' /\ Promised!Push
<1>1. /\ phase = "notifying" /\ phase' = "select"
      /\ UNCHANGED <<frames, written, base, nonce, received>>
      /\ out' = Append(out, pending) /\ pending' = <<>>
  BY DEF WriteNotification, client, Goto
<1>2. Served' = Served /\ Asked' = Asked
  BY <1>1, StreamKept
<1>3. /\ pending = <<"notification", Pushed + 1>> /\ Pushed = received - 1
      /\ Answered = nonce /\ Pushed \in Nat
  BY <1>1, Counts DEF Talk, Counted
<1>4. received \in Nat
  BY DEF Talk, Inv, TypeOK
<1>5. Held'
  BY <1>1 DEF Held
<1>6. Answered' = nonce' /\ Pushed' = received' /\ ~Preparing("answer")'
  BY <1>1, <1>5, NextCounts DEF Counted
<1>7. Answered' = Answered /\ Pushed' = Pushed + 1
  BY <1>1, <1>3, <1>4, <1>6
<1>8. Said' /\ InOrder'
  <2>1. Count("answer") = Answered /\ Count("notification") = Pushed
    BY DEF Count
  <2>2. Count("answer")' = Answered' /\ Count("notification")' = Pushed'
    BY DEF Count
  <2>3. \A o \in What : o # "notification" => Count(o)' = Count(o)
    BY <2>1, <2>2, <1>7 DEF What
  <2>4. out' = Append(out, <<"notification", Count("notification") + 1>>)
    BY <2>1, <1>1, <1>3
  <2> QED
    BY <2>1, <2>2, <2>3, <2>4, <1>7, OutAppend DEF Talk, What
<1>9. Silenced'
  BY <1>1, <1>2, <1>7 DEF Talk, Silenced
<1>10. InHand'
  BY <1>6 DEF InHand
<1>11. Promised!Push
  <2>1. ~Over /\ Over' = Over
    BY <1>1 DEF Over
  <2> QED
    BY <1>1, <1>2, <1>3, <1>7, <2>1 DEF Promised!Push
<1> QED
  BY <1>5, <1>8, <1>9, <1>10, <1>11 DEF Talk

\* Taking a notification from the channel puts it in hand.
LEMMA NotifyStep ==
  ASSUME Talk, Inv', Notify
  PROVE  Talk' /\ [Promised!Next]_Promised!vars
<1>1. /\ phase = "select" /\ phase' = "notifying"
      /\ UNCHANGED <<frames, written, base, nonce, out>>
      /\ received' = received + 1 /\ pending' = <<"notification", received'>>
  BY DEF Notify, client, Goto
<1>2. Answered = nonce /\ Pushed = received /\ received \in Nat
  BY <1>1, Counts DEF Talk, Counted, Inv, TypeOK
<1>3. Held'
  BY <1>1, <1>2 DEF Held
<1>4. Answered' = nonce' /\ Pushed' = received' - 1 /\ ~Preparing("answer")'
  BY <1>1, <1>3, NextCounts DEF Counted
<1>5. Answered' = Answered /\ Pushed' = Pushed
  BY <1>1, <1>2, <1>4
<1>6. InHand' /\ Over' = Over
  BY <1>1, <1>4 DEF InHand, Over
<1> QED
  BY <1>1, <1>3, <1>5, <1>6, QuietStep

\* What moves neither the stream nor a message, and at most ends the connection.
LEMMA IdleStep ==
  ASSUME Talk, Inv', UNCHANGED <<frames, written, base, nonce, received, pending, out>>,
         \/ phase' \in {phase, "closed"}
         \/ phase \in {"select", "drain"} /\ phase' \in {"select", "drain"}
         \/ phase = "routing" /\ phase' = "answering"
  PROVE  Talk' /\ [Promised!Next]_Promised!vars
<1>1. Answered' = Answered /\ Pushed' = Pushed /\ Preparing("answer")' = Preparing("answer")
  BY DEF Answered, Pushed, Preparing
<1>2. Held'
  BY DEF Talk, Held
<1>3. Over' = Over \/ Over' = TRUE
  BY DEF Over
<1>4. Served' = Served
  BY StreamKept
<1>5. InHand'
  BY <1>1, <1>4 DEF Talk, InHand
<1> QED
  BY <1>1, <1>2, <1>3, <1>5, QuietStep

\* Every step keeps Talk and is one of Dialogue's, or changes nothing it sees.
LEMMA TalkStep ==
  ASSUME Talk, [Next]_vars
  PROVE  Talk' /\ [Promised!Next]_Promised!vars
<1>1. Inv'
  <2>1. CASE Next
    BY <2>1, InvStep DEF Talk
  <2>2. CASE UNCHANGED vars
    BY <2>2 DEF Talk, vars, client, server, Inv, TypeOK, Ordered, End, Aligned, Buffered,
      FrontFrame, IsFront, Complete, Prepared, OnlyTheClientDisconnects
  <2> QED
    BY <2>1, <2>2
<1>2. CASE \E len \in Payload, kind \in Kind : ClientWrite(len, kind)
  BY <1>1, <1>2, AskStep DEF Promised!Next
<1>3. CASE ClientRead \/ ClientClose \/ OtherPost \/ UNCHANGED vars
  <2>1. UNCHANGED <<frames, written, base, nonce, received, pending, out, phase>>
    BY <1>3 DEF ClientRead, ClientClose, OtherPost, vars, client, server
  <2> QED
    BY <2>1, <1>1, IdleStep
<1>4. CASE (\E n \in 1..BufSize : Read(n)) \/ Await
  <2>1. /\ UNCHANGED <<frames, written, base, nonce, received, pending, out>>
        /\ phase \in {"select", "drain"} /\ phase' \in {"select", "drain"}
    BY <1>4 DEF Read, Await, Goto, client
  <2> QED
    BY <2>1, <1>1, IdleStep
<1>5. CASE ReadNothing \/ RecvError \/ WriteFails
  <2>1. /\ UNCHANGED <<frames, written, base, nonce, received, pending, out>>
        /\ phase' = "closed"
    BY <1>5 DEF ReadNothing, RecvError, WriteFails, Close, Goto, client
  <2> QED
    BY <2>1, <1>1, IdleStep
<1>6. CASE \E k \in 0..Len(frames) - 1 : Routed(k)
  <2>1. /\ UNCHANGED <<frames, written, base, nonce, received, pending, out>>
        /\ phase = "routing" /\ phase' \in {"answering", "closed"}
    BY <1>6 DEF Routed, Close, Goto, client
  <2> QED
    BY <2>1, <1>1, IdleStep
<1>7. CASE \E k \in 0..Len(frames) - 1 : DropFrame(k) \/ TakeFrame(k) \/ WriteAnswer(k)
  BY <1>1, <1>7, DropStep, TakeStep, AnswerStep DEF Promised!Next
<1>8. CASE Notify \/ WriteNotification
  BY <1>1, <1>8, NotifyStep, PushStep DEF Promised!Next
<1> QED
  BY <1>2, <1>3, <1>4, <1>5, <1>6, <1>7, <1>8 DEF Next, ServerStep

\* A connection starts with nothing asked and nothing said.
LEMMA TalkInit == Init => Talk /\ Promised!Init
<1> SUFFICES ASSUME Init PROVE Talk /\ Promised!Init
  OBVIOUS
<1>1. Inv
  BY InvInit
<1>2. /\ frames = <<>> /\ Len(frames) = 0 /\ base = 0 /\ written = 0
      /\ nonce = 0 /\ received = 0 /\ pending = <<>> /\ phase = "select"
      /\ out = <<>> /\ Len(out) = 0
  BY DEF Init
<1>3. Held
  BY <1>2 DEF Held
<1>4. Answered = 0 /\ Pushed = 0 /\ ~Preparing("answer")
  BY <1>1, <1>2, <1>3, Counts DEF Counted
<1>5. Served = 0
  BY <1>1, <1>2, ServedIs
<1>6. Said /\ InOrder
  BY <1>2, <1>4 DEF Said, InOrder, Count
<1>7. Silenced /\ InHand
  BY <1>4, <1>5 DEF Silenced, InHand
<1>8. Asked = <<>> /\ Over = FALSE
  BY <1>2 DEF Asked, Over
<1> QED
  BY <1>1, <1>2, <1>3, <1>4, <1>5, <1>6, <1>7, <1>8 DEF Talk, Promised!Init

\* Answers leave in the order of the requests and notifications in that of the posts,
\* neither repeated nor skipped: for any number of frames and posts, and any cut of the
\* stream into reads.
THEOREM AlwaysInOrder == Spec => []InOrder
<1>1. Talk => InOrder
  BY DEF Talk
<1> QED
  BY <1>1, TalkInit, TalkStep, PTL DEF Spec

\* handle_connection keeps what Dialogue promises its client.
THEOREM KeepsThePromise == Spec => ImplementsDialogue
BY TalkInit, TalkStep, PTL DEF Spec, ImplementsDialogue, Promised!Spec
------------------------------------------------------------------------------
(* What FramesAreAnswered rests on beside fairness. *)

\* The loop waits for nobody but its client and the channel: at select! there is room
\* for what the client writes, and a handler that returns finds the frame it answers at
\* the front of the buffer.
NeverStuck ==
  /\ phase = "select" => read_pos < BufSize
  /\ phase \in {"routing", "answering"} => \E k \in 0..Len(frames) - 1 : IsFront(k) /\ Complete(k)

\* The frame being served is at the front of the buffer.
LEMMA ServedIsFront ==
  ASSUME Inv, phase \in {"routing", "answering"}
  PROVE  \E k \in 0..Len(frames) - 1 : IsFront(k) /\ Complete(k)
<1>1. /\ Len(frames) \in Nat /\ written \in Nat /\ base \in Nat /\ read_pos \in Nat
      /\ DOMAIN frames = 1..Len(frames)
      /\ base + read_pos <= written /\ read_pos >= 2
  BY BufferAssumption DEF Inv, TypeOK, Buffered, FrontFrame
<1>2. base # written
  BY <1>1
<1>3. PICK i \in 1..Len(frames) : base = frames[i].at
  BY <1>1, <1>2 DEF Inv, Aligned
<1>4. i - 1 \in 0..Len(frames) - 1 /\ (i - 1) + 1 = i
  BY <1>1
<1>5. IsFront(i - 1)
  BY <1>3, <1>4 DEF IsFront
<1> QED
  BY <1>4, <1>5 DEF Inv, FrontFrame

\* The select! loop never blocks by itself, whatever the sizes of buffer and frames and
\* however the stream is cut: read is offered room, and every handler finds its frame.
THEOREM LoopNeverStuck == Spec => []NeverStuck
<1>1. Inv => NeverStuck
  BY RoomToRead, ServedIsFront DEF NeverStuck
<1> QED
  BY <1>1, InvAlways, PTL

\* The places of the loop in the order in which they come between two frames, two reads
\* or two notifications.
Stage(place) ==
  CASE place \in {"drain", "notifying"} -> 0
    [] place = "routing" -> 1
    [] place = "answering" -> 2
    [] place = "select" -> 3
    [] place = "closed" -> 4

\* Each step of the server is done with a frame, or reads on, or takes a notification, or
\* gets further without going back in any of these.  The buffer ends where the client's
\* bytes do (Buffered) and received stays up to sent (TypeOK), so that only new bytes and
\* new posts keep the loop going.
EveryServerStepAdvances ==
  [][ServerStep =>
       \/ base' > base
       \/ base' = base /\ read_pos' > read_pos
       \/ base' = base /\ read_pos' = read_pos /\ received' > received
       \/ UNCHANGED <<base, read_pos, received>> /\ Stage(phase') > Stage(phase)]_vars

\* The loop does not go round without consuming anything, whatever the client sends: the
\* measure on which FramesAreAnswered rests.
THEOREM LoopAlwaysAdvances == Spec => EveryServerStepAdvances
<1> DEFINE Advances ==
      \/ base' > base
      \/ base' = base /\ read_pos' > read_pos
      \/ base' = base /\ read_pos' = read_pos /\ received' > received
      \/ UNCHANGED <<base, read_pos, received>> /\ Stage(phase') > Stage(phase)
<1>1. ASSUME Inv, ServerStep
      PROVE  Advances
  <2>1. base \in Nat /\ read_pos \in Nat /\ received \in Nat
    BY <1>1, BufferAssumption DEF Inv, TypeOK
  <2>2. ASSUME NEW n \in 1..BufSize, Read(n)
        PROVE  Advances
    <3>1. n > 0 /\ n \in Nat /\ base' = base /\ read_pos' = read_pos + n
      BY <2>2, BufferAssumption DEF Read
    <3> QED
      BY <3>1, <2>1
  <2>3. ASSUME NEW k \in 0..Len(frames) - 1, DropFrame(k) \/ WriteAnswer(k)
        PROVE  Advances
    <3>1. k + 1 \in 1..Len(frames)
      BY <1>1, <2>3 DEF Inv, TypeOK
    <3>2. frames[k + 1].len \in Nat
      BY <1>1, <3>1, FrameNumbers
    <3>3. base' = base + 2 + frames[k + 1].len
      BY <2>3 DEF DropFrame, WriteAnswer, Shift
    <3>4. base' > base
      BY <3>2, <3>3, <2>1
    <3> QED
      BY <3>4
  <2>4. ASSUME NEW k \in 0..Len(frames) - 1, TakeFrame(k)
        PROVE  Advances
    <3>1. phase = "drain" /\ phase' \in {"answering", "routing"}
      BY <2>4 DEF TakeFrame, Goto
    <3>2. Stage(phase') > Stage(phase)
      BY <3>1 DEF Stage
    <3> QED
      BY <3>2, <2>4 DEF TakeFrame
  <2>5. ASSUME NEW k \in 0..Len(frames) - 1, Routed(k)
        PROVE  Advances
    <3>1. phase = "routing" /\ phase' \in {"answering", "closed"}
      BY <2>5 DEF Routed, Goto, Close
    <3>2. Stage(phase') > Stage(phase)
      BY <3>1 DEF Stage
    <3> QED
      BY <3>2, <2>5 DEF Routed
  <2>6. CASE ReadNothing \/ RecvError \/ WriteFails
    <3>1. phase \in {"select", "answering", "notifying"} /\ phase' = "closed"
      BY <2>6 DEF ReadNothing, RecvError, WriteFails, Goto, Close
    <3>2. Stage(phase') > Stage(phase)
      BY <3>1 DEF Stage
    <3> QED
      BY <3>2, <2>6 DEF ReadNothing, RecvError, WriteFails
  <2>7. CASE Await \/ WriteNotification
    <3>1. phase \in {"drain", "notifying"} /\ phase' = "select"
      BY <2>7 DEF Await, WriteNotification, Goto
    <3>2. Stage(phase') > Stage(phase)
      BY <3>1 DEF Stage
    <3> QED
      BY <3>2, <2>7 DEF Await, WriteNotification
  <2>8. CASE Notify
    BY <2>8, <2>1 DEF Notify
  <2> QED
    BY <1>1, <2>2, <2>3, <2>4, <2>5, <2>6, <2>7, <2>8 DEF ServerStep
<1>2. Inv /\ [Next]_vars => [ServerStep => Advances]_vars
  BY <1>1
<1>3. Spec => [][ServerStep => Advances]_vars
  BY <1>2, InvAlways, PTL DEF Spec
<1> QED
  BY <1>3 DEF EveryServerStepAdvances
==============================================================================
