--------------------------- MODULE HandshakeProofs ---------------------------
(***************************************************************************)
(* Theorems about Startup and about Handshake, which extends it, for any   *)
(* keys and clients, any sizes of message 1 and any number of crashes and  *)
(* failed statements.                                                      *)
(***************************************************************************)
EXTENDS Handshake, TLAPS
------------------------------------------------------------------------------
(* Startup. *)

\* What main has done by the time it reaches each statement.
Reached ==
  /\ phase \in (Booting \ {"schema"}) \cup {"serving"} => created = Tables
  /\ phase \in {"load_key", "store_key", "serving"} => trigger
  /\ phase = "store_key" /\ faults = 0 => stored = NoKey

Inv == TypeOK /\ Reached /\ ServedKeyIsStored /\ CrashesKeepIdentity

\* The empty database satisfies Inv.
LEMMA InvInit == Init => Inv
<1> SUFFICES ASSUME Init PROVE Inv
  OBVIOUS
<1>1. /\ created \in 0..Tables /\ crashes \in 0..MaxCrash /\ faults \in 0..MaxFaults
  BY StartupBoundAssumption DEF Init
<1>2. trigger \in BOOLEAN
  BY DEF Init
<1>3. /\ phase = "down" /\ stored = NoKey /\ sk = NoKey /\ drawn = {}
      /\ known = [c \in Client |-> NoKey]
  BY DEF Init
<1>4. TypeOK
  BY <1>1, <1>2, <1>3 DEF TypeOK
<1>5. Reached /\ ServedKeyIsStored /\ CrashesKeepIdentity
  BY <1>3 DEF Booting, Reached, ServedKeyIsStored, CrashesKeepIdentity
<1>6. QED
  BY <1>4, <1>5 DEF Inv

\* Every statement of main keeps Inv.
LEMMA BootInv ==
  ASSUME Inv, Boot
  PROVE  Inv'
<1> USE KeyAssumption, StartupBoundAssumption
        DEF Inv, TypeOK, Booting, Reached, ServedKeyIsStored, CrashesKeepIdentity, database
<1>1. CASE Start
  BY <1>1 DEF Start
<1>2. CASE RunSchema
  BY <1>2 DEF RunSchema
<1>3. CASE DropTrigger
  BY <1>3 DEF DropTrigger
<1>4. CASE CreateTrigger
  BY <1>4 DEF CreateTrigger, Exit
<1>5. CASE LoadKey
  BY <1>5 DEF LoadKey, DrawKey
<1>6. CASE StoreKey
  BY <1>6 DEF StoreKey
<1>7. QED
  BY <1>1, <1>2, <1>3, <1>4, <1>5, <1>6 DEF Boot

\* So does every failed statement: LoadFails may replace the key, but counts as a fault.
LEMMA FaultInv ==
  ASSUME Inv, Fault
  PROVE  Inv'
<1> USE KeyAssumption, StartupBoundAssumption
        DEF Inv, TypeOK, Booting, Reached, ServedKeyIsStored, CrashesKeepIdentity, database
<1>1. faults' \in 0..MaxFaults /\ faults' # 0 /\ UNCHANGED <<known, crashes>>
  BY DEF Fault
<1>2. CASE SchemaFails
  BY <1>1, <1>2 DEF SchemaFails, Exit
<1>3. CASE DropFails
  BY <1>1, <1>3 DEF DropFails
<1>4. CASE CreateFails
  BY <1>1, <1>4 DEF CreateFails, Exit
<1>5. CASE LoadFails
  BY <1>1, <1>5 DEF LoadFails, DrawKey
<1>6. CASE StoreFails
  BY <1>1, <1>6 DEF StoreFails, Exit
<1>7. QED
  BY <1>2, <1>3, <1>4, <1>5, <1>6 DEF Fault

\* Every step keeps Inv.
LEMMA InvStep == Inv /\ [Next]_vars => Inv'
<1> SUFFICES ASSUME Inv, [Next]_vars PROVE Inv'
  OBVIOUS
<1>1. CASE Crash
  BY <1>1, StartupBoundAssumption
  DEF Crash, Exit, database, Inv, TypeOK, Booting, Reached, ServedKeyIsStored,
      CrashesKeepIdentity
<1>2. CASE \E c \in Client : RegisterClient(c)
  BY <1>2
  DEF RegisterClient, database, Inv, TypeOK, Booting, Reached, ServedKeyIsStored,
      CrashesKeepIdentity
<1>3. CASE UNCHANGED vars
  BY <1>3
  DEF vars, database, Inv, TypeOK, Reached, ServedKeyIsStored, CrashesKeepIdentity
<1>4. QED
  BY <1>1, <1>2, <1>3, BootInv, FaultInv DEF Next

\* Inv holds throughout.
THEOREM InvAlways == Spec => []Inv
BY InvInit, InvStep, PTL DEF Spec

\* Type correctness of Startup.
THEOREM TypeCorrect == Spec => []TypeOK
BY InvAlways, PTL DEF Inv

\* The server never serves a request without its tables and the comment trigger.
THEOREM AlwaysReadyWhenServing == Spec => []ServesOnlyWhenReady
<1>1. Inv => ServesOnlyWhenReady
  BY DEF Inv, Reached, ServesOnlyWhenReady
<1>2. QED
  BY <1>1, InvAlways, PTL

\* The key in use is the key in the database.
THEOREM ServedKeyAlwaysStored == Spec => []ServedKeyIsStored
BY InvAlways, PTL DEF Inv

\* Crashes at any point of any number of starts keep the server's identity.
THEOREM CrashesAlwaysKeepIdentity == Spec => []CrashesKeepIdentity
BY InvAlways, PTL DEF Inv
------------------------------------------------------------------------------
(* Handshake. *)

LinkTyping ==
  /\ link \in [Client -> Link]
  /\ aim \in [Client -> drawn \cup {NoKey}]
  /\ ours \in [Client -> BOOLEAN]
  /\ offset \in [Client -> 0..MsgSize]

\* There are connections only while the server serves, and without a failed statement
\* each of them was made for the stored key.
Live ==
  \A c \in Client : link[c] # "closed" =>
    phase = "serving" /\ (faults = 0 => aim[c] = stored)

HandshakeInv == Inv /\ LinkTyping /\ Live /\ RefusedForCause /\ OpenForTheIdentity

\* No connections satisfy the invariant, whatever the server has been through.
LEMMA NoLinksInv ==
  ASSUME Inv, NoLinks
  PROVE  HandshakeInv
<1>1. 0 \in 0..MsgSize
  BY SizeAssumption DEF MsgSize
<1>2. \A c \in Client : link[c] = "closed"
  BY DEF NoLinks
<1>3. LinkTyping
  BY <1>1 DEF NoLinks, LinkTyping, Link
<1>4. QED
  BY <1>2, <1>3 DEF HandshakeInv, Live, RefusedForCause, OpenForTheIdentity

\* A start happens while there are no connections.
LEMMA BootHandshakeInv ==
  ASSUME HandshakeInv, Boot \/ Fault, UNCHANGED links
  PROVE  HandshakeInv'
<1>1. Inv'
  BY BootInv, FaultInv DEF HandshakeInv
<1>2. phase # "serving" /\ drawn \subseteq drawn'
  BY DEF Boot, Start, RunSchema, DropTrigger, CreateTrigger, LoadKey, StoreKey, DrawKey, Fault,
         SchemaFails, DropFails, CreateFails, LoadFails, StoreFails, database
<1>3. \A c \in Client : link'[c] = "closed"
  BY <1>2 DEF HandshakeInv, Live, links
<1>4. LinkTyping'
  BY <1>2 DEF HandshakeInv, LinkTyping, links
<1>5. QED
  BY <1>1, <1>3, <1>4 DEF HandshakeInv, Live, RefusedForCause, OpenForTheIdentity

\* A crash closes every connection.
LEMMA CrashHandshakeInv ==
  ASSUME HandshakeInv, CrashLinks
  PROVE  HandshakeInv'
<1>1. Inv'
  BY InvStep DEF CrashLinks, Next, HandshakeInv
<1>2. NoLinks'
  BY DEF CrashLinks, NoLinks
<1>3. 0 \in 0..MsgSize
  BY SizeAssumption DEF MsgSize
<1>4. \A c \in Client : link'[c] = "closed"
  BY <1>2 DEF NoLinks
<1>5. LinkTyping'
  BY <1>2, <1>3 DEF NoLinks, LinkTyping, Link
<1>6. QED
  BY <1>1, <1>4, <1>5 DEF HandshakeInv, Live, RefusedForCause, OpenForTheIdentity

\* What happens on the connection of one client leaves the server's state alone.
LEMMA OwnInv ==
  ASSUME Inv, UNCHANGED vars
  PROVE  Inv'
BY InvStep

\* Connecting keeps the invariant: crashes have not changed the key since c learned it.
LEMMA ConnectInv ==
  ASSUME HandshakeInv, NEW c \in Client, NEW trusted \in BOOLEAN, Connect(c, trusted)
  PROVE  HandshakeInv'
<1>1. Inv' /\ UNCHANGED <<phase, stored, drawn, faults>>
  BY OwnInv DEF HandshakeInv, Connect, vars, database
<1>2. 0 \in 0..MsgSize
  BY SizeAssumption DEF MsgSize
<1>3. known[c] \in drawn \cup {NoKey} /\ (faults = 0 => known[c] = stored)
  BY DEF Connect, HandshakeInv, Inv, TypeOK, CrashesKeepIdentity
<1>4. LinkTyping'
  BY <1>1, <1>2, <1>3 DEF Connect, HandshakeInv, LinkTyping, Link
<1>5. Live'
  BY <1>1, <1>3 DEF Connect, HandshakeInv, LinkTyping, Live
<1>6. RefusedForCause' /\ OpenForTheIdentity'
  BY <1>1 DEF Connect, HandshakeInv, LinkTyping, RefusedForCause, OpenForTheIdentity
<1>7. QED
  BY <1>1, <1>4, <1>5, <1>6 DEF HandshakeInv

\* Reading a segment keeps the invariant: sk is the stored key while the server serves.
LEMMA SegmentInv ==
  ASSUME HandshakeInv, NEW c \in Client, NEW n \in 1..MsgSize, ReadSegment(c, n)
  PROVE  HandshakeInv'
<1>1. Inv' /\ UNCHANGED <<phase, stored, drawn, faults, aim, ours>>
  BY OwnInv DEF HandshakeInv, ReadSegment, vars, database
<1>2. phase = "serving" /\ sk = stored /\ (faults = 0 => aim[c] = stored)
  BY DEF HandshakeInv, Inv, Live, ReadSegment, ServedKeyIsStored
<1>3. offset[c] \in 0..MsgSize /\ offset[c] + n \in 0..MsgSize
  BY SizeAssumption DEF ReadSegment, HandshakeInv, LinkTyping, MsgSize
<1>4. /\ link' = [link EXCEPT ![c] = ReadMessage1(c, offset[c] + n)]
      /\ offset' = [offset EXCEPT ![c] = offset[c] + n]
  BY DEF ReadSegment
<1>5. /\ ReadMessage1(c, offset[c] + n) \in {"reading", "answering", "refused"}
      /\ ReadMessage1(c, offset[c] + n) = "answering" => ours[c] /\ aim[c] = stored
      /\ ReadMessage1(c, offset[c] + n) = "refused" =>
           \/ ~ours[c]
           \/ offset[c] + n \in PointSize..MsgSize - 1
           \/ aim[c] # stored /\ faults > 0
  <2>1. faults \in Nat /\ PointSize \in Nat /\ MsgSize \in Nat
    BY SizeAssumption, StartupBoundAssumption DEF MsgSize, HandshakeInv, Inv, TypeOK
  <2>2. QED
    BY <1>2, <1>3, <2>1 DEF ReadMessage1
<1>6. LinkTyping'
  BY <1>1, <1>3, <1>4, <1>5 DEF HandshakeInv, LinkTyping, Link
<1>7. Live'
  BY <1>1, <1>2, <1>4 DEF HandshakeInv, LinkTyping, Live
<1>8. RefusedForCause'
  BY <1>1, <1>4, <1>5 DEF HandshakeInv, LinkTyping, RefusedForCause
<1>9. OpenForTheIdentity'
  BY <1>1, <1>2, <1>4, <1>5 DEF HandshakeInv, LinkTyping, OpenForTheIdentity
<1>10. QED
  BY <1>1, <1>6, <1>7, <1>8, <1>9 DEF HandshakeInv

\* Message 2 is only written to a client that RefusedForCause and OpenForTheIdentity
\* already vouch for.
LEMMA AnswerInv ==
  ASSUME HandshakeInv, NEW c \in Client, Answer(c)
  PROVE  HandshakeInv'
<1>1. Inv' /\ UNCHANGED <<phase, stored, drawn, faults, aim, ours, offset>>
  BY OwnInv DEF HandshakeInv, Answer, vars, database
<1>2. QED
  BY <1>1
  DEF Answer, HandshakeInv, LinkTyping, Link, Live, RefusedForCause, OpenForTheIdentity

\* A closed connection has nothing to say.
LEMMA ClosedInv ==
  ASSUME HandshakeInv, NEW c \in Client, Closed(c)
  PROVE  HandshakeInv'
<1>1. Inv' /\ UNCHANGED <<phase, stored, drawn, faults>>
  BY OwnInv DEF HandshakeInv, Closed, vars, database
<1>2. 0 \in 0..MsgSize
  BY SizeAssumption DEF MsgSize
<1>3. LinkTyping'
  BY <1>1, <1>2 DEF Closed, HandshakeInv, LinkTyping, Link
<1>4. QED
  BY <1>1, <1>3 DEF Closed, HandshakeInv, LinkTyping, Live, RefusedForCause, OpenForTheIdentity

\* Registering again gives the client a key; its connection keeps the one it was made for.
LEMMA RegisterHandshakeInv ==
  ASSUME HandshakeInv, NEW c \in Client, RegisterClient(c), UNCHANGED links
  PROVE  HandshakeInv'
<1>1. Inv'
  BY InvStep DEF Next, HandshakeInv
<1>2. UNCHANGED <<phase, stored, drawn, faults>>
  BY DEF RegisterClient, database
<1>3. QED
  BY <1>1, <1>2
  DEF links, HandshakeInv, LinkTyping, Live, RefusedForCause, OpenForTheIdentity

\* Every step keeps the invariant.
LEMMA HandshakeInvStep == HandshakeInv /\ [HandshakeNext]_handshakeVars => HandshakeInv'
<1> SUFFICES ASSUME HandshakeInv, [HandshakeNext]_handshakeVars PROVE HandshakeInv'
  OBVIOUS
<1>1. CASE UNCHANGED handshakeVars
  <2>1. Inv' /\ UNCHANGED <<phase, stored, drawn, faults>>
    BY <1>1, OwnInv DEF handshakeVars, HandshakeInv, vars, database
  <2>2. QED
    BY <1>1, <2>1
    DEF handshakeVars, links, HandshakeInv, LinkTyping, Live, RefusedForCause, OpenForTheIdentity
<1>2. ASSUME NEW c \in Client, Hangup(c) \/ Timeout(c)
      PROVE  HandshakeInv'
  BY <1>2, ClosedInv DEF Hangup, Timeout
<1>3. QED
  BY <1>1, <1>2, BootHandshakeInv, CrashHandshakeInv, ConnectInv, SegmentInv, AnswerInv,
     RegisterHandshakeInv
  DEF HandshakeNext, HandshakeStep

\* The invariant holds throughout.
LEMMA HandshakeInvAlways == HandshakeSpec => []HandshakeInv
<1>1. HandshakeInit => HandshakeInv
  BY InvInit, NoLinksInv DEF HandshakeInit
<1>2. QED
  BY <1>1, HandshakeInvStep, PTL DEF HandshakeSpec

\* A segment leaves the loop reading only within the point.
LEMMA ShortStep == HandshakeInv /\ ReadingIsShort /\ [HandshakeNext]_handshakeVars => ReadingIsShort'
<1> SUFFICES ASSUME HandshakeInv, ReadingIsShort, [HandshakeNext]_handshakeVars
             PROVE  ReadingIsShort'
  OBVIOUS
<1>0. link \in [Client -> Link] /\ offset \in [Client -> 0..MsgSize]
  BY DEF HandshakeInv, LinkTyping
<1>1. CASE UNCHANGED links
  BY <1>1 DEF links, ReadingIsShort
<1>2. CASE CrashLinks
  BY <1>2 DEF CrashLinks, ReadingIsShort
<1>3. ASSUME NEW c \in Client, Closed(c) \/ Answer(c)
      PROVE  ReadingIsShort'
  BY <1>0, <1>3 DEF Closed, Answer, ReadingIsShort
<1>4. ASSUME NEW c \in Client, NEW n \in 1..MsgSize, ReadSegment(c, n)
      PROVE  ReadingIsShort'
  <2>1. /\ link' = [link EXCEPT ![c] = ReadMessage1(c, offset[c] + n)]
        /\ offset' = [offset EXCEPT ![c] = offset[c] + n]
    BY <1>4 DEF ReadSegment
  <2>2. offset[c] + n \in Nat /\ PointSize \in Nat
    BY <1>0, SizeAssumption DEF MsgSize
  <2>3. ReadMessage1(c, offset[c] + n) = "reading" => offset[c] + n < PointSize
    BY <2>2 DEF ReadMessage1
  <2> QED
    BY <1>0, <2>1, <2>3 DEF ReadingIsShort
<1>5. ASSUME NEW c \in Client, NEW trusted \in BOOLEAN, Connect(c, trusted)
      PROVE  ReadingIsShort'
  BY <1>0, <1>5, SizeAssumption DEF Connect, ReadingIsShort
<1> QED
  BY <1>1, <1>2, <1>3, <1>4, <1>5
  DEF HandshakeNext, handshakeVars, Hangup, HandshakeStep, Timeout

\* ReadingIsShort holds throughout.
LEMMA ShortAlways == HandshakeSpec => []ReadingIsShort
<1>1. HandshakeInit => ReadingIsShort
  BY DEF HandshakeInit, NoLinks, ReadingIsShort
<1>2. QED
  BY <1>1, ShortStep, HandshakeInvAlways, PTL DEF HandshakeSpec

\* Type correctness of Handshake and of the server's starts under it; a task never reads
\* on with the point complete, into a buffer that may be full.
THEOREM HandshakeTypeCorrect == HandshakeSpec => []HandshakeTypeOK
<1>1. HandshakeInv /\ ReadingIsShort => HandshakeTypeOK
  BY DEF HandshakeInv, LinkTyping, HandshakeTypeOK, Inv
<1>2. QED
  BY <1>1, HandshakeInvAlways, ShortAlways, PTL

\* Connections come and go without a trace in the server's keys and tables: every
\* behaviour is one of Startup, and its theorems hold.
THEOREM HandshakeImplementsStartup == HandshakeSpec => Spec
<1>1. HandshakeInit => Init
  BY DEF HandshakeInit
<1>2. [HandshakeNext]_handshakeVars => [Next]_vars
  BY DEF HandshakeNext, handshakeVars, CrashLinks, Next, HandshakeStep, ReadSegment, Answer,
         Timeout, Hangup, Closed, Connect
<1>3. QED
  BY <1>1, <1>2, PTL DEF HandshakeSpec, Spec

\* A refused handshake was made with another prologue, cut in the tag, or made for a key
\* that a failed statement replaced.
THEOREM AlwaysRefusedForCause == HandshakeSpec => []RefusedForCause
BY HandshakeInvAlways, PTL DEF HandshakeInv

\* An open connection was made for the stored key and with the server's prologue.
THEOREM AlwaysOpenForTheIdentity == HandshakeSpec => []OpenForTheIdentity
BY HandshakeInvAlways, PTL DEF HandshakeInv
------------------------------------------------------------------------------
(* What HandshakesEnd rests on beside fairness. *)

\* A handshake in progress only ever gets on: a step leaves it alone, or has read more of
\* the point, or has read the message, or ends it.  Nothing restarts its reading.
EveryHandshakeAdvances ==
  [][\A c \in Client :
       /\ link[c] = "reading" =>
            \/ link'[c] = "reading" /\ offset'[c] = offset[c]
            \/ link'[c] = "reading" /\ offset'[c] \in offset[c] + 1..PointSize - 1
            \/ link'[c] \in {"answering", "refused", "closed"}
       /\ link[c] = "answering" => link'[c] \in {"answering", "open", "closed"}]_handshakeVars

\* handshake goes round its loop at most once per byte of the point, for any sizes and
\* whatever other connections, restarts and faults come in between: the measure on which
\* HandshakesEnd rests, beside the timer.
THEOREM HandshakesAlwaysAdvance == HandshakeSpec => EveryHandshakeAdvances
<1> DEFINE Advances(c) ==
      /\ link[c] = "reading" =>
           \/ link'[c] = "reading" /\ offset'[c] = offset[c]
           \/ link'[c] = "reading" /\ offset'[c] \in offset[c] + 1..PointSize - 1
           \/ link'[c] \in {"answering", "refused", "closed"}
      /\ link[c] = "answering" => link'[c] \in {"answering", "open", "closed"}
<1>1. ASSUME HandshakeInv, ReadingIsShort', HandshakeNext, NEW c \in Client
      PROVE  Advances(c)
  <2>0. link \in [Client -> Link] /\ offset \in [Client -> 0..MsgSize]
    BY <1>1 DEF HandshakeInv, LinkTyping
  <2>1. CASE UNCHANGED <<link, offset>>
    BY <2>1
  <2>2. CASE CrashLinks
    BY <2>2 DEF CrashLinks
  <2>3. ASSUME NEW d \in Client, Closed(d) \/ Answer(d)
        PROVE  Advances(c)
    BY <2>0, <2>3 DEF Closed, Answer
  <2>4. ASSUME NEW d \in Client, NEW trusted \in BOOLEAN, Connect(d, trusted)
        PROVE  Advances(c)
    BY <2>0, <2>4 DEF Connect
  <2>5. ASSUME NEW d \in Client, NEW n \in 1..MsgSize, ReadSegment(d, n)
        PROVE  Advances(c)
    <3>1. CASE d # c
      BY <2>0, <2>5, <3>1 DEF ReadSegment
    <3>2. CASE d = c
      <4>1. /\ link[c] = "reading"
            /\ link'[c] = ReadMessage1(c, offset[c] + n)
            /\ offset'[c] = offset[c] + n
        BY <2>0, <2>5, <3>2 DEF ReadSegment
      <4>2. ReadMessage1(c, offset[c] + n) \in {"reading", "answering", "refused"}
        <5>1. offset[c] + n \in Nat /\ PointSize \in Nat
          BY <2>0, SizeAssumption DEF MsgSize
        <5> QED
          BY <5>1 DEF ReadMessage1
      <4>3. link'[c] = "reading" => offset'[c] < PointSize
        BY <1>1 DEF ReadingIsShort
      <4>4. link'[c] = "reading" => offset'[c] \in offset[c] + 1..PointSize - 1
        <5>1. offset[c] \in Nat /\ n \in Nat /\ n >= 1 /\ PointSize \in Nat
          BY <2>0, SizeAssumption DEF MsgSize
        <5> QED
          BY <4>1, <4>3, <5>1
      <4> QED
        BY <4>1, <4>2, <4>4
    <3> QED
      BY <3>1, <3>2
  <2> QED
    BY <1>1, <2>1, <2>2, <2>3, <2>4, <2>5
    DEF HandshakeNext, links, Hangup, HandshakeStep, Timeout
<1>2. HandshakeInv /\ ReadingIsShort' /\ [HandshakeNext]_handshakeVars
        => [\A c \in Client : Advances(c)]_handshakeVars
  BY <1>1
<1>3. HandshakeSpec => [][\A c \in Client : Advances(c)]_handshakeVars
  BY ShortAlways, <1>2, HandshakeInvAlways, PTL DEF HandshakeSpec
<1> QED
  BY <1>3 DEF EveryHandshakeAdvances
==============================================================================
