---------------------------- MODULE Notifications ----------------------------
(***************************************************************************)
(* The notification channel of the server and all the connections on it:   *)
(* AppState.notifications, into which the post handler sends and from      *)
(* which the loop of handle_connection receives (server/src/noise.rs).     *)
(*                                                                         *)
(* NoiseConnection has one such loop in detail; here a request is one      *)
(* frame, and what is kept of it is how posts, the feed and notifications  *)
(* meet: a notification only tells a client to fetch the feed, of which an *)
(* answer holds one page, by the timestamps that authors give.             *)
(***************************************************************************)
EXTENDS Integers, Sequences, FiniteSets

CONSTANTS
  Client,     \* each has one connection at a time
  Reader,     \* those that read what they are sent
  Capacity,   \* notifications the channel keeps for a slow receiver: 16
  Window,     \* messages the transport holds for a client that does not read
  Batch,      \* frames that one read can put into read_buf
  Stamp,      \* the timestamp of each post, in the order of their INSERTs
  Limit,      \* the limits of feed requests, clamped
  MaxPost,    \* bound: posts stored
  MaxFaults   \* bound: failed statements and lost answers

ASSUME ReaderAssumption == Reader \subseteq Client
ASSUME NotificationBoundAssumption ==
  /\ Capacity \in Nat \ {0} /\ Window \in Nat \ {0} /\ Batch \in Nat
  /\ MaxPost \in Nat /\ MaxFaults \in Nat
ASSUME FeedAssumption == Stamp \in [1..MaxPost -> Int] /\ Limit \subseteq Nat \ {0}

VARIABLES
  posts,      \* the posts stored are 1..posts, in the order of their INSERTs
  announced,  \* the notifications sent, each as the post it is about
  at,         \* per client, where the task of its connection is
  frames,     \* complete frames in its read_buf
  mine,       \* the post its handler has stored and is to announce; 0: none
  position,   \* how many notifications its receiver is past
  current,    \* history: it has the feed's first page and no notification since,
  page,       \* the posts on that page,
  more,       \* and whether the page had a next_cursor
  unread,     \* messages written to it and not read
  faults

shared == <<posts, announced, faults>>
view == <<current, page, more>>
vars == <<shared, at, frames, mine, position, view, unread>>

Place == {"away", "handshaken", "select", "drain", "insert", "send", "query", "answer", "notify"}
Subscribed(c) == at[c] \notin {"away", "handshaken"}

TypeOK ==
  /\ posts \in 0..MaxPost
  /\ announced \in Seq(1..posts)
  /\ at \in [Client -> Place]
  /\ frames \in [Client -> 0..Batch]
  /\ mine \in [Client -> 0..posts]
  /\ position \in [Client -> 0..Len(announced)]
  /\ current \in [Client -> BOOLEAN]
  /\ page \in [Client -> SUBSET (1..posts)]
  /\ more \in [Client -> BOOLEAN]
  /\ unread \in [Client -> 0..Window]
  /\ faults \in 0..MaxFaults

Init ==
  /\ posts = 0 /\ announced = <<>> /\ faults = 0
  /\ at = [c \in Client |-> "away"]
  /\ frames = [c \in Client |-> 0]
  /\ mine = [c \in Client |-> 0]
  /\ position = [c \in Client |-> 0]
  /\ current = [c \in Client |-> FALSE]
  /\ page = [c \in Client |-> {}]
  /\ more = [c \in Client |-> FALSE]
  /\ unread = [c \in Client |-> 0]

Goto(c, place) == at' = [at EXCEPT ![c] = place]

\* The page of c is no longer one that it may take for current.
Outdate(c) ==
  /\ current' = [current EXCEPT ![c] = FALSE]
  /\ page' = [page EXCEPT ![c] = {}]
  /\ more' = [more EXCEPT ![c] = FALSE]
------------------------------------------------------------------------------
(* A connection begins and ends. *)

\* handshake has written message 2, and the client takes the connection for open.
Handshake(c) ==
  /\ at[c] = "away"
  /\ Goto(c, "handshaken")
  /\ UNCHANGED <<shared, frames, mine, position, view, unread>>

\* state.notifications.subscribe(): the receiver starts behind the last notification.
Subscribe(c) ==
  /\ at[c] = "handshaken"
  /\ position' = [position EXCEPT ![c] = Len(announced)]
  /\ Goto(c, "select")
  /\ UNCHANGED <<shared, frames, mine, view, unread>>

\* handle_connection returns, and the connection's state with it.
Return(c) ==
  /\ Goto(c, "away")
  /\ frames' = [frames EXCEPT ![c] = 0]
  /\ mine' = [mine EXCEPT ![c] = 0]
  /\ position' = [position EXCEPT ![c] = 0]
  /\ Outdate(c)
  /\ unread' = [unread EXCEPT ![c] = 0]
  /\ UNCHANGED shared

\* Mutant: the handler is dropped with the connection, wherever it is.
DisconnectAnywhere(c) == at[c] \notin {"away", "handshaken"} /\ Return(c)

\* The client has gone, which the task notices when it reads or writes, and only then.
Disconnect(c) == at[c] \in {"select", "answer", "notify"} /\ Return(c)
------------------------------------------------------------------------------
(* The read branch of select!. *)

\* Bytes arrive that complete some frames.
Read(c) ==
  /\ at[c] = "select"
  /\ \E n \in 1..Batch : frames' = [frames EXCEPT ![c] = n]
  /\ Goto(c, "drain")
  /\ UNCHANGED <<shared, mine, position, view, unread>>

\* The next frame of the batch is a post that is not refused.
TakePost(c) ==
  /\ at[c] = "drain"
  /\ frames[c] > 0
  /\ posts + Cardinality({d \in Client : at[d] = "insert"}) < MaxPost
  /\ frames' = [frames EXCEPT ![c] = @ - 1]
  /\ Goto(c, "insert")
  /\ UNCHANGED <<shared, mine, position, view, unread>>

\* It is a feed request, or one that is answered without posting or reading the feed:
\* a refused post, a malformed frame, a request of another kind.
TakeOther(c) ==
  /\ at[c] = "drain"
  /\ frames[c] > 0
  /\ frames' = [frames EXCEPT ![c] = @ - 1]
  /\ \E place \in {"query", "answer"} : Goto(c, place)
  /\ UNCHANGED <<shared, mine, position, view, unread>>

\* The batch is done.
Await(c) ==
  /\ at[c] = "drain"
  /\ frames[c] = 0
  /\ Goto(c, "select")
  /\ UNCHANGED <<shared, frames, mine, position, view, unread>>

Stored(c) == posts < MaxPost /\ posts' = posts + 1

\* submit_post stores the post.
Insert(c) ==
  /\ at[c] = "insert"
  /\ Stored(c)
  /\ mine' = [mine EXCEPT ![c] = posts + 1]
  /\ Goto(c, "send")
  /\ UNCHANGED <<announced, faults, frames, position, view, unread>>

\* Mutant: the channel is a bounded queue, and send waits for the slowest receiver.
SendWaits(c) ==
  /\ at[c] = "send"
  /\ \A d \in Client \ {c} : Subscribed(d) => Len(announced) - position[d] < Capacity
  /\ announced' = Append(announced, mine[c])
  /\ mine' = [mine EXCEPT ![c] = 0]
  /\ Goto(c, "answer")
  /\ UNCHANGED <<posts, faults, frames, position, view, unread>>

\* notifications.send, which never waits: it overwrites the oldest notification.
Send(c) ==
  /\ at[c] = "send"
  /\ announced' = Append(announced, mine[c])
  /\ mine' = [mine EXCEPT ![c] = 0]
  /\ Goto(c, "answer")
  /\ UNCHANGED <<posts, faults, frames, position, view, unread>>

\* ORDER BY timestamp DESC, id DESC LIMIT n, without a cursor.
IsFirstPage(first, n) ==
  /\ first \subseteq 1..posts
  /\ Cardinality(first) <= n
  /\ Cardinality(first) < n => first = 1..posts
  /\ \A i \in first, j \in (1..posts) \ first :
       Stamp[i] > Stamp[j] \/ (Stamp[i] = Stamp[j] /\ i > j)

\* fetch_feed without a cursor; a full page has a next_cursor, its oldest timestamp.
FetchFirstPage(c) ==
  \E n \in Limit, first \in SUBSET (1..posts) :
    /\ IsFirstPage(first, n)
    /\ current' = [current EXCEPT ![c] = TRUE]
    /\ page' = [page EXCEPT ![c] = first]
    /\ more' = [more EXCEPT ![c] = Cardinality(first) >= n]

\* A feed request: the first page, or with a cursor one of those behind it.
Query(c) ==
  /\ at[c] = "query"
  /\ FetchFirstPage(c) \/ UNCHANGED view
  /\ Goto(c, "answer")
  /\ UNCHANGED <<shared, frames, mine, position, unread>>

\* The statement fails, or the INSERT is applied and its answer lost: "internal error".
StatementFails(c) ==
  /\ at[c] \in {"insert", "query"}
  /\ faults < MaxFaults
  /\ faults' = faults + 1
  /\ \/ UNCHANGED posts
     \/ at[c] = "insert" /\ Stored(c)
  /\ Goto(c, "answer")
  /\ UNCHANGED <<announced, frames, mine, position, view, unread>>

\* Mutant: the answer is queued without waiting for the transport.
AnswerAtOnce(c) ==
  /\ at[c] = "answer"
  /\ unread' = [unread EXCEPT ![c] = @ + 1]
  /\ Goto(c, "drain")
  /\ UNCHANGED <<shared, frames, mine, position, view>>

\* write_all waits until the transport takes the answer.
Answer(c) ==
  /\ at[c] = "answer"
  /\ unread[c] < Window
  /\ unread' = [unread EXCEPT ![c] = @ + 1]
  /\ Goto(c, "drain")
  /\ UNCHANGED <<shared, frames, mine, position, view>>
------------------------------------------------------------------------------
(* The notification branch of select!. *)

Notify(c) ==
  /\ at[c] = "select"
  /\ position[c] < Len(announced)
  /\ Len(announced) - position[c] <= Capacity
  /\ position' = [position EXCEPT ![c] = @ + 1]
  /\ Goto(c, "notify")
  /\ UNCHANGED <<shared, frames, mine, view, unread>>

\* Mutants: on Lagged the receiver subscribes again; or the error is only logged.
LagResubscribes(c) ==
  /\ at[c] = "select"
  /\ Len(announced) - position[c] > Capacity
  /\ position' = [position EXCEPT ![c] = Len(announced)]
  /\ UNCHANGED <<shared, at, frames, mine, view, unread>>

LagIgnored(c) ==
  /\ at[c] = "select"
  /\ Len(announced) - position[c] > Capacity
  /\ UNCHANGED vars

\* recv reports Lagged, and the loop ends.
Lag(c) ==
  /\ at[c] = "select"
  /\ Len(announced) - position[c] > Capacity
  /\ Return(c)

\* The notification tells the client to fetch the feed again.
WriteNotification(c) ==
  /\ at[c] = "notify"
  /\ unread[c] < Window
  /\ unread' = [unread EXCEPT ![c] = @ + 1]
  /\ Outdate(c)
  /\ Goto(c, "select")
  /\ UNCHANGED <<shared, frames, mine, position>>

ClientRead(c) ==
  /\ unread[c] > 0
  /\ unread' = [unread EXCEPT ![c] = @ - 1]
  /\ UNCHANGED <<shared, at, frames, mine, position, view>>
------------------------------------------------------------------------------
\* What the task of c does by itself, once it has bytes or a notification.
Serve(c) ==
  \/ Subscribe(c) \/ TakePost(c) \/ TakeOther(c) \/ Await(c) \/ Insert(c) \/ Send(c)
  \/ Query(c) \/ StatementFails(c) \/ Answer(c) \/ WriteNotification(c)

Receive(c) == Notify(c) \/ Lag(c)

Next ==
  \E c \in Client :
    Handshake(c) \/ Disconnect(c) \/ Read(c) \/ Serve(c) \/ Receive(c) \/ ClientRead(c)

Spec == Init /\ [][Next]_vars

\* Tasks are scheduled; select! chooses among its ready branches at random, so that a
\* notification is not passed over for ever; of the clients, only readers must read.
FairSpec ==
  /\ Spec
  /\ \A c \in Client : WF_vars(Serve(c)) /\ SF_vars(Receive(c))
  /\ \A c \in Reader : WF_vars(ClientRead(c))
------------------------------------------------------------------------------
(* Properties. *)

\* The page is full and p is dated no later than any post on it: paging on from its
\* next_cursor finds p, unless p has the very timestamp of the cursor (see Feed).
BehindPage(c, p) == more[c] /\ \A q \in page[c] : Stamp[q] >= Stamp[p]

\* Between the feed and the notifications nothing slips through: while a client has a
\* first page and has been sent no notification since, every announced post is on that
\* page or behind it, or its notification is still to come or about to be written.
NothingSlips ==
  \A c \in Client : Subscribed(c) /\ current[c] =>
    \A i \in DOMAIN announced :
      \/ announced[i] \in page[c] \/ BehindPage(c, announced[i])
      \/ i > position[c] \/ at[c] = "notify"

\* Stored posts that were neither announced nor are about to be.
Unannounced ==
  {p \in 1..posts : /\ \A i \in DOMAIN announced : announced[i] # p
                    /\ \A c \in Client : mine[c] # p}

\* Only a fault keeps a stored post from being announced, each fault one; a poster that
\* goes away while its post is stored does not.
PostsAreAnnounced == Cardinality(Unannounced) <= faults

\* A client that reads is told of every announcement, or its connection ends, although
\* others read nothing at all.
ReadersAreTold ==
  \A c \in Reader, i \in 1..MaxPost :
    (Subscribed(c) /\ position[c] < i /\ i <= Len(announced))
      ~> (at[c] = "away" \/ (position[c] >= i /\ at[c] # "notify"))

\* Nor do those others keep a client's own requests from being answered.
ReadersAreAnswered ==
  \A c \in Reader : at[c] \in {"insert", "send", "query", "answer"} ~> at[c] \in {"drain", "away"}
==============================================================================
