------------------------- MODULE NotificationsProofs -------------------------
(* Theorems about Notifications, for any clients, any capacity and any bounds. *)
EXTENDS Notifications, FiniteSetTheorems, TLAPS

\* Only a handler between its INSERT and its send has a post to announce, and only a
\* subscribed connection has a page of the feed.
Held(c) ==
  /\ mine[c] # 0 => at[c] = "send"
  /\ at[c] = "send" => mine[c] # 0
  /\ current[c] => Subscribed(c)

Inv ==
  /\ TypeOK
  /\ \A c \in Client : Held(c)
  /\ NothingSlips

\* An idle server satisfies Inv.
LEMMA InvInit == Init => Inv
BY NotificationBoundAssumption
DEF Init, Inv, TypeOK, Held, NothingSlips, Subscribed, Place

\* Returning keeps Inv: the connection has nothing left to be told.
LEMMA ReturnInv ==
  ASSUME Inv, NEW c \in Client, Return(c)
  PROVE  Inv'
<1>1. TypeOK'
  BY NotificationBoundAssumption DEF Inv, TypeOK, Return, Outdate, Goto, Place, shared
<1>2. \A d \in Client : Held(d)'
  BY DEF Inv, TypeOK, Return, Outdate, Goto, Held, Subscribed
<1>3. NothingSlips'
  BY DEF Inv, TypeOK, Return, Outdate, Goto, NothingSlips, BehindPage, Subscribed, shared
<1>4. QED
  BY <1>1, <1>2, <1>3 DEF Inv

\* A sequence of posts stays one when more posts are stored.
LEMMA SeqWidens ==
  ASSUME NEW S, NEW T, S \subseteq T, NEW s \in Seq(S)
  PROVE  s \in Seq(T)
OBVIOUS

\* A step that moves one task and changes neither posts nor what anybody was told.
LEMMA MoveInv ==
  ASSUME Inv, NEW c \in Client, NEW place \in Place \ {"away", "handshaken", "send"},
         Goto(c, place), at[c] \notin {"notify", "send"},
         frames' \in [Client -> 0..Batch], unread' \in [Client -> 0..Window],
         faults' \in 0..MaxFaults, posts' \in posts..MaxPost,
         UNCHANGED <<announced, mine, position, view>>
  PROVE  Inv'
<1>1. posts \in Nat /\ posts' \in Nat /\ posts <= posts'
  BY NotificationBoundAssumption DEF Inv, TypeOK
<1>2. 1..posts \subseteq 1..posts' /\ 0..posts \subseteq 0..posts'
  BY <1>1
<1>3. announced' \in Seq(1..posts')
  BY <1>2, SeqWidens DEF Inv, TypeOK
<1>4. mine' \in [Client -> 0..posts'] /\ page' \in [Client -> SUBSET (1..posts')]
  BY <1>2 DEF Inv, TypeOK, view
<1>5. TypeOK'
  <2>1. posts' \in 0..MaxPost
    BY <1>1, NotificationBoundAssumption DEF Inv, TypeOK
  <2>2. at' \in [Client -> Place]
    BY DEF Inv, TypeOK, Goto
  <2>3. QED
    BY <1>3, <1>4, <2>1, <2>2 DEF Inv, TypeOK, view
<1>6. \A d \in Client : Held(d)'
  BY DEF Inv, TypeOK, Held, Goto, Subscribed, view
<1>7. NothingSlips'
  BY DEF Inv, TypeOK, Held, NothingSlips, BehindPage, Goto, Subscribed, view
<1>8. QED
  BY <1>5, <1>6, <1>7 DEF Inv

\* The beginning of a connection keeps Inv.
LEMMA OpeningInv ==
  ASSUME Inv, NEW c \in Client, Handshake(c) \/ Subscribe(c)
  PROVE  Inv'
<1>1. ~current[c]
  BY DEF Inv, Held, Handshake, Subscribe, Subscribed
<1>2. Len(announced) \in Nat
  BY DEF Inv, TypeOK
<1>3. TypeOK'
  <2>1. at' \in [Client -> Place] /\ position' \in [Client -> 0..Len(announced)]
    <3>1. at \in [Client -> Place] /\ position \in [Client -> 0..Len(announced)]
      BY DEF Inv, TypeOK
    <3>2. CASE Handshake(c)
      BY <3>1, <3>2 DEF Handshake, Goto, Place
    <3>3. CASE Subscribe(c)
      BY <1>2, <3>1, <3>3 DEF Subscribe, Goto, Place
    <3>4. QED
      BY <3>2, <3>3
  <2>2. UNCHANGED <<shared, frames, mine, view, unread>>
    BY DEF Handshake, Subscribe
  <2>3. QED
    BY <2>1, <2>2 DEF Inv, TypeOK, shared, view
<1>4. \A d \in Client : Held(d)'
  BY <1>1 DEF Handshake, Subscribe, Inv, TypeOK, Held, Goto, Subscribed, shared, view
<1>5. NothingSlips'
  BY <1>1
  DEF Handshake, Subscribe, Inv, TypeOK, NothingSlips, BehindPage, Goto, Subscribed, shared,
      view
<1>6. QED
  BY <1>3, <1>4, <1>5 DEF Inv

\* The read branch of select! keeps Inv.
LEMMA RequestInv ==
  ASSUME Inv, NEW c \in Client,
         Read(c) \/ TakePost(c) \/ TakeOther(c) \/ Await(c) \/ StatementFails(c) \/ Answer(c)
  PROVE  Inv'
<1> USE NotificationBoundAssumption DEF Place, shared
<1>0. /\ posts \in 0..MaxPost /\ posts \in posts..MaxPost
      /\ faults \in 0..MaxFaults
      /\ frames \in [Client -> 0..Batch] /\ unread \in [Client -> 0..Window]
  BY DEF Inv, TypeOK
<1>1. CASE Read(c)
  BY <1>0, <1>1, MoveInv DEF Read
<1>2. CASE TakePost(c)
  BY <1>0, <1>2, MoveInv DEF TakePost
<1>3. CASE TakeOther(c)
  BY <1>0, <1>3, MoveInv DEF TakeOther
<1>4. CASE Await(c)
  BY <1>0, <1>4, MoveInv DEF Await
<1>5. CASE StatementFails(c)
  <2>1. posts' \in posts..MaxPost /\ faults' \in 0..MaxFaults
    BY <1>0, <1>5 DEF StatementFails, Stored
  <2>2. QED
    BY <1>0, <1>5, <2>1, MoveInv DEF StatementFails
<1>6. CASE Answer(c)
  BY <1>0, <1>6, MoveInv DEF Answer
<1>7. QED
  BY <1>1, <1>2, <1>3, <1>4, <1>5, <1>6

\* The INSERT keeps Inv: the new post is announced by nobody yet.
LEMMA InsertInv ==
  ASSUME Inv, NEW c \in Client, Insert(c)
  PROVE  Inv'
<1>1. posts \in Nat /\ posts' = posts + 1 /\ posts' \in 0..MaxPost
  BY NotificationBoundAssumption DEF Insert, Stored, Inv, TypeOK
<1>2. 1..posts \subseteq 1..posts' /\ 0..posts \subseteq 0..posts' /\ posts + 1 \in 0..posts'
  BY <1>1
<1>3. announced' \in Seq(1..posts')
  BY <1>2, SeqWidens DEF Insert, Inv, TypeOK
<1>4. mine' \in [Client -> 0..posts'] /\ page' \in [Client -> SUBSET (1..posts')]
  BY <1>2 DEF Insert, Inv, TypeOK, view
<1>5. TypeOK'
  BY <1>1, <1>3, <1>4 DEF Insert, Inv, TypeOK, Goto, Place, view
<1>6. \A d \in Client : Held(d)'
  BY <1>1 DEF Insert, Inv, TypeOK, Held, Goto, Subscribed, view
<1>7. NothingSlips'
  BY DEF Insert, Inv, TypeOK, NothingSlips, BehindPage, Goto, Subscribed, view
<1>8. QED
  BY <1>5, <1>6, <1>7 DEF Inv

\* The send keeps Inv: no receiver is past the new notification.
LEMMA SendInv ==
  ASSUME Inv, NEW c \in Client, Send(c)
  PROVE  Inv'
<1>1. posts \in Nat /\ mine[c] \in 1..posts
  BY NotificationBoundAssumption DEF Send, Inv, TypeOK, Held
<1>2. /\ announced' \in Seq(1..posts)
      /\ Len(announced) \in Nat /\ Len(announced') = Len(announced) + 1
      /\ \A i \in DOMAIN announced' : i = Len(announced) + 1 \/ i \in DOMAIN announced
      /\ \A i \in DOMAIN announced : announced'[i] = announced[i]
  BY <1>1 DEF Send, Inv, TypeOK
<1>3. TypeOK'
  <2>1. position' \in [Client -> 0..Len(announced')]
    BY <1>2 DEF Send, Inv, TypeOK
  <2>2. mine' \in [Client -> 0..posts]
    BY <1>1 DEF Send, Inv, TypeOK
  <2>3. QED
    BY <1>2, <2>1, <2>2 DEF Send, Inv, TypeOK, Goto, Place, view
<1>4. \A d \in Client : Held(d)'
  BY DEF Send, Inv, TypeOK, Held, Goto, Subscribed, view
<1>5. NothingSlips'
  <2> SUFFICES ASSUME NEW d \in Client, Subscribed(d)', current[d], NEW i \in DOMAIN announced'
               PROVE  \/ announced'[i] \in page[d] \/ BehindPage(d, announced'[i])
                      \/ i > position[d] \/ at'[d] = "notify"
    BY DEF NothingSlips, BehindPage, Send, view
  <2>1. CASE i = Len(announced) + 1
    <3>1. position[d] \in 0..Len(announced)
      BY DEF Inv, TypeOK
    <3>2. QED
      BY <1>2, <2>1, <3>1
  <2>2. CASE i \in DOMAIN announced
    <3>1. Subscribed(d) /\ at[d] = "notify" => at'[d] = "notify"
      BY DEF Send, Goto, Inv, TypeOK, Subscribed
    <3>2. Subscribed(d)
      BY DEF Inv, Held
    <3>3. QED
      BY <1>2, <2>2, <3>1, <3>2 DEF Inv, NothingSlips
  <2>3. QED
    BY <1>2, <2>1, <2>2
<1>6. QED
  BY <1>3, <1>4, <1>5 DEF Inv

\* What a first page leaves out is behind it, at its next_cursor or older.
LEMMA PageOrBehind ==
  ASSUME posts \in 0..MaxPost, NEW n \in Limit, NEW first \in SUBSET (1..posts),
         IsFirstPage(first, n), NEW p \in (1..posts) \ first
  PROVE  Cardinality(first) >= n /\ \A q \in first : Stamp[q] >= Stamp[p]
<1>1. posts \in Nat /\ MaxPost \in Nat /\ 1..posts \subseteq 1..MaxPost
  BY NotificationBoundAssumption
<1>2. Cardinality(first) \in Nat /\ n \in Nat
  <2>1. IsFiniteSet(1..posts)
    BY <1>1, FS_Interval
  <2>2. IsFiniteSet(first)
    BY <2>1, FS_Subset
  <2>3. QED
    BY <2>2, FS_CardinalityType, FeedAssumption
<1>3. Cardinality(first) >= n
  BY <1>2 DEF IsFirstPage
<1>4. ASSUME NEW q \in first
      PROVE  Stamp[q] >= Stamp[p]
  <2>1. Stamp[q] \in Int /\ Stamp[p] \in Int
    BY <1>1, FeedAssumption
  <2>2. Stamp[q] > Stamp[p] \/ Stamp[q] = Stamp[p]
    BY DEF IsFirstPage
  <2>3. QED
    BY <2>1, <2>2
<1>5. QED
  BY <1>3, <1>4

\* A feed request keeps Inv: every announced post is stored already, so that a first page
\* has it or leaves it behind.
LEMMA QueryInv ==
  ASSUME Inv, NEW c \in Client, Query(c)
  PROVE  Inv'
<1>1. /\ posts \in 0..MaxPost
      /\ \A i \in DOMAIN announced : announced[i] \in 1..posts
  BY DEF Inv, TypeOK
<1>2. TypeOK'
  <2>1. /\ current' \in [Client -> BOOLEAN] /\ page' \in [Client -> SUBSET (1..posts)]
        /\ more' \in [Client -> BOOLEAN]
    <3>1. CASE FetchFirstPage(c)
      <4>1. PICK n \in Limit, first \in SUBSET (1..posts) :
              /\ current' = [current EXCEPT ![c] = TRUE]
              /\ page' = [page EXCEPT ![c] = first]
              /\ more' = [more EXCEPT ![c] = Cardinality(first) >= n]
        BY <3>1 DEF FetchFirstPage
      <4>2. (Cardinality(first) >= n) \in BOOLEAN
        OBVIOUS
      <4>3. QED
        BY <4>1, <4>2 DEF Inv, TypeOK
    <3>2. CASE UNCHANGED view
      BY <3>2 DEF view, Inv, TypeOK
    <3>3. QED
      BY <3>1, <3>2 DEF Query
  <2>2. QED
    BY <2>1 DEF Query, Inv, TypeOK, Goto, Place, shared
<1>3. \A d \in Client : Held(d)'
  BY DEF Query, FetchFirstPage, view, Inv, TypeOK, Held, Goto, Subscribed
<1>4. NothingSlips'
  <2> SUFFICES ASSUME NEW d \in Client, Subscribed(d)', current'[d], NEW i \in DOMAIN announced
               PROVE  \/ announced[i] \in page'[d] \/ BehindPage(d, announced[i])'
                      \/ i > position[d] \/ at'[d] = "notify"
    BY DEF NothingSlips, BehindPage, Query, shared
  <2>0. announced' = announced
    BY DEF Query, shared
  <2>1. CASE c = d /\ FetchFirstPage(c)
    <3>1. PICK n \in Limit, first \in SUBSET (1..posts) :
            /\ IsFirstPage(first, n)
            /\ page'[d] = first
            /\ more'[d] = (Cardinality(first) >= n)
      BY <2>1 DEF FetchFirstPage, Inv, TypeOK
    <3>2. CASE announced[i] \notin first
      <4>1. Cardinality(first) >= n /\ \A q \in first : Stamp[q] >= Stamp[announced[i]]
        BY <1>1, <3>1, <3>2, PageOrBehind
      <4>2. QED
        BY <2>0, <3>1, <4>1 DEF BehindPage
    <3>3. QED
      BY <3>1, <3>2
  <2>2. CASE ~(c = d /\ FetchFirstPage(c))
    <3>1. UNCHANGED <<current[d], page[d], more[d]>>
      BY <2>2 DEF Query, FetchFirstPage, view, Inv, TypeOK
    <3>2. Subscribed(d) /\ (at[d] = "notify" => at'[d] = "notify")
      BY <3>1 DEF Inv, Held, Query, Goto, TypeOK
    <3>3. QED
      BY <2>0, <3>1, <3>2 DEF Inv, NothingSlips, BehindPage
  <2>3. QED
    BY <2>1, <2>2
<1>5. QED
  BY <1>2, <1>3, <1>4 DEF Inv

\* The notification branch keeps Inv: a receiver moves past a notification only to
\* write it.
LEMMA NotificationInv ==
  ASSUME Inv, NEW c \in Client, Notify(c) \/ WriteNotification(c) \/ ClientRead(c)
  PROVE  Inv'
<1>1. CASE Notify(c)
  <2>1. position' \in [Client -> 0..Len(announced)] /\ Len(announced) \in Nat
    <3>1. position \in [Client -> 0..Len(announced)] /\ Len(announced) \in Nat
      BY DEF Inv, TypeOK
    <3>2. \A n \in Nat : \A p \in 0..n : p < n => p + 1 \in 0..n
      OBVIOUS
    <3>3. position[c] + 1 \in 0..Len(announced)
      BY <1>1, <3>1, <3>2 DEF Notify
    <3> QED
      BY <1>1, <3>1, <3>3 DEF Notify
  <2>2. TypeOK'
    BY <1>1, <2>1 DEF Notify, Inv, TypeOK, Goto, Place, shared, view
  <2>3. \A d \in Client : Held(d)'
    BY <1>1 DEF Notify, Inv, TypeOK, Held, Goto, Subscribed, view
  <2>4. NothingSlips'
    BY <1>1
    DEF Notify, Inv, TypeOK, NothingSlips, BehindPage, Goto, Subscribed, shared, view
  <2>5. QED
    BY <2>2, <2>3, <2>4 DEF Inv
<1>2. CASE WriteNotification(c)
  <2>1. TypeOK'
    <3>1. unread \in [Client -> 0..Window] /\ Window \in Nat
      BY NotificationBoundAssumption DEF Inv, TypeOK
    <3>2. \A n \in Nat : \A p \in 0..n : p < n => p + 1 \in 0..n
      OBVIOUS
    <3>3. unread[c] + 1 \in 0..Window
      BY <1>2, <3>1, <3>2 DEF WriteNotification
    <3>4. unread' \in [Client -> 0..Window]
      BY <1>2, <3>1, <3>3 DEF WriteNotification
    <3> QED
      BY <1>2, <3>4 DEF WriteNotification, Outdate, Inv, TypeOK, Goto, Place, shared
  <2>2. \A d \in Client : Held(d)'
    BY <1>2 DEF WriteNotification, Outdate, Inv, TypeOK, Held, Goto, Subscribed
  <2>3. NothingSlips'
    BY <1>2
    DEF WriteNotification, Outdate, Inv, TypeOK, NothingSlips, BehindPage, Goto, Subscribed,
        shared
  <2>4. QED
    BY <2>1, <2>2, <2>3 DEF Inv
<1>3. CASE ClientRead(c)
  <2>1. TypeOK'
    <3>1. unread \in [Client -> 0..Window] /\ Window \in Nat
      BY NotificationBoundAssumption DEF Inv, TypeOK
    <3>2. \A n \in Nat : \A p \in 0..n : p > 0 => p - 1 \in 0..n
      OBVIOUS
    <3>3. unread[c] - 1 \in 0..Window
      BY <1>3, <3>1, <3>2 DEF ClientRead
    <3>4. unread' \in [Client -> 0..Window]
      BY <1>3, <3>1, <3>3 DEF ClientRead
    <3> QED
      BY <1>3, <3>4 DEF ClientRead, Inv, TypeOK, shared, view
  <2>2. (\A d \in Client : Held(d)') /\ NothingSlips'
    BY <1>3 DEF ClientRead, Inv, Held, NothingSlips, BehindPage, Subscribed, shared, view
  <2>3. QED
    BY <2>1, <2>2 DEF Inv
<1>4. QED
  BY <1>1, <1>2, <1>3

\* Every step keeps Inv.
LEMMA InvStep == Inv /\ [Next]_vars => Inv'
<1> SUFFICES ASSUME Inv, [Next]_vars PROVE Inv'
  OBVIOUS
<1>1. CASE UNCHANGED vars
  BY <1>1 DEF vars, shared, view, Inv, TypeOK, Held, NothingSlips, BehindPage, Subscribed
<1>2. ASSUME NEW c \in Client, Disconnect(c) \/ Lag(c)
      PROVE  Inv'
  BY <1>2, ReturnInv DEF Disconnect, Lag
<1>3. QED
  BY <1>1, <1>2, OpeningInv, RequestInv, InsertInv, SendInv, QueryInv, NotificationInv
  DEF Next, Serve, Receive

\* Inv holds throughout.
LEMMA InvAlways == Spec => []Inv
BY InvInit, InvStep, PTL DEF Spec

\* Type correctness of Notifications: no receiver is past the last notification, and
\* what is announced is stored.
THEOREM TypeCorrect == Spec => []TypeOK
BY InvAlways, PTL DEF Inv

\* A client with a first page and no notification since has missed no announcement: the
\* post is on the page or behind it, or its notification is on its way.  It holds for
\* posts of any timestamps and pages of any length, however posts, feed requests and
\* notifications of all connections interleave.
THEOREM NothingEverSlips == Spec => []NothingSlips
BY InvAlways, PTL DEF Inv
------------------------------------------------------------------------------
(* Every post is announced. *)

\* The posts not announced are finitely many.
LEMMA UnannouncedFinite ==
  ASSUME Inv
  PROVE  IsFiniteSet(Unannounced) /\ Cardinality(Unannounced) \in Nat /\ faults \in Nat
<1>1. posts \in Nat /\ faults \in Nat
  BY NotificationBoundAssumption DEF Inv, TypeOK
<1>2. IsFiniteSet(1..posts)
  BY <1>1, FS_Interval
<1>3. IsFiniteSet(Unannounced)
  BY <1>2, FS_Subset DEF Unannounced
<1>4. QED
  BY <1>1, <1>3, FS_CardinalityType

\* A step that announces what it no longer holds, and stores what it holds, leaves no post
\* unannounced that was not so before.
LEMMA AnnouncedStep ==
  ASSUME Inv, PostsAreAnnounced, Unannounced' \subseteq Unannounced, faults' = faults
  PROVE  PostsAreAnnounced'
<1>1. Cardinality(Unannounced') \in Nat /\ Cardinality(Unannounced') <= Cardinality(Unannounced)
  BY UnannouncedFinite, FS_Subset, FS_CardinalityType
<1>2. QED
  BY <1>1, UnannouncedFinite DEF PostsAreAnnounced

\* Every step keeps PostsAreAnnounced.
LEMMA AnnouncedAlways == Inv /\ PostsAreAnnounced /\ [Next]_vars => PostsAreAnnounced'
<1> SUFFICES ASSUME Inv, PostsAreAnnounced, [Next]_vars PROVE PostsAreAnnounced'
  OBVIOUS
<1>1. ASSUME UNCHANGED <<posts, announced, mine, faults>>
      PROVE  PostsAreAnnounced'
  BY <1>1 DEF PostsAreAnnounced, Unannounced
<1>2. ASSUME NEW c \in Client, Insert(c)
      PROVE  PostsAreAnnounced'
  <2>1. mine[c] = 0 /\ posts \in Nat
    BY <1>2, NotificationBoundAssumption DEF Insert, Inv, TypeOK, Held
  <2>2. Unannounced' \subseteq Unannounced
    BY <1>2, <2>1 DEF Insert, Stored, Unannounced, Inv, TypeOK
  <2>3. QED
    BY <1>2, <2>2, AnnouncedStep DEF Insert
<1>3. ASSUME NEW c \in Client, Send(c)
      PROVE  PostsAreAnnounced'
  <2>1. /\ Len(announced) + 1 \in DOMAIN announced' /\ announced'[Len(announced) + 1] = mine[c]
        /\ \A i \in DOMAIN announced : i \in DOMAIN announced' /\ announced'[i] = announced[i]
    BY <1>3 DEF Send, Inv, TypeOK
  <2>2. ASSUME NEW p \in Unannounced'
        PROVE  p \in Unannounced
    <3>1. p \in 1..posts /\ p # mine[c] /\ \A i \in DOMAIN announced : announced[i] # p
      BY <1>3, <2>1 DEF Unannounced, Send
    <3>2. \A d \in Client \ {c} : mine[d] # p
      BY <1>3 DEF Unannounced, Send, Inv, TypeOK
    <3>3. QED
      BY <3>1, <3>2 DEF Unannounced
  <2>3. QED
    BY <1>3, <2>2, AnnouncedStep DEF Send
<1>4. ASSUME NEW c \in Client, StatementFails(c)
      PROVE  PostsAreAnnounced'
  <2>1. posts \in Nat /\ posts' \in {posts, posts + 1}
    BY <1>4, NotificationBoundAssumption DEF StatementFails, Stored, Inv, TypeOK
  <2>2. Unannounced' \subseteq Unannounced \cup {posts + 1}
    BY <1>4, <2>1 DEF StatementFails, Unannounced
  <2>3. /\ IsFiniteSet(Unannounced \cup {posts + 1})
        /\ \/ Cardinality(Unannounced \cup {posts + 1}) = Cardinality(Unannounced)
           \/ Cardinality(Unannounced \cup {posts + 1}) = Cardinality(Unannounced) + 1
    BY UnannouncedFinite, FS_AddElement
  <2>4. /\ Cardinality(Unannounced') \in Nat
        /\ Cardinality(Unannounced') <= Cardinality(Unannounced \cup {posts + 1})
    BY <2>2, <2>3, FS_Subset, FS_CardinalityType
  <2>5. faults' = faults + 1
    BY <1>4 DEF StatementFails
  <2>6. QED
    BY <2>3, <2>4, <2>5, UnannouncedFinite DEF PostsAreAnnounced
<1>5. ASSUME NEW c \in Client, Return(c), at[c] # "send"
      PROVE  PostsAreAnnounced'
  <2>1. mine' = mine
    BY <1>5 DEF Return, Inv, TypeOK, Held
  <2>2. QED
    BY <1>1, <1>5, <2>1 DEF Return, shared
<1>6. ASSUME NEW c \in Client, Disconnect(c) \/ Lag(c)
      PROVE  PostsAreAnnounced'
  BY <1>5, <1>6 DEF Disconnect, Lag
<1>7. CASE UNCHANGED vars
  BY <1>1, <1>7 DEF vars, shared
<1>8. ASSUME NEW c \in Client,
             \/ Handshake(c) \/ Subscribe(c) \/ Read(c) \/ TakePost(c) \/ TakeOther(c)
             \/ Await(c) \/ Query(c) \/ Answer(c) \/ Notify(c) \/ WriteNotification(c)
             \/ ClientRead(c)
      PROVE  PostsAreAnnounced'
  BY <1>1, <1>8
  DEF Handshake, Subscribe, Read, TakePost, TakeOther, Await, Query, Answer, Notify,
      WriteNotification, ClientRead, shared
<1>9. QED
  BY <1>2, <1>3, <1>4, <1>6, <1>7, <1>8 DEF Next, Serve, Receive

\* Whatever clients do, disconnecting in the middle of their own post included, no more
\* posts stay unannounced than statements failed.
THEOREM PostsAlwaysAnnounced == Spec => []PostsAreAnnounced
<1>1. Init => PostsAreAnnounced
  <2> SUFFICES ASSUME Init PROVE PostsAreAnnounced
    OBVIOUS
  <2>1. Unannounced = {}
    BY DEF Init, Unannounced
  <2>2. QED
    BY <2>1, FS_EmptySet DEF Init, PostsAreAnnounced
<1>2. QED
  BY <1>1, InvAlways, AnnouncedAlways, PTL DEF Spec
------------------------------------------------------------------------------
(* What ReadersAreAnswered rests on beside fairness. *)

Inserting == {d \in Client : at[d] = "insert"}

\* The posts about to be stored are counted against the bound when they are taken.
Room == IsFiniteSet(Inserting) /\ posts + Cardinality(Inserting) <= MaxPost

\* Room stays when nobody begins an INSERT and no post is stored.
LEMMA RoomLeft ==
  ASSUME Inv, Room, Inserting' \subseteq Inserting, posts' = posts
  PROVE  Room'
<1>1. /\ posts \in Nat /\ MaxPost \in Nat
      /\ IsFiniteSet(Inserting') /\ Cardinality(Inserting') \in Nat
      /\ Cardinality(Inserting) \in Nat /\ Cardinality(Inserting') <= Cardinality(Inserting)
  BY NotificationBoundAssumption, FS_Subset, FS_CardinalityType DEF Inv, TypeOK, Room
<1> QED
  BY <1>1 DEF Room

\* Every step keeps Room.
LEMMA RoomStep == Inv /\ Room /\ [Next]_vars => Room'
<1> SUFFICES ASSUME Inv, Room, [Next]_vars PROVE Room'
  OBVIOUS
<1>0. /\ posts \in Nat /\ MaxPost \in Nat /\ at \in [Client -> Place]
      /\ Cardinality(Inserting) \in Nat
  BY NotificationBoundAssumption, FS_CardinalityType DEF Inv, TypeOK, Room
<1>1. CASE UNCHANGED vars
  BY <1>1, RoomLeft DEF vars, shared, Inserting
<1>2. ASSUME NEW c \in Client, TakePost(c)
      PROVE  Room'
  <2>1. Inserting' = Inserting \cup {c} /\ posts' = posts /\ c \notin Inserting
    BY <1>0, <1>2 DEF TakePost, Goto, Inserting, shared
  <2>2. IsFiniteSet(Inserting') /\ Cardinality(Inserting') = Cardinality(Inserting) + 1
    BY <2>1, FS_AddElement DEF Room
  <2>3. posts + Cardinality(Inserting) < MaxPost
    BY <1>2 DEF TakePost, Inserting
  <2> QED
    BY <1>0, <2>1, <2>2, <2>3 DEF Room
<1>3. ASSUME NEW c \in Client, at[c] = "insert", Insert(c) \/ StatementFails(c)
      PROVE  Room'
  <2>1. Inserting' = Inserting \ {c} /\ c \in Inserting
    BY <1>0, <1>3 DEF Insert, StatementFails, Goto, Inserting
  <2>2. IsFiniteSet(Inserting') /\ Cardinality(Inserting') = Cardinality(Inserting) - 1
    BY <2>1, FS_RemoveElement DEF Room
  <2>3. posts' \in {posts, posts + 1}
    BY <1>3 DEF Insert, StatementFails, Stored
  <2> QED
    BY <1>0, <2>2, <2>3 DEF Room
<1>4. ASSUME NEW c \in Client, StatementFails(c), at[c] # "insert"
      PROVE  Room'
  <2>1. posts' = posts /\ Inserting' \subseteq Inserting
    BY <1>0, <1>4 DEF StatementFails, Goto, Inserting
  <2> QED
    BY <2>1, RoomLeft
<1>5. ASSUME NEW c \in Client, Disconnect(c) \/ Lag(c) \/ Handshake(c) \/ Subscribe(c) \/ Read(c)
      PROVE  Room'
  <2>1. posts' = posts /\ Inserting' \subseteq Inserting
    BY <1>0, <1>5
    DEF Disconnect, Lag, Return, Handshake, Subscribe, Read, Goto, Inserting, shared
  <2> QED
    BY <2>1, RoomLeft
<1>6. ASSUME NEW c \in Client, TakeOther(c) \/ Await(c) \/ Send(c) \/ Query(c) \/ Answer(c)
      PROVE  Room'
  <2>1. posts' = posts /\ Inserting' \subseteq Inserting
    BY <1>0, <1>6 DEF TakeOther, Await, Send, Query, Answer, Goto, Inserting, shared
  <2> QED
    BY <2>1, RoomLeft
<1>7. ASSUME NEW c \in Client, Notify(c) \/ WriteNotification(c) \/ ClientRead(c)
      PROVE  Room'
  <2>1. posts' = posts /\ Inserting' \subseteq Inserting
    BY <1>0, <1>7 DEF Notify, WriteNotification, ClientRead, Goto, Inserting, shared
  <2> QED
    BY <2>1, RoomLeft
<1> QED
  BY <1>1, <1>2, <1>3, <1>4, <1>5, <1>6, <1>7 DEF Next, Serve, Receive, Insert

\* The places of a task in the order in which it goes through them with one frame.
Stage(place) ==
  CASE place \in {"handshaken", "notify"} -> 0
    [] place \in {"insert", "query"} -> 1
    [] place = "send" -> 2
    [] place = "answer" -> 3
    [] place = "drain" -> 4
    [] place = "select" -> 5

\* A task is done with a frame or gets on with the one it has; only its own client, its
\* receiver and a lost connection move it otherwise, and never another client.  The bound
\* on posts stops nobody at an INSERT, so that the only waiting left is for the client to
\* read.
EveryTaskAdvances ==
  [][\A c \in Client :
       /\ at[c] = "insert" => posts < MaxPost
       /\ \/ UNCHANGED <<at[c], frames[c], position[c]>>
          \/ Handshake(c) \/ Disconnect(c) \/ Read(c) \/ Receive(c)
          \/ frames'[c] < frames[c]
          \/ frames'[c] = frames[c] /\ Stage(at'[c]) > Stage(at[c])]_vars

\* The loop of each task comes to the end of its batch by a bounded number of its own
\* steps, whatever the others do: the measure on which ReadersAreAnswered rests.
THEOREM TasksAlwaysAdvance == Spec => EveryTaskAdvances
<1> DEFINE Advances(c) ==
      /\ at[c] = "insert" => posts < MaxPost
      /\ \/ UNCHANGED <<at[c], frames[c], position[c]>>
         \/ Handshake(c) \/ Disconnect(c) \/ Read(c) \/ Receive(c)
         \/ frames'[c] < frames[c]
         \/ frames'[c] = frames[c] /\ Stage(at'[c]) > Stage(at[c])
<1>1. Init => Room
  <2> SUFFICES ASSUME Init PROVE Room
    OBVIOUS
  <2>1. Inserting = {} /\ posts = 0
    BY DEF Init, Inserting
  <2> QED
    BY <2>1, FS_EmptySet, NotificationBoundAssumption DEF Room
<1>2. Spec => []Room
  BY <1>1, RoomStep, InvAlways, PTL DEF Spec
<1>3. ASSUME Inv, Room, NEW c \in Client, at[c] = "insert"
      PROVE  posts < MaxPost
  <2>1. c \in Inserting
    BY <1>3 DEF Inserting
  <2>2. Cardinality(Inserting) \in Nat /\ Cardinality(Inserting) # 0
    BY <1>3, <2>1, FS_EmptySet, FS_CardinalityType DEF Room
  <2>3. posts \in Nat /\ MaxPost \in Nat
    BY <1>3, NotificationBoundAssumption DEF Inv, TypeOK
  <2> QED
    BY <1>3, <2>2, <2>3 DEF Room
<1>4. ASSUME Inv, NEW c \in Client, NEW d \in Client, Serve(d)
      PROVE  \/ UNCHANGED <<at[c], frames[c], position[c]>>
             \/ frames'[c] < frames[c]
             \/ frames'[c] = frames[c] /\ Stage(at'[c]) > Stage(at[c])
  <2>0. /\ at \in [Client -> Place] /\ frames \in [Client -> 0..Batch]
        /\ position \in [Client -> 0..Len(announced)]
    BY <1>4 DEF Inv, TypeOK
  <2>1. CASE c # d
    BY <1>4, <2>0, <2>1
    DEF Serve, Subscribe, TakePost, TakeOther, Await, Insert, Send, Query, StatementFails,
        Answer, WriteNotification, Goto
  <2>2. CASE c = d /\ (TakePost(d) \/ TakeOther(d))
    <3>1. frames[c] \in Nat /\ frames'[c] = frames[c] - 1
      BY <2>0, <2>2, NotificationBoundAssumption DEF TakePost, TakeOther
    <3> QED
      BY <3>1
  <2>3. CASE c = d /\ ~(TakePost(d) \/ TakeOther(d))
    <3>1. frames'[c] = frames[c]
      BY <1>4, <2>3
      DEF Serve, Subscribe, Await, Insert, Send, Query, StatementFails, Answer, WriteNotification
    <3>2. \/ at[c] = "handshaken" /\ at'[c] = "select"
          \/ at[c] = "drain" /\ at'[c] = "select"
          \/ at[c] = "insert" /\ at'[c] \in {"send", "answer"}
          \/ at[c] = "send" /\ at'[c] = "answer"
          \/ at[c] = "query" /\ at'[c] = "answer"
          \/ at[c] = "answer" /\ at'[c] = "drain"
          \/ at[c] = "notify" /\ at'[c] = "select"
      BY <1>4, <2>0, <2>3
      DEF Serve, Subscribe, Await, Insert, Send, Query, StatementFails, Answer,
          WriteNotification, Goto
    <3>3. Stage(at'[c]) > Stage(at[c])
      BY <3>2 DEF Stage
    <3> QED
      BY <3>1, <3>3
  <2> QED
    BY <2>1, <2>2, <2>3
<1>5. ASSUME Inv, NEW c \in Client, NEW d \in Client, c # d,
             Handshake(d) \/ Disconnect(d) \/ Read(d) \/ Receive(d) \/ ClientRead(d)
      PROVE  UNCHANGED <<at[c], frames[c], position[c]>>
  BY <1>5
  DEF Inv, TypeOK, Handshake, Disconnect, Read, Receive, Notify, Lag, Return, ClientRead, Goto
<1>6. ASSUME NEW c \in Client, ClientRead(c)
      PROVE  UNCHANGED <<at[c], frames[c], position[c]>>
  BY <1>6 DEF ClientRead
<1>7. ASSUME Inv, Room, Next, NEW c \in Client
      PROVE  Advances(c)
  BY <1>3, <1>4, <1>5, <1>6, <1>7 DEF Next
<1>8. Inv /\ Room /\ [Next]_vars => [\A c \in Client : Advances(c)]_vars
  BY <1>7
<1>9. Spec => [][\A c \in Client : Advances(c)]_vars
  BY <1>2, <1>8, InvAlways, PTL DEF Spec
<1> QED
  BY <1>9 DEF EveryTaskAdvances
==============================================================================
