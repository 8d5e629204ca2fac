-------------------------------- MODULE Feed --------------------------------
(***************************************************************************)
(* The paginated feed: fetch_feed_inner of server/src/queries.rs, and a    *)
(* client that walks it page by page while others keep posting.            *)
(***************************************************************************)
EXTENDS Integers, Sequences, FiniteSets

CONSTANTS
  Timestamp,      \* the timestamps that authors put on their posts
  NoCursor,       \* the cursor of a request for the first page
  NoLimit,        \* the limit of a request that leaves it out
  Limit,          \* the limits that requests carry
  DefaultLimit,   \* DEFAULT_FEED_LIMIT
  MaxLimit,       \* MAX_FEED_LIMIT
  MaxPost         \* bound: posts ever stored

ASSUME TimestampAssumption == Timestamp \subseteq Int /\ NoCursor \notin Int
ASSUME LimitAssumption ==
  /\ Limit \subseteq Nat /\ NoLimit \notin Nat
  /\ DefaultLimit \in Nat /\ MaxLimit \in Nat \ {0}

VARIABLES
  posts,   \* the timestamps of the rows of table posts; the position is the id
  walk,    \* what the client is doing
  cursor,  \* the cursor of its next request
  limit,   \* the limit it sends
  seen,    \* the ids it has been given in this walk
  start,   \* history: the ids stored when the walk started
  edges    \* history: the cursors it was given in this walk

vars == <<posts, walk, cursor, limit, seen, start, edges>>

Id == DOMAIN posts

TypeOK ==
  /\ posts \in Seq(Timestamp)
  /\ walk \in {"idle", "walking", "done"}
  /\ cursor \in Timestamp \cup {NoCursor}
  /\ limit \in Limit \cup {NoLimit}
  /\ seen \subseteq Id
  /\ start \subseteq Id
  /\ edges \subseteq Timestamp

Init ==
  /\ posts = <<>>
  /\ walk = "idle"
  /\ cursor = NoCursor
  /\ limit = NoLimit
  /\ seen = {} /\ start = {} /\ edges = {}

\* limit.unwrap_or(DEFAULT_FEED_LIMIT).clamp(1, MAX_FEED_LIMIT)
Clamped(l) ==
  LET wanted == IF l = NoLimit THEN DefaultLimit ELSE l
  IN  IF wanted < 1 THEN 1 ELSE IF wanted > MaxLimit THEN MaxLimit ELSE wanted

\* Mutant: WHERE timestamp <= ?
EligibleInclusive(c) == {i \in Id : c = NoCursor \/ posts[i] <= c}

\* WHERE timestamp < ?, or no condition on the first page
Eligible(c) == {i \in Id : c = NoCursor \/ posts[i] < c}

\* ORDER BY timestamp DESC, id DESC
Before(i, j) == posts[i] > posts[j] \/ (posts[i] = posts[j] /\ i > j)

\* page is the first n rows, as LIMIT takes them.
IsPage(page, c, n) ==
  /\ page \subseteq Eligible(c)
  /\ Cardinality(page) <= n
  /\ Cardinality(page) < n => page = Eligible(c)
  /\ \A i \in page, j \in Eligible(c) \ page : Before(i, j)

\* Mutant: > in place of >=, and a full page has no next cursor.
IsNextCursorWhenOver(next, page, n) ==
  IF Cardinality(page) > n
    THEN \E last \in page : next = posts[last] /\ \A i \in page : i = last \/ Before(i, last)
    ELSE next = NoCursor

\* Mutant: an empty page hands back the cursor it was asked with.
IsNextCursorKept(next, page, n) ==
  IF page # {}
    THEN \E last \in page : next = posts[last] /\ \A i \in page : i = last \/ Before(i, last)
    ELSE next = cursor

\* last_ts, kept only when the page is full.
IsNextCursor(next, page, n) ==
  IF Cardinality(page) >= n
    THEN \E last \in page : next = posts[last] /\ \A i \in page : i = last \/ Before(i, last)
    ELSE next = NoCursor
------------------------------------------------------------------------------
\* Mutant: the column timestamp is left NULL.
InsertUndatedPost(ts) ==
  /\ Len(posts) < MaxPost
  /\ posts' = Append(posts, NoCursor)
  /\ UNCHANGED <<walk, cursor, limit, seen, start, edges>>

\* The INSERT of submit_post: timestamps are the authors', in no order.
InsertPost(ts) ==
  /\ Len(posts) < MaxPost
  /\ posts' = Append(posts, ts)
  /\ UNCHANGED <<walk, cursor, limit, seen, start, edges>>

StartWalk(l) ==
  /\ walk # "walking"
  /\ walk' = "walking"
  /\ cursor' = NoCursor
  /\ limit' = l
  /\ seen' = {} /\ edges' = {}
  /\ start' = Id
  /\ UNCHANGED posts

\* One feed request; a failed one is repeated with the same cursor.
FetchPage ==
  /\ walk = "walking"
  /\ \E page \in SUBSET Eligible(cursor), next \in Timestamp \cup {NoCursor} :
       /\ IsPage(page, cursor, Clamped(limit))
       /\ IsNextCursor(next, page, Clamped(limit))
       /\ seen' = seen \cup page
       /\ cursor' = next
       /\ edges' = edges \cup ({next} \ {NoCursor})
       /\ walk' = IF next = NoCursor THEN "done" ELSE "walking"
  /\ UNCHANGED <<posts, limit, start>>

Next ==
  \/ \E ts \in Timestamp : InsertPost(ts)
  \/ \E l \in Limit \cup {NoLimit} : StartWalk(l)
  \/ FetchPage

Spec == Init /\ [][Next]_vars

\* The client asks for the next page as long as there is one.
FairSpec == Spec /\ WF_vars(FetchPage)
------------------------------------------------------------------------------
(* Properties. *)

\* No post is served twice in a walk, whatever is posted meanwhile.
NoPostTwice == [][FetchPage => \A i \in Eligible(cursor) : i \notin seen]_vars

\* A finished walk has every post that was stored when it began, except those that
\* share the timestamp at which a page ended.
WalkMissesOnlyTies ==
  walk = "done" => \A i \in start \ seen : posts[i] \in edges

\* A page is never empty while older posts remain, so every walk ends.
WalkTerminates == walk = "walking" ~> walk = "done"

\* queries_test.rs:111, feed_pagination_walks_all_posts.
WalkIsComplete == walk = "done" => start \subseteq seen
==============================================================================
