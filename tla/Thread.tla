------------------------------- MODULE Thread -------------------------------
(***************************************************************************)
(* fetch_thread of server/src/queries.rs: the recursive query that returns *)
(* a post with all its direct and indirect replies, while comments with    *)
(* arbitrary timestamps are being added.                                   *)
(***************************************************************************)
EXTENDS Integers, Sequences, FiniteSets

CONSTANTS
  Timestamp,  \* the timestamps that authors put on their posts
  NotFound,   \* the answer of fetch_thread when there is no such post
  MaxPost     \* bound: posts ever stored

ASSUME TimestampAssumption == Timestamp \subseteq Int

ASSUME BoundAssumption == MaxPost \in Nat

VARIABLES
  posts,   \* rows of table posts: the parent (0 for NULL) and the timestamp
  root,    \* the post_id of the last request
  answer   \* the ids of the last answer in order: post, then replies

vars == <<posts, root, answer>>

Id == DOMAIN posts

Init == posts = <<>> /\ root = 0 /\ answer = NotFound

\* The rows that the recursive part of the query adds at each depth.
Level(r) ==
  LET level[depth \in 0..Len(posts)] ==
        IF depth = 0 THEN {r} \cap Id ELSE {i \in Id : posts[i].parent \in level[depth - 1]}
  IN  level

\* Mutant: the query is not recursive.
DirectRows(r) == UNION {{<<i, depth>> : i \in Level(r)[depth]} : depth \in {0, 1} \cap 0..Len(posts)}

\* The rows of the common table expression, as (id, depth) pairs.
ThreadRows(r) == UNION {{<<i, depth>> : i \in Level(r)[depth]} : depth \in 0..Len(posts)}

\* Mutant: ORDER BY timestamp ASC.
NotYounger(a, b) == posts[a[1]].timestamp <= posts[b[1]].timestamp

\* ORDER BY depth, timestamp ASC; rows equal in both come in any order.
NotAfter(a, b) ==
  \/ a[2] < b[2]
  \/ a[2] = b[2] /\ posts[a[1]].timestamp <= posts[b[1]].timestamp

\* The sequences that sort a set of rows.
Sorted(rows) ==
  {s \in [1..Cardinality(rows) -> rows] :
     /\ \A i, j \in DOMAIN s : i < j => s[i] # s[j] /\ NotAfter(s[i], s[j])
     /\ \A row \in rows : \E i \in DOMAIN s : s[i] = row}

\* submit_post: the trigger demands that the parent exists.
InsertPost(parent, ts) ==
  /\ Len(posts) < MaxPost
  /\ parent = 0 \/ parent \in Id
  /\ posts' = Append(posts, [parent |-> parent, timestamp |-> ts])
  /\ UNCHANGED <<root, answer>>

FetchThread(r) ==
  /\ root' = r
  /\ \E s \in Sorted(ThreadRows(r)) :
       answer' = IF s = <<>> THEN NotFound ELSE [i \in DOMAIN s |-> s[i][1]]
  /\ UNCHANGED posts

Next ==
  \/ \E parent \in 0..MaxPost, ts \in Timestamp : InsertPost(parent, ts)
  \/ \E r \in 1..MaxPost + 1 : FetchThread(r)

Spec == Init /\ [][Next]_vars
------------------------------------------------------------------------------
(* Properties. *)

\* The posts from which one gets to r by going from a comment to its parent.
Below(r) ==
  LET under[i \in Id] == i = r \/ (posts[i].parent # 0 /\ under[posts[i].parent])
  IN  {i \in Id : under[i]}

\* The answer to a request holds the post and every reply below it at that moment,
\* each once, or is NotFound when there is no such post.
ThreadIsComplete ==
  [][\A r \in 1..MaxPost + 1 : FetchThread(r) =>
       IF r \in Id
         THEN /\ {answer'[i] : i \in DOMAIN answer'} = Below(r)
              /\ Len(answer') = Cardinality(Below(r))
         ELSE answer' = NotFound]_vars

\* The post comes first, and every reply after the post it replies to, however the
\* authors' clocks are set.
RepliesFollowTheirParents ==
  answer # NotFound =>
    /\ answer[1] = root
    /\ \A j \in 2..Len(answer) : \E i \in 1..j - 1 : answer[i] = posts[answer[j]].parent
==============================================================================
