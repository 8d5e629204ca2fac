# FreeSky Server: a TLA+ verification development

FreeSky is a community server.  Phones register a device key with it over HTTP,
then talk to it over an encrypted Noise connection on TCP: they post, comment,
read the feed and threads, and report posts.  An operator bans devices, resolves
reports and rotates the group key through an admin API, mostly from a terminal
program (`freesky-admin`).  All state is in one libsql (SQLite) database, local
or remote.

The modules here model that program from its source, TLC checks them on small
instances, and TLAPS proves the main theorems for every value of the constants.
Paths below are relative to the repository (`server/src/...`).

## 1. Inventory

| Component | Source | State it keeps | Operations | Talks to |
|---|---|---|---|---|
| Device registration and group key | `server/src/queries.rs` | tables `devices`, `community` | `register_device`, `ensure_device_registered`, `rotate_group_key`, `admin_set_banned`, `check_banned` | called by the Noise routes, HTTP `register`, admin API; one fresh connection per query, no transaction |
| Posts, comments, reports | `queries.rs` | tables `posts`, `reports`, the comment trigger | `submit_post`, `submit_report`, `admin_resolve_report`, `admin_unresolved_reports` | calls `ensure_device_registered` and `check_banned` |
| Feed | `queries.rs` | none (reads `posts`) | `fetch_feed` with cursor and limit | a client that walks pages |
| Threads | `queries.rs` | none (reads `posts`) | `fetch_thread` | depends on the comment trigger for termination |
| Noise connection loop | `server/src/noise.rs` | `read_buf`, `read_pos`, the transport's nonces, the broadcast receiver | read, decrypt, route, answer, push, close | client over TCP; broadcast channel |
| Noise routing | `noise.rs` | none | five request kinds and their early returns | database, broadcast channel |
| Notification broadcast | `main.rs`, `noise.rs` | a channel of 16 notifications with a position per receiver | send on a stored post, recv, Lagged | every connection |
| Noise handshake | `noise.rs` | handshake buffers | read message 1, write message 2, timeout | accept loop |
| Admin HTTP API | `server/src/admin.rs` | none | ban, unban, key_rotate, resolve_report, read-only pages | database |
| HTTP registration | `server/src/routes.rs` | none | `register` (its other handlers are mounted on no router) | database |
| Startup and identity | `main.rs`, `db.rs`, `queries.rs` | schema, trigger, `server_config.noise_sk` | `run_schema`, `create_comment_trigger`, `load_or_generate_noise_key` | restarted by systemd or docker |
| Admin TUI | `admin-tui/src/app.rs`, `event.rs`, `main.rs`, `api.rs`, `ui.rs` | last fetched statistics, reports, search result; cursors; mode | one handler per key, `refresh` every 5 s | admin API over HTTP, 10 s timeout |
| Shared crypto and types | `shared/src` | none | key validation, ECIES, ECDSA | everyone |
| Logging, rendering, deployment scripts | `logging.rs`, `ui.rs`, `scripts/` | none | output; restart | |

What is hard about it, and what makes each part correct:

* **Registration and rotation.**  Each handler is a chain of separate statements,
  and requests run concurrently.  Two registrations of one device, two first
  rotations, or a registration inside a rotation interleave at every statement;
  a remote database may apply a write and lose the answer; a handler is dropped
  when its HTTP client goes away.  Correct: no device counted twice, no
  registration before there is a key, no stored key that a rotation cannot
  encrypt to, wraps of a key that never comes into force only after a fault, all
  handlers together act like the registry of `Membership`.
* **Content.**  Checks and the INSERT are separate statements, the registration
  of the author is a subroutine that may fail half way, comments need a parent
  that exists.  Correct: everything stored has a registered author, comments are
  younger than their parents, the joins of the report list drop no report (its LIMIT is the TUI's
  concern).
* **Feed and threads.**  Timestamps come from the authors: they repeat and are in
  no order.  Posts arrive between two pages.  Correct: no post twice, every walk
  ends, nothing lost but what the cursor cannot tell apart; a thread is complete
  and replies follow their parents.
* **Connection loop.**  TCP cuts frames anywhere, several arrive together, a
  fixed buffer holds them, notifications come in between, the client vanishes.
  Correct: the buffer stays aligned with the frames and never fills up, messages
  leave in order, every frame is answered or the connection ends.
* **Handshake.**  Message 1 comes in any segments, each with a timer of its own, made
  with a key that the client learned perhaps several starts ago; the process may end
  in the middle.  Correct: it is refused for a cause, never because of a crash, ends
  in any case, and leaves connections to the stored identity only.
* **Notifications.**  Every connection posts into the channel that all receive from,
  in two steps (INSERT, send), and does not receive while it drains a batch of frames.
  The channel keeps 16 messages, transports fill up, INSERTs fail or lose their answer,
  posters vanish.  A notification only says that there is something to fetch, and an
  answer to a feed request is one page, by timestamps that authors choose.  Correct:
  while a client has a first page and no notification since, every announced post is
  on that page or behind its cursor, or its notification is on its way; a client that
  does not read holds up nobody else.
* **Startup.**  Each start drops and recreates the trigger and may draw a key;
  the process may be killed anywhere.  Correct: it serves only with schema and
  trigger, the key it gives to clients is stored, and it always comes up again.
* **TUI.**  Lists are replaced under the cursor.  Correct: a key acts on what the
  operator selected.

## 2. Modules

| Module | Models | Remarks |
|---|---|---|
| `Membership` | abstract registry | what `Community` promises: join-and-count, ban, rotate as single steps; a failure may leave one member uncounted or one rotation without a key in force |
| `Community` | registration, rotation, ban | implements `Membership` |
| `Content` | posts, comments, reports | EXTENDS `Community` and composes with it: `ensure_device_registered` is run by `Community`'s actions; implements `Community` |
| `Feed` | `fetch_feed_inner` and a walking client | |
| `Thread` | `fetch_thread` | the recursive query is a recursive function, compared with an independent definition (`Below`) |
| `Dialogue` | abstract conversation | what a connection promises its client: answers one by one in order until a request cannot be decrypted, notifications in between |
| `NoiseConnection` | one connection after the handshake | bytes are counted, not represented; implements `Dialogue` |
| `Notifications` | the broadcast channel and all its connections | one connection is a control state, a batch of frames and a receiver; the byte level is `NoiseConnection`'s |
| `Startup` | `main` up to serving, over restarts | |
| `Handshake` | `handshake`, the accept loop, a task per connection | EXTENDS `Startup` and composes with it; implements `Startup` |
| `AdminTui` | the TUI over a changing server | |
| `CommunityProofs`, `ContentProofs`, `FeedProofs`, `ThreadProofs`, `NoiseProofs`, `NotificationsProofs`, `HandshakeProofs`, `AdminTuiProofs` | theorems | `HandshakeProofs` has those of `Startup` too |
| `MC*` | TLC instances | |

### How state and actions correspond to the code

**Community.**  `devices`, `banned_at`, `encrypted_sk_comm` are the columns of
table `devices`; `group_key` and `member_count` those of the single row of
`community` (0: no row).  A group key is a number, its wrap in a row the number of
the key it wraps.  `pc[t]` names the statement that task `t` is about to run;
`dev`, `key`, `listed`, `todo` are the handler's local variables, dropped by
`Leave`.  One action is one statement with the computation up to the next one:
`GetGroupKey` includes the `ecies_encrypt` that follows it, `RewrapDevice` the one
before its UPDATE.  A statement can fail (`Fail`), be applied without an answer
(`LoseAnswer`), or be the last of a dropped handler (`Cancel`).  `check_banned`
is modelled by what it does: it reads the INTEGER `banned_at` with
`get::<Option<Vec<u8>>>`, which libsql answers with an error or a panic
(`BlobOfInteger`), and `.ok()` makes "not banned" of the error.

Keys are abstracted to membership in `Point` (what `ecies_encrypt` accepts) and
`Uncompressed` (what `validate_pk_dev` accepts); signature checks to a flag.

**Content.**  `cpc[t]` is the control state of a post or report request.  While it
is `"register_author"` or `"register_reporter"`, `pc[t]` runs `Community`'s
statements, and `Returned` maps its outcome as `ensure_device_registered`'s
callers do.  `ParentExists` is the trigger; ids are positions (AUTOINCREMENT).

**Feed.**  `IsPage` is `WHERE timestamp < ? ORDER BY timestamp DESC, id DESC
LIMIT ?`; `IsNextCursor` is the `filter` on a full page; `Clamped` the clamp.
`start`, `seen` and `edges` are history: the posts stored when the walk began,
the posts received, the timestamps at which pages ended.

**NoiseConnection.**  The client's stream is the sequence of frames with their
offsets; `read_buf` is the interval from `base` to `base + read_pos`.  `phase` is
the place in the loop (`select`, `drain`, `routing`, `answering`, `notifying`,
`closed`).  `nonce` counts decrypted frames: snow does not advance it on a frame
that it refuses, so `Decrypts(k)` needs `nonce = k`.  An answer that does not fit
a Noise message closes the connection; so does any error of `recv`.  `Window`
bounds what the transport buffers for a client that does not read, which is what
makes `write_all` wait.  `Asked`, `Served`, `Answered` and `Pushed` are the refinement
mapping: a frame is served when the buffer starts behind it, and an answer or a
notification in hand is not yet said.

**Notifications.**  `at[c]` is where the task of client `c` is; `frames[c]` the complete
frames left of the last read, of which each turns out a post (`TakePost`), a feed
request (`query`) or one that is answered without either.  `mine[c]` is the post
between its INSERT and its `send`, `announced` the channel's whole history, `position[c]`
the receiver in it; a receiver is lagged when more than `Capacity` are ahead of it.
A handler is never dropped in the middle: a client that is gone is noticed at the next
read or write, which is what `Disconnect`'s guard says.  A feed request without a cursor
is answered with the first page (`IsFirstPage`: the order and LIMIT of the query over the
timestamps `Stamp`), one with a cursor with an older page.  `current`, `page` and `more`
are history: the first page that a client has, until a notification tells it to fetch
again (`Outdate`), and whether that page had a `next_cursor`.  Where in the feed a post is,
a notification does not say: one with an old timestamp is found by paging on, unless it
ties with the cursor, which is the finding `feed_complete`.

**Handshake.**  `link[c]` is the state of client `c`'s connection, `aim[c]` the key its
message was made for, `ours[c]` whether with the prologue that the server uses, `offset[c]` the
bytes read.  `ReadMessage1` is `read_message` of what has been read: `Error::Input`, and
the loop goes on, only while the point is incomplete; everything from the
point to the whole message is a wrong tag and ends the task.  `HandshakeTypeOK` includes
that a task reads on only while the point is incomplete.  A crash of `Startup`
closes every link.

**Startup.**  `phase` is the next statement of `main`.  `created` counts the
objects of `run_schema`; it is one action, and a failure or a crash may stop it
anywhere.  `known` is what each client learned as the server's key.

**AdminTui.**  One action per key up to its call of `refresh`, which is another;
a call may fail, or be served although it timed out.  `UnresolvedReports` are the lists
that `ORDER BY reported_at DESC LIMIT ?` admits: `reported_at` is in seconds, and the query
leaves open what comes first of one second.  `aimed_device` and `aimed_report` remember
what the operator put the cursor on.

## 3. Runs

| Run | Instance | Checks | Shows |
|---|---|---|---|
| `community` | 3 device keys (well formed, compressed, garbage), 2 tasks, 2 rotations, 2 faults, fair; 417k states | `TypeOK`, `RegistrationNeedsKey`, `MemberCount`, `EveryDeviceCanBeRewrapped`, `OrphansNeedFaults`, `ImplementsMembership`, `RequestsTerminate` | in every interleaving, with faults, the statements add up to the registry of `Membership`, and all requests end |
| `community_banned` | 2 keys, no faults | violation of `BannedIsRefused` | see findings |
| `community_rotation` | 2 keys, 2 rotations | violation of `RotationReachesEveryDevice` | see findings |
| `content` | 2 keys, 2 tasks, 2 posts, 1 report, a fault of each kind; 1.09M states | `ContentTypeOK`, `AuthorsAreRegistered`, `ParentsComeFirst`, `JoinsLoseNoReport`, `ImplementsCommunity` | content is sound and leaves the registry to `Community`'s steps |
| `feed` | 4 posts over 3 timestamps, limits 0, 1, 3 and none, clamp to 1..2; 16k states | `TypeOK`, `WalkMissesOnlyTies`, `NoPostTwice`, `WalkTerminates` | walks with posts arriving in between |
| `feed_complete` | 3 posts | violation of `WalkIsComplete` | see findings |
| `thread` | every tree of 4 posts with 2 timestamps; 5.5k states | `RepliesFollowTheirParents`, `ThreadIsComplete` | the query returns exactly the posts below the root |
| `noise` | 3 frames of length 0 or the maximum, 5 kinds, buffer of 5, one other post, channel of 1; 518k states | `TypeOK`, `Aligned`, `OnlyTheClientDisconnects`, `InOrder`, `ImplementsDialogue`, `FramesAreAnswered` | reassembly in every cut, messages in order, `Dialogue` kept |
| `handshake` | 2 clients, 5 keys, 2 crashes, 2 faults, message 1 of 2 + 2 bytes; 431k states | `HandshakeTypeOK`, `ServesOnlyWhenReady`, `ServedKeyIsStored`, `CrashesKeepIdentity`, `RefusedForCause`, `OpenForTheIdentity`, `ServesAgain`, `HandshakesEnd` | several starts with crashes anywhere, and the connections across them |
| `notifications` | a client that reads and one that does not, channel of 1, transport of 1, batches of 2, 2 posts of which the second is dated before the first, pages of 1 and 2, 1 fault; 279k states | `TypeOK`, `NothingSlips`, `PostsAreAnnounced`, `ReadersAreTold`, `ReadersAreAnswered` | posts, feeds and notifications of several connections in every order |
| `startup_identity` | 2 clients, 1 crash, 1 fault | violation of `IdentityStaysKnown` | see findings |
| `tui` | 2 devices, 3 reports of which two share a second, list limit 2; 423k states | `TypeOK`, `ReportUnderCursor`, `DeviceUnderCursor` | keys hit what was selected |

**Why the bounds are enough to be interesting.**  Two tasks give every pairwise
race of two handlers, and a task serves one request after another, so that longer
sequences occur as well.  Two group keys are needed for a wrap of an old key.
The three kinds of device key are all that validation and encryption tell apart.
Two faults allow a failure and a
second one in the retry.  Two posts are a post and a comment, or a comment whose
parent does not exist yet.  Four posts and pages of at most two give walks of
three pages, with ties inside a page and at its end; the limits 0 and 3 lie
outside the clamp.  A buffer of 5 is the smallest the assumption
`BufSize > MaxMsg + 2` admits with `MaxMsg = 2`: a frame of the largest size and one
byte of the next, as 65538 is against 65535.  Three reports over a limit of two leave one off the list, and the two of one second in
either order.
A channel of one lags with two posts, and a batch of two lets a client lag by its own;
the one that does not read fills its transport with the first message.  With pages of one,
a page stays full and the second post is behind it; with pages of two it is on it.  A message 1 of 2 + 2
bytes can be cut in the point, between point and tag, and in the tag.  Five keys are one
more than the crashes and faults can use up.
`MaxKey`, `MaxFaults`, `MaxPost`, `MaxReport`, `MaxFrame` and `MaxCrash` only cap
counters in guards; the theorems hold for all of their values.

**Symmetry** is used in `content` over tasks and in `tui` over devices, which have no
liveness properties; `ImplementsCommunity` is a safety specification and symmetric in
tasks.

**Deadlock** is checked everywhere but in `noise`: a connection that is closed
really stops.

**Fairness.**
* `Community`: weak fairness of `Serve(t)` per task.  tokio polls a woken task again,
  and every statement returns or fails; requests, bans and faults are not fair.
* `Feed`: weak fairness of `FetchPage`: a client that walks asks for the next page.
  `WalkTerminates` is about that client.
* `NoiseConnection`: weak fairness of the server's steps and of `ClientRead`:
  written bytes arrive, and a client reads until it closes its side.  Without it,
  `write_all` has no timeout and waits for ever; that is a property of the code.
* `Startup`, `Handshake`: weak fairness of `Boot`: `Restart=always` in the service file,
  and `main` does not wait for anything but its statements.  Weak fairness of
  `HandshakeStep(c)` per client: its task is scheduled, and the timer of 10 s fires if
  no segment comes.  Clients need not send, register or hang up.
* `Notifications`: weak fairness of `Serve(c)` per task; strong fairness of `Receive(c)`,
  because `select!` polls its branches in random order, so that a client that keeps
  sending does not keep the receiver from being chosen for ever; weak fairness of
  `ClientRead(c)` for readers only.

## 4. Findings

Four disagreements between the code and what the repository says of it have a run:

* **A ban refuses nobody** (`community_banned`): `check_banned`
  (`server/src/queries.rs:65`) decodes an INTEGER as a BLOB.  `routes.rs:100` says
  that the DB layer checks the ban.
* **A rotation can miss a device** (`community_rotation`): one that registers between
  the list (`queries.rs:143`) and the last statement keeps a wrap of the old key.
  `README.md:76` says "for every registered device".
* **The feed skips ties** (`feed_complete`): the cursor is a timestamp and the
  comparison strict (`queries.rs:269`).  `queries_test.rs:111` states that
  pagination walks all posts, and tests distinct timestamps.
* **A failed SELECT replaces the server's identity** (`startup_identity`):
  `load_noise_key` (`db.rs:42`) takes every error for "no key".  `README.md:68` says
  that clients know the identity from registration.

Five more were met while modelling.  The models contain the behaviour, no run
states the broken promise yet:

* `queries.rs:327`: a fault between the INSERT of a device and the count leaves a row
  that is never counted, although `routes.rs:33` calls registration atomic.
  (`MemberCount` and `JoinUncounted` of `Membership` say precisely what remains.)
* `noise.rs:378`: Lagged, which is recoverable, closes the connection, although
  `noise.rs:259` says that notifications are pushed (`RecvError`).
* `noise.rs:226`: the loop reads on only while snow reports `Error::Input`, which it does
  for an incomplete point.  A first message cut within its tag is refused, although
  `noise.rs:222` says "accumulate bytes until snow can parse" (`ReadMessage1`).
* `noise.rs:357`: an answer larger than 65535 bytes closes the connection unanswered
  (`Routed`, kind `"large"`).
* `admin-tui/src/event.rs:38`: the ban key decides by the last search, which `refresh`
  does not renew, so that a second press repeats the first, although
  `README.md:230` describes it as ban / unban (`BanSelected`, `BanDetail`).

## 5. Proofs

All theorems hold for any sets and bounds that satisfy the assumptions named in the
modules: `Uncompressed \subseteq Point \subseteq Device`, `Task` finite, natural
bounds, `BufSize > MaxMsg + 2`, payloads of at most `MaxMsg` bytes, a key that is not `NoKey`,
a channel, a transport, a page, a point and a tag of at least one, timestamps that are
integers, and finitely many devices for the TUI to list.

* **`CommunityProofs`.**  The inductive invariant `Inv` is `TypeOK`, `Locals`,
  `KeyFirst` and `EveryDeviceCanBeRewrapped`.  `TypeOK` alone is not inductive: the
  bounds on `key[t]` and `todo[t]` and the refusal of bad keys are facts about what a
  local variable is worth at a statement, which `Locals` states per `pc`; `KeyFirst`
  says that the community row precedes every device, which is why the INSERT of
  the row can only count zero devices.  `TypeCorrect`, `DevicesStayRewrappable`
  and `NoRegistrationBeforeKey` follow.  `MemberCountAlways` tracks how each step
  changes `Pending`, the tasks between INSERT and count, by one element.
  `OrphansAlwaysNeedFaults` follows a wrap to the rotation that made it: a key without a
  rotation behind it was left by one that a fault ended.  `FreshKeys` (no two rotations
  hold the same key, and none that was in force) is needed for `Refinement`: every step
  of `Community`, faults included, is a step of `Membership` or a stutter.
* **`ContentProofs`.**  `ContentImplementsCommunity` maps every step to `[Next]_vars` of
  `Community`, so that its theorems hold of `Content`; `ContentKeepsTheRegistry` is one of
  them carried over.  `ContentInv` adds that the
  caller of `ensure_device_registered` has an author with a row once it returned
  (`Calls`), and that every report is of a stored post; `AuthorsAlwaysRegistered`,
  `ParentsAlwaysFirst` and `JoinsNeverLoseReports` follow.
* **`FeedProofs`.**  `WalkInv`: what is below the cursor has not been seen, and what was there at
  the start and has not been seen is below the cursor or at an edge.
  `OnlyTiesAreMissed` and `NothingIsServedTwice` follow.  `FeedAlwaysAnswers` builds the page
  that `IsPage` describes, so that no theorem about pages is about requests that have
  none.  `DistinctWalkIsComplete` is the other side of the finding `feed_complete`: with
  distinct timestamps every edge is a post that was seen (`EdgesAreSeen`), and nothing is
  missed.
* **`ThreadProofs`.**  The prover has no induction over data to offer, so the module proves
  what it needs from the well-founded order of the naturals that the library gives it:
  every nonempty set of naturals has a least element (`Least`), and so whatever set of
  numbers holds 0 and each successor holds all (`SetInduction`, `StrongSetInduction`).  These
  take a set where the library's theorem takes an operator.  `LevelIs` and `BelowIs` unfold the
  recursive functions; `Tree` (parents have smaller ids) makes both well defined.
  `RowsAreBelow`: by induction on depth each row is below the root, and by strong induction on
  ids each post below the root is a row.  `RowPerPost`: at one depth only, which is why the
  answer has nothing twice.  `RepliesAlwaysFollow` adds that an answer was sorted by depth when
  it was made (`AnswerFits`) and that later posts change no parent.  `EveryRequestIsAnswered`
  shows by induction on cardinality that the rows can be sorted.
* **`NoiseProofs`.**  `Ordered` (frames lie one after the other in the stream),
  `Buffered` (no byte that was not written), `FrontFrame` (`select!` is reached only
  without a complete frame) and `Prepared`.  `FrontFrame` is what bounds `read_pos`
  below the buffer: an incomplete frame is at most `MaxMsg + 1` bytes, hence
  `NeverMistakenForGone` for all sizes.  The second half is about what is said.  `NextFrame`
  (the frames leave no gap) makes `Served` unique and lets it count on by one with
  each frame.  `Talk` adds `Held` (which message each phase has in hand), `Said` (`out` has
  exactly the messages up to the counts), `Silenced` (the nonce keeps up with the frames
  until one is garbled, and never again) and `InHand`.  From it, `AlwaysInOrder`, and
  `KeepsThePromise`: one lemma per step of `Dialogue`, and `QuietStep` for all others.
  `LoopNeverStuck`: the loop never waits for what cannot come.
* **`NotificationsProofs`.**  `NothingSlips` is inductive with `TypeOK`, by which every
  announced post is one of the stored ones that a feed request selects from, and `Held`: only
  a handler between INSERT and `send` has a post in hand, and only a subscribed
  connection has a page.  `PageOrBehind` is about the query: what a first page leaves out is
  dated no later than anything on it, and the page is full.  `PostsAlwaysAnnounced` counts: a step adds at most one
  element to `Unannounced`, and only one that adds to `faults` does.
* **`HandshakeProofs`.**  For `Startup`, `Reached`: what a phase says of tables, trigger and
  key.  `HandshakeImplementsStartup` carries `Startup`'s invariants over;
  `Live` adds that there are connections only while the server serves, and that
  without a failed statement each was made for the stored key.  `ReadingIsShort`, a part of
  `HandshakeTypeOK`, is also what bounds the reads of one handshake.
* **`AdminTuiProofs`.**  `TypeInv` is `TypeOK` with what it rests on: the detail view shows an
  entry of the list, and a list is no longer than there are devices.  `ReportUnderCursor` is
  inductive by itself; `DeviceUnderCursor` needs `Rows`, because Tab leaves the cursor at a
  position in a list that is gone.

**Measures.**  Liveness under fairness is beyond the prover.  What is not about fairness in it
is proved for every instance: that the steps which fairness speaks of cannot go on for
ever without an end, and do not wait for what never comes.

| Liveness (TLC) | Measure (proved) |
|---|---|
| `RequestsTerminate` | `RequestsAlwaysAdvance`: each answered statement is followed by a later one, or by the same one with a shorter list; nobody else changes either.  `LoopAlwaysHasWork`: the loop never finds its list empty |
| `WalkTerminates` | `PagesAdvance`: each page ends the walk or leaves strictly fewer posts below the cursor; `FeedAlwaysAnswers` |
| `FramesAreAnswered` | `LoopAlwaysAdvances`: each step of the loop raises (`base`, `read_pos`, `received`, place); `LoopNeverStuck` |
| `HandshakesEnd` | `HandshakesAlwaysAdvance`: at most one read per byte of the point, and no way back |
| `ReadersAreAnswered` | `TasksAlwaysAdvance`: each step of a task lowers its `frames` or takes it to a later place; other clients neither move nor block it |

**The other side of two findings.**  `DistinctWalkIsComplete` and `LoneRotationReaches` prove what
the code does keep of two broken promises: whenever the timestamps stored are distinct, a
finished walk is complete; and with a single task, a rotation that installs its key has
re-wrapped every device it listed, whatever fails and whoever is banned meanwhile.  What
the violation runs show therefore takes a tie, and a registration or an unban after the list.

Only model-checked: the liveness properties themselves (the five above, `ServesAgain`, whose
steps a crash may repeat as often as there are crashes, and `ReadersAreTold`, which needs strong
fairness), and the violations.

## 6. Not modelled, and why

* Ciphers, signatures and encodings: sets and flags stand for what they accept; the
  handshake's message 1 is accepted or not by its length, its key and its prologue.
* Logging and rendering change no state.  The read-only admin pages and the key
  check in front of them do not either; wording and HTTP status codes are left out.
* The byte level of several connections at once: `NoiseConnection` has one connection
  with its bytes, `Notifications` all of them with whole frames; that each of the
  latter behaves like one of the former is not stated as a refinement.
* A post stored twice because its answer was lost: posts carry no identity, and nothing
  in the repository promises one.
* A ban between `check_banned` and the INSERT: while `check_banned` refuses nobody, the race cannot be told apart.
* The kick key of the TUI: the server answers every kick with an error.

## 7. Plan

Built in this order: `Community` over `Membership` with its proofs; `Content`;
`Feed`; `Thread`; `NoiseConnection`; `Startup`; `AdminTui`; `Handshake` over `Startup`;
`Notifications`; `Dialogue` under `NoiseConnection`; the proofs of each.  Left:

1. `NoiseConnection` as a refinement of one client of `Notifications`, with the batch of
   frames mapped to the complete frames in the buffer.
2. Termination of content requests, as `RequestsTerminate` is for the registry; the run
   needs its symmetry given up, and with it a smaller instance.  Its measure in
   `ContentProofs`, over `RequestsAlwaysAdvance`.
3. Runs for those of the remaining disagreements of section 4 that prove the most
   telling, in place of shallower runs, and with them theorems of what remains true.
4. Measures for `ServesAgain` and `ReadersAreTold`.
