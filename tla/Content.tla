------------------------------- MODULE Content -------------------------------
(***************************************************************************)
(* Posts, comments and reports: submit_post, submit_report and             *)
(* admin_resolve_report of server/src/queries.rs, on top of Community.     *)
(*                                                                         *)
(* A content request is served by a task of Community.  It has a control   *)
(* state of its own, cpc, and calls ensure_device_registered as a          *)
(* subroutine: while cpc[t] is "register_author" or "register_reporter",   *)
(* pc[t] runs Community's statements, and its outcome is the return value. *)
(***************************************************************************)
EXTENDS Community, Sequences

CONSTANTS
  MaxPost,    \* bound: rows ever inserted in posts
  MaxReport   \* bound: rows ever inserted in reports

ASSUME ContentBoundAssumption == MaxPost \in Nat /\ MaxReport \in Nat

VARIABLES
  posts,      \* rows of table posts; the position is the AUTOINCREMENT id
  reports,    \* rows of table reports, likewise
  resolved,   \* the ids of reports whose resolved_at is not NULL
  cpc,        \* per task, the content statement it is about to run, or its answer
  who,        \* author_pk or reporter_pk of the request
  about,      \* parent_id (0 for None) or post_id of the request
  mishaps     \* faults outside Community's statements, bounded by MaxFaults too

contentTables == <<posts, reports, resolved>>
requests      == <<cpc, who, about>>
contentVars   == <<contentTables, requests, mishaps>>
allVars       == <<vars, contentVars>>

Answer == {"stored", "invalid_author", "invalid_signature", "author_banned",
           "not_found", "db_error", "panicked"}
OwnStatement == {"check_author", "insert_post", "find_post", "insert_report"}
Calling == {"register_author", "register_reporter"}

ContentTypeOK ==
  /\ posts \in Seq([author : Device, parent : 0..MaxPost + 1])
  /\ reports \in Seq([reporter : Device, post : 0..MaxPost + 1])
  /\ resolved \subseteq 1..Len(reports)
  /\ cpc \in [Task -> {"none"} \cup Answer \cup OwnStatement \cup Calling]
  /\ who \in [Task -> Device \cup {NoDevice}]
  /\ about \in [Task -> 0..MaxPost + 1]
  /\ mishaps \in 0..MaxFaults

ContentInit ==
  /\ Init
  /\ posts = <<>>
  /\ reports = <<>>
  /\ resolved = {}
  /\ cpc = [t \in Task |-> "none"]
  /\ who = [t \in Task |-> NoDevice]
  /\ about = [t \in Task |-> 0]
  /\ mishaps = 0

Continue(t, label) == cpc' = [cpc EXCEPT ![t] = label]

Started(t, d, id, label) ==
  /\ pc[t] = "idle"
  /\ cpc[t] = "none"
  /\ Continue(t, label)
  /\ who' = [who EXCEPT ![t] = d]
  /\ about' = [about EXCEPT ![t] = id]
  /\ UNCHANGED <<vars, contentTables, mishaps>>

Finished(t) ==
  /\ Continue(t, "none")
  /\ who' = [who EXCEPT ![t] = NoDevice]
  /\ about' = [about EXCEPT ![t] = 0]
------------------------------------------------------------------------------
(* submit_post. *)

\* The post handler: validate_pk_dev, then ecdsa_verify.
SubmitPost(t, d, parent, signed) ==
  Started(t, d, parent,
          CASE d \notin Uncompressed -> "invalid_author"
            [] d \in Uncompressed /\ ~signed -> "invalid_signature"
            [] d \in Uncompressed /\ signed -> "check_author")

CheckAuthor(t) ==
  /\ cpc[t] = "check_author"
  /\ \E answer \in BannedAnswer(who[t]) :
       IF answer = "no"
         THEN EnsureRegistered(t, who[t]) /\ Continue(t, "register_author")
         ELSE /\ Continue(t, IF answer = "yes" THEN "author_banned" ELSE "panicked")
              /\ UNCHANGED vars
  /\ UNCHANGED <<contentTables, who, about, mishaps>>

\* Mutants: the error of ensure_device_registered is discarded; its future is not
\* awaited.
ReturnedAnyway(t, next) ==
  /\ pc[t] \in Outcome
  /\ Continue(t, next)
  /\ Leave(t)
  /\ UNCHANGED <<tables, keys, faults, contentTables, who, about, mishaps>>

ReturnedEarly(t, next) ==
  /\ Continue(t, next)
  /\ Leave(t)
  /\ UNCHANGED <<tables, keys, faults, contentTables, who, about, mishaps>>

\* ensure_device_registered returns: Ok also when register_device said is_banned.
Returned(t, next) ==
  /\ pc[t] \in Outcome
  /\ Continue(t, CASE pc[t] \in {"ok", "refused"} -> next
                   [] pc[t] = "panicked" -> "panicked"
                   [] pc[t] \in {"error", "no_group_key"} -> "db_error")
  /\ Leave(t)
  /\ UNCHANGED <<tables, keys, faults, contentTables, who, about, mishaps>>

AuthorRegistered(t) == cpc[t] = "register_author" /\ Returned(t, "insert_post")

\* Mutant: the trigger is missing.
ParentUnchecked(t) == TRUE

\* The trigger validate_comment_parent.
ParentExists(t) == about[t] = 0 \/ about[t] \in 1..Len(posts)

PostInserted(t) ==
  /\ Len(posts) < MaxPost
  /\ ParentExists(t)
  /\ posts' = Append(posts, [author |-> who[t], parent |-> about[t]])
  /\ UNCHANGED <<reports, resolved>>

InsertPost(t) ==
  /\ cpc[t] = "insert_post"
  /\ PostInserted(t)
  /\ Continue(t, "stored")
  /\ UNCHANGED <<vars, who, about, mishaps>>

\* RAISE(ABORT, 'parent post not found').
InsertPostAborted(t) ==
  /\ cpc[t] = "insert_post"
  /\ ~ParentExists(t)
  /\ Continue(t, "db_error")
  /\ UNCHANGED <<vars, contentTables, who, about, mishaps>>
------------------------------------------------------------------------------
(* submit_report and admin_resolve_report. *)

\* The report handler passes reporter_pk on as it came.
SubmitReport(t, d, id) == Started(t, d, id, "find_post")

\* Mutant: the report is taken without looking for its post.
FindAnyPost(t) ==
  /\ cpc[t] = "find_post"
  /\ EnsureRegistered(t, who[t]) /\ Continue(t, "register_reporter")
  /\ UNCHANGED <<contentTables, who, about, mishaps>>

FindPost(t) ==
  /\ cpc[t] = "find_post"
  /\ IF about[t] \in 1..Len(posts)
       THEN EnsureRegistered(t, who[t]) /\ Continue(t, "register_reporter")
       ELSE Continue(t, "not_found") /\ UNCHANGED vars
  /\ UNCHANGED <<contentTables, who, about, mishaps>>

ReporterRegistered(t) == cpc[t] = "register_reporter" /\ Returned(t, "insert_report")

ReportInserted(t) ==
  /\ Len(reports) < MaxReport
  /\ reports' = Append(reports, [reporter |-> who[t], post |-> about[t]])
  /\ UNCHANGED <<posts, resolved>>

InsertReport(t) ==
  /\ cpc[t] = "insert_report"
  /\ ReportInserted(t)
  /\ Continue(t, "stored")
  /\ UNCHANGED <<vars, who, about, mishaps>>

\* Mutant: resolved_at is kept apart from the rows of reports.
ResolveAnyReport(id) ==
  /\ resolved' = resolved \cup {id}
  /\ UNCHANGED <<vars, posts, reports, requests, mishaps>>

\* An unknown or already resolved report changes nothing.
ResolveReport(id) ==
  /\ id \in 1..Len(reports) \ resolved
  /\ resolved' = resolved \cup {id}
  /\ UNCHANGED <<vars, posts, reports, requests, mishaps>>

Respond(t) ==
  /\ cpc[t] \in Answer
  /\ Finished(t)
  /\ UNCHANGED <<vars, contentTables, mishaps>>
------------------------------------------------------------------------------
(* Faults of the content statements. *)

\* check_banned answers false, parent_post_exists too, an INSERT is an error.
ContentFail(t) ==
  /\ mishaps < MaxFaults
  /\ mishaps' = mishaps + 1
  /\ \/ /\ cpc[t] = "check_author"
        /\ EnsureRegistered(t, who[t])
        /\ Continue(t, "register_author")
     \/ /\ cpc[t] = "find_post"
        /\ Continue(t, "not_found")
        /\ UNCHANGED vars
     \/ /\ cpc[t] \in {"insert_post", "insert_report"}
        /\ Continue(t, "db_error")
        /\ UNCHANGED vars
  /\ UNCHANGED <<contentTables, who, about>>

ContentLoseAnswer(t) ==
  /\ mishaps < MaxFaults
  /\ mishaps' = mishaps + 1
  /\ \/ cpc[t] = "insert_post" /\ PostInserted(t)
     \/ cpc[t] = "insert_report" /\ ReportInserted(t)
  /\ Continue(t, "db_error")
  /\ UNCHANGED <<vars, who, about>>

ContentCancel(t) ==
  \/ /\ cpc[t] \in OwnStatement
     /\ mishaps < MaxFaults
     /\ mishaps' = mishaps + 1
     /\ Finished(t)
     /\ UNCHANGED <<vars, contentTables>>
  \/ /\ cpc[t] \in Calling
     /\ Cancel(t)
     /\ Finished(t)
     /\ UNCHANGED <<contentTables, mishaps>>
------------------------------------------------------------------------------
\* Community's steps, alone or as the subroutine of a content request.
CommunityStep(t) ==
  /\ \/ cpc[t] = "none" /\ (Request(t) \/ Serve(t) \/ Fault(t))
     \/ cpc[t] \in Calling /\ (RegisterStep(t) \/ Fail(t) \/ LoseAnswer(t))
  /\ UNCHANGED contentVars

ContentRequest(t) ==
  \/ \E d \in Device, parent \in 0..MaxPost + 1, signed \in BOOLEAN :
       SubmitPost(t, d, parent, signed)
  \/ \E d \in Device, id \in 1..MaxPost + 1 : SubmitReport(t, d, id)

ContentServe(t) ==
  \/ CheckAuthor(t) \/ AuthorRegistered(t) \/ InsertPost(t) \/ InsertPostAborted(t)
  \/ FindPost(t) \/ ReporterRegistered(t) \/ InsertReport(t) \/ Respond(t)

ContentFault(t) == ContentFail(t) \/ ContentLoseAnswer(t) \/ ContentCancel(t)

ContentNext ==
  \/ \E t \in Task : \/ CommunityStep(t) \/ ContentRequest(t)
                     \/ ContentServe(t) \/ ContentFault(t)
  \/ \E d \in Device, banned \in BOOLEAN : SetBanned(d, banned) /\ UNCHANGED contentVars
  \/ \E id \in 1..MaxReport : ResolveReport(id)

ContentSpec == ContentInit /\ [][ContentNext]_allVars
------------------------------------------------------------------------------
(* Properties. *)

\* submit_post and submit_report store nothing in the name of a device that has no
\* row, whatever happened while ensure_device_registered was registering it.
AuthorsAreRegistered ==
  /\ \A i \in DOMAIN posts : posts[i].author \in devices
  /\ \A i \in DOMAIN reports : reports[i].reporter \in devices

\* A comment is younger than its parent: the recursion of fetch_thread ends.
ParentsComeFirst == \A i \in DOMAIN posts : posts[i].parent \in 0..i - 1

\* What the JOINs of admin_unresolved_reports yield, before its ORDER BY and LIMIT, which
\* AdminTui has: a report with its post and the row of the post's author.
JoinedReports ==
  {i \in DOMAIN reports \ resolved :
     \E p \in DOMAIN posts : p = reports[i].post /\ posts[p].author \in devices}

\* The inner JOINs drop no report: the 50 rows of the admin's list are taken from all
\* unresolved reports, so that only newer ones can keep a report off it.
JoinsLoseNoReport == JoinedReports = DOMAIN reports \ resolved

\* The content of a community leaves the registry and the key handling alone:
\* every step is a step of Community or does not touch its state.
ImplementsCommunity == Spec
==============================================================================
