---------------------------- MODULE ContentProofs ----------------------------
(* Theorems about Content, for any devices, any number of tasks, any bounds. *)
EXTENDS Content, CommunityProofs, SequenceTheorems

Post == [author : Device, parent : 0..MaxPost + 1]
Report == [reporter : Device, post : 0..MaxPost + 1]

\* A task that is serving a content request knows whose it is.
ContentTyping ==
  /\ ContentTypeOK
  /\ \A t \in Task : cpc[t] # "none" => who[t] \in Device

\* What a step does to the control state of one task and to nothing else of cpc, who
\* and about.
Retargeted(t) ==
  /\ mishaps' \in 0..MaxFaults
  /\ \/ \E label \in Answer \cup OwnStatement \cup Calling :
          Continue(t, label) /\ UNCHANGED <<who, about>> /\ who[t] \in Device
     \/ \E d \in Device, id \in 0..MaxPost + 1, label \in Answer \cup OwnStatement :
          /\ Continue(t, label)
          /\ who' = [who EXCEPT ![t] = d]
          /\ about' = [about EXCEPT ![t] = id]
     \/ Finished(t)

\* Moving one task keeps the requests well typed.
LEMMA TargetTyping ==
  ASSUME ContentTyping, NEW t \in Task, Retargeted(t)
  PROVE  /\ cpc' \in [Task -> {"none"} \cup Answer \cup OwnStatement \cup Calling]
         /\ who' \in [Task -> Device \cup {NoDevice}]
         /\ about' \in [Task -> 0..MaxPost + 1]
         /\ \A u \in Task : cpc'[u] # "none" => who'[u] \in Device
<1> USE DEF ContentTyping, ContentTypeOK
<1>1. CASE \E label \in Answer \cup OwnStatement \cup Calling :
             Continue(t, label) /\ UNCHANGED <<who, about>> /\ who[t] \in Device
  BY <1>1 DEF Continue
<1>2. ASSUME NEW d \in Device, NEW id \in 0..MaxPost + 1,
             NEW label \in Answer \cup OwnStatement, Continue(t, label),
             who' = [who EXCEPT ![t] = d], about' = [about EXCEPT ![t] = id]
      PROVE  /\ cpc' \in [Task -> {"none"} \cup Answer \cup OwnStatement \cup Calling]
             /\ who' \in [Task -> Device \cup {NoDevice}]
             /\ about' \in [Task -> 0..MaxPost + 1]
             /\ \A u \in Task : cpc'[u] # "none" => who'[u] \in Device
  BY <1>2 DEF Continue
<1>3. CASE Finished(t)
  <2>1. 0 \in 0..MaxPost + 1
    BY ContentBoundAssumption
  <2>2. QED
    BY <1>3, <2>1 DEF Finished, Continue
<1>4. QED
  BY <1>1, <1>2, <1>3 DEF Retargeted

\* So does it the whole state, when the tables stay as they are.
LEMMA RetargetedTyping ==
  ASSUME ContentTyping, NEW t \in Task, Retargeted(t), UNCHANGED contentTables
  PROVE  ContentTyping'
BY TargetTyping DEF ContentTyping, ContentTypeOK, Retargeted, contentTables

\* A stored post is well typed.
LEMMA InsertPostTyping ==
  ASSUME ContentTyping, NEW t \in Task, Retargeted(t), PostInserted(t), cpc[t] = "insert_post"
  PROVE  ContentTyping'
<1>1. posts' \in Seq(Post)
  BY DEF PostInserted, ContentTyping, ContentTypeOK, Post
<1>2. QED
  BY <1>1, TargetTyping
  DEF ContentTyping, ContentTypeOK, Retargeted, PostInserted, Post

\* A stored report is well typed.
LEMMA InsertReportTyping ==
  ASSUME ContentTyping, NEW t \in Task, Retargeted(t), ReportInserted(t),
         cpc[t] = "insert_report"
  PROVE  ContentTyping'
<1>1. reports' \in Seq(Report) /\ Len(reports') = Len(reports) + 1
  BY DEF ReportInserted, ContentTyping, ContentTypeOK, Report
<1>2. resolved' \subseteq 1..Len(reports')
  BY <1>1 DEF ReportInserted, ContentTyping, ContentTypeOK
<1>3. QED
  BY <1>1, <1>2, TargetTyping
  DEF ContentTyping, ContentTypeOK, Retargeted, ReportInserted, Report
------------------------------------------------------------------------------
(* The call of ensure_device_registered. *)

\* What a content task may rely on at each of its statements.
Calls(t) ==
  /\ cpc[t] \in Calling =>
       /\ pc[t] \in Registering \cup (Outcome \ {"rejected"})
       /\ dev[t] = who[t]
       /\ pc[t] \in {"ok", "refused"} => who[t] \in devices
  /\ cpc[t] \in {"insert_post", "insert_report"} => who[t] \in devices
  /\ cpc[t] \in {"register_reporter", "insert_report"} => about[t] \in 1..Len(posts)

ReportsAreOfPosts == \A i \in DOMAIN reports : reports[i].post \in DOMAIN posts

ContentInv ==
  /\ Inv
  /\ ContentTyping
  /\ \A t \in Task : Calls(t)
  /\ AuthorsAreRegistered
  /\ ParentsComeFirst
  /\ ReportsAreOfPosts

\* Devices only grow, and a task's step moves no other task.
LEMMA CommunityFrame ==
  ASSUME Inv, NEW t \in Task, Request(t) \/ Serve(t) \/ Fault(t)
  PROVE  /\ devices \subseteq devices'
         /\ \A u \in Task : u # t => pc'[u] = pc[u] /\ dev'[u] = dev[u]
<1> USE DEF Goto, tables, locals, Inv, TypeOK
<1>1. CASE Request(t)
  BY <1>1 DEF Request, Register, EnsureRegistered, RotateGroupKey
<1>2. CASE RegisterStep(t)
  BY <1>2
  DEF RegisterStep, SelectExisting, CheckBanned, GetGroupKey, AfterGroupKey, SelectDevice, UpdateDevice,
      InsertDevice, InsertDeviceConflict, IncrementMemberCount, DeviceUpdated,
      DeviceInserted, CountIncremented
<1>3. CASE RotateStep(t)
  BY <1>3
  DEF RotateStep, ListDevices, RewrapDevice, DeviceRewrapped, SelectCommunity,
      UpdateCommunity, CommunityUpdated, InsertCommunity, CommunityInserted,
      InsertCommunityConflict
<1>4. CASE Reply(t)
  BY <1>4 DEF Reply, Leave
<1>5. CASE Fault(t)
  BY <1>5
  DEF Fault, Fail, LoseAnswer, Cancel, Leave, DeviceUpdated, DeviceInserted,
      CountIncremented, DeviceRewrapped, CommunityUpdated, CommunityInserted
<1>6. QED
  BY <1>1, <1>2, <1>3, <1>4, <1>5 DEF Serve

\* A statement of register_device leads to the next one or to an outcome, "ok" only
\* when the device has its row.
LEMMA SubroutineStep ==
  ASSUME Inv, NEW t \in Task, pc[t] \in Registering \cup Outcome,
         RegisterStep(t) \/ Fail(t) \/ LoseAnswer(t)
  PROVE  /\ pc'[t] \in Registering \cup (Outcome \ {"rejected", "refused"})
         /\ dev' = dev
         /\ pc'[t] = "ok" => dev[t] \in devices
<1> USE DEF Goto, tables, locals, Inv, TypeOK, Registering, Outcome
<1>1. CASE SelectExisting(t)
  BY <1>1 DEF SelectExisting
<1>2. CASE CheckBanned(t)
  BY <1>2 DEF CheckBanned, BannedAnswer
<1>3. CASE GetGroupKey(t)
  BY <1>3 DEF GetGroupKey, AfterGroupKey
<1>4. CASE SelectDevice(t)
  BY <1>4 DEF SelectDevice
<1>5. CASE UpdateDevice(t) \/ InsertDevice(t) \/ InsertDeviceConflict(t) \/ IncrementMemberCount(t)
  BY <1>5
  DEF UpdateDevice, InsertDevice, InsertDeviceConflict, IncrementMemberCount, Locals
<1>6. CASE Fail(t)
  BY <1>6 DEF Fail
<1>7. CASE LoseAnswer(t)
  BY <1>7 DEF LoseAnswer
<1>8. QED
  BY <1>1, <1>2, <1>3, <1>4, <1>5, <1>6, <1>7 DEF RegisterStep

\* Community's steps keep the content invariant.
LEMMA CommunityStepInv ==
  ASSUME ContentInv, Inv', NEW t \in Task, CommunityStep(t)
  PROVE  ContentInv'
<1>1. UNCHANGED contentVars /\ (Request(t) \/ Serve(t) \/ Fault(t))
  BY DEF CommunityStep, Serve, Fault
<1>2. /\ devices \subseteq devices'
      /\ \A u \in Task : u # t => pc'[u] = pc[u] /\ dev'[u] = dev[u]
  BY <1>1, CommunityFrame DEF ContentInv
<1>3. Calls(t)'
  <2>1. CASE cpc[t] \in Calling
    <3>1. RegisterStep(t) \/ Fail(t) \/ LoseAnswer(t)
      BY <2>1 DEF CommunityStep, Calling
    <3>2. /\ pc'[t] \in Registering \cup (Outcome \ {"rejected", "refused"})
          /\ dev' = dev
          /\ pc'[t] = "ok" => dev[t] \in devices
      BY <2>1, <3>1, SubroutineStep DEF ContentInv, Calls
    <3>3. QED
      BY <1>1, <1>2, <2>1, <3>2
      DEF ContentInv, Calls, contentVars, contentTables, requests, Registering
  <2>2. CASE cpc[t] \notin Calling
    BY <1>1, <1>2, <2>2 DEF ContentInv, Calls, contentVars, contentTables, requests
  <2>3. QED
    BY <2>1, <2>2
<1>4. ASSUME NEW u \in Task, u # t
      PROVE  Calls(u)'
  BY <1>1, <1>2, <1>4 DEF ContentInv, Calls, contentVars, contentTables, requests
<1>5. ContentTyping' /\ ParentsComeFirst' /\ ReportsAreOfPosts'
  BY <1>1
  DEF ContentInv, ContentTyping, ContentTypeOK, ParentsComeFirst, ReportsAreOfPosts,
      contentVars, contentTables, requests
<1>6. AuthorsAreRegistered'
  BY <1>1, <1>2
  DEF ContentInv, AuthorsAreRegistered, contentVars, contentTables
<1>7. QED
  BY <1>3, <1>4, <1>5, <1>6 DEF ContentInv
------------------------------------------------------------------------------
(* Content's own steps. *)

\* Each step of Content is a step of Community or leaves its variables alone.
LEMMA ImplementationStep == ContentInv /\ [ContentNext]_allVars => [Next]_vars
<1> SUFFICES ASSUME ContentInv, [ContentNext]_allVars PROVE [Next]_vars
  OBVIOUS
<1>1. \A t \in Task : cpc[t] # "none" => who[t] \in Device
  BY DEF ContentInv, ContentTyping
<1>2. ASSUME NEW t \in Task, CommunityStep(t)
      PROVE  Next
  BY <1>2 DEF CommunityStep, Serve, Fault, Next
<1>3. ASSUME NEW t \in Task, ContentRequest(t)
      PROVE  UNCHANGED vars
  BY <1>3 DEF ContentRequest, SubmitPost, SubmitReport, Started
<1>4. ASSUME NEW t \in Task, cpc[t] # "none", EnsureRegistered(t, who[t])
      PROVE  Next
  BY <1>1, <1>4 DEF Next, Request
<1>5. ASSUME NEW t \in Task, NEW next, Returned(t, next)
      PROVE  Next
  BY <1>5 DEF Returned, Reply, Serve, Next
<1>6. ASSUME NEW t \in Task, ContentServe(t)
      PROVE  [Next]_vars
  BY <1>4, <1>5, <1>6
  DEF ContentServe, CheckAuthor, AuthorRegistered, InsertPost, InsertPostAborted, FindPost,
      ReporterRegistered, InsertReport, Respond
<1>7. ASSUME NEW t \in Task, ContentFault(t)
      PROVE  [Next]_vars
  BY <1>4, <1>7
  DEF ContentFault, ContentFail, ContentLoseAnswer, ContentCancel, Fault, Next
<1>8. ASSUME NEW id \in 1..MaxReport, ResolveReport(id)
      PROVE  UNCHANGED vars
  BY <1>8 DEF ResolveReport
<1>9. CASE UNCHANGED allVars
  BY <1>9 DEF allVars
<1>10. QED
  BY <1>2, <1>3, <1>6, <1>7, <1>8, <1>9 DEF ContentNext, Next

\* A step of t that leaves the tables of Content alone, and Calls of t to be shown.
LEMMA OwnStepInv ==
  ASSUME ContentInv, Inv', NEW t \in Task, Retargeted(t), Calls(t)', UNCHANGED contentTables,
         devices \subseteq devices',
         \A u \in Task : u # t => pc'[u] = pc[u] /\ dev'[u] = dev[u]
  PROVE  ContentInv'
<1>1. ContentTyping'
  BY RetargetedTyping DEF ContentInv
<1>2. ASSUME NEW u \in Task, u # t
      PROVE  Calls(u)'
  <2>1. cpc'[u] = cpc[u] /\ who'[u] = who[u] /\ about'[u] = about[u]
    BY <1>2 DEF Retargeted, Continue, Finished, ContentInv, ContentTyping, ContentTypeOK
  <2>2. QED
    BY <1>2, <2>1 DEF ContentInv, Calls, contentTables
<1>3. AuthorsAreRegistered' /\ ParentsComeFirst' /\ ReportsAreOfPosts'
  BY DEF ContentInv, AuthorsAreRegistered, ParentsComeFirst, ReportsAreOfPosts, contentTables
<1>4. QED
  BY <1>1, <1>2, <1>3 DEF ContentInv

\* The same for the two INSERTs, which leave Community alone.
LEMMA InsertPostInv ==
  ASSUME ContentInv, Inv', NEW t \in Task, cpc[t] = "insert_post", PostInserted(t),
         Retargeted(t), cpc'[t] \in Answer, UNCHANGED vars
  PROVE  ContentInv'
<1>1. ContentTyping'
  BY InsertPostTyping DEF ContentInv
<1>2. /\ posts \in Seq(Post)
      /\ [author |-> who[t], parent |-> about[t]] \in Post
      /\ posts' = Append(posts, [author |-> who[t], parent |-> about[t]])
      /\ UNCHANGED <<reports, resolved>>
  BY DEF ContentInv, ContentTyping, ContentTypeOK, PostInserted, Post
<1>3. /\ Len(posts') = Len(posts) + 1
      /\ DOMAIN posts' = 1..Len(posts) + 1
      /\ \A i \in 1..Len(posts) : posts'[i] = posts[i]
      /\ posts'[Len(posts) + 1] = [author |-> who[t], parent |-> about[t]]
  BY <1>2, AppendProperties
<1>4. DOMAIN posts = 1..Len(posts) /\ Len(posts) \in Nat
  BY <1>2
<1>5. ASSUME NEW u \in Task
      PROVE  Calls(u)'
  <2>1. UNCHANGED <<pc, dev, devices>>
    BY DEF vars, locals, tables
  <2>2. CASE u = t
    BY <2>2 DEF Calls, Answer, Calling
  <2>3. CASE u # t
    <3>1. cpc'[u] = cpc[u] /\ who'[u] = who[u] /\ about'[u] = about[u]
      BY <2>3 DEF Retargeted, Continue, Finished, ContentInv, ContentTyping, ContentTypeOK
    <3>2. QED
      BY <1>3, <1>4, <2>1, <3>1 DEF ContentInv, Calls
  <2>4. QED
    BY <2>2, <2>3
<1>6. AuthorsAreRegistered'
  <2>1. who[t] \in devices /\ devices' = devices
    BY DEF ContentInv, Calls, vars, tables
  <2>2. QED
    BY <1>2, <1>3, <1>4, <2>1 DEF ContentInv, AuthorsAreRegistered
<1>7. ParentsComeFirst'
  <2>1. about[t] \in 0..Len(posts)
    BY <1>4 DEF PostInserted, ParentExists
  <2>2. QED
    BY <1>3, <1>4, <2>1 DEF ContentInv, ParentsComeFirst
<1>8. ReportsAreOfPosts'
  BY <1>2, <1>3, <1>4 DEF ContentInv, ReportsAreOfPosts
<1>9. QED
  BY <1>1, <1>5, <1>6, <1>7, <1>8 DEF ContentInv

\* Storing a report keeps ContentInv.
LEMMA InsertReportInv ==
  ASSUME ContentInv, Inv', NEW t \in Task, cpc[t] = "insert_report", ReportInserted(t),
         Retargeted(t), cpc'[t] \in Answer, UNCHANGED vars
  PROVE  ContentInv'
<1>1. ContentTyping'
  BY InsertReportTyping DEF ContentInv
<1>2. /\ reports \in Seq(Report)
      /\ [reporter |-> who[t], post |-> about[t]] \in Report
      /\ reports' = Append(reports, [reporter |-> who[t], post |-> about[t]])
      /\ UNCHANGED <<posts, resolved>>
  BY DEF ContentInv, ContentTyping, ContentTypeOK, ReportInserted, Report
<1>3. /\ DOMAIN reports' = 1..Len(reports) + 1
      /\ \A i \in 1..Len(reports) : reports'[i] = reports[i]
      /\ reports'[Len(reports) + 1] = [reporter |-> who[t], post |-> about[t]]
      /\ DOMAIN reports = 1..Len(reports) /\ Len(reports) \in Nat
  BY <1>2, AppendProperties
<1>4. /\ who[t] \in devices /\ devices' = devices
      /\ about[t] \in DOMAIN posts
  BY DEF ContentInv, Calls, vars, tables, ContentTyping, ContentTypeOK
<1>5. ASSUME NEW u \in Task
      PROVE  Calls(u)'
  <2>1. UNCHANGED <<pc, dev, devices>>
    BY DEF vars, locals, tables
  <2>2. CASE u = t
    BY <2>2 DEF Calls, Answer, Calling
  <2>3. CASE u # t
    <3>1. cpc'[u] = cpc[u] /\ who'[u] = who[u] /\ about'[u] = about[u]
      BY <2>3 DEF Retargeted, Continue, Finished, ContentInv, ContentTyping, ContentTypeOK
    <3>2. QED
      BY <1>2, <2>1, <3>1 DEF ContentInv, Calls
  <2>4. QED
    BY <2>2, <2>3
<1>6. AuthorsAreRegistered' /\ ParentsComeFirst' /\ ReportsAreOfPosts'
  BY <1>2, <1>3, <1>4
  DEF ContentInv, AuthorsAreRegistered, ParentsComeFirst, ReportsAreOfPosts
<1>7. QED
  BY <1>1, <1>5, <1>6 DEF ContentInv

\* Entering ensure_device_registered, which nobody else notices.
LEMMA CallInv ==
  ASSUME ContentInv, Inv', NEW t \in Task, who[t] \in Device,
         EnsureRegistered(t, who[t]), NEW label \in Calling, Continue(t, label),
         label = "register_reporter" => about[t] \in 1..Len(posts),
         UNCHANGED <<contentTables, who, about>>, mishaps' \in 0..MaxFaults
  PROVE  ContentInv'
<1>1. Retargeted(t)
  BY DEF Retargeted
<1>2. cpc'[t] = label /\ pc'[t] = "select_existing" /\ dev'[t] = who[t] /\ devices' = devices
  BY DEF Continue, EnsureRegistered, Goto, tables, ContentInv, ContentTyping, ContentTypeOK,
         Inv, TypeOK
<1>3. Calls(t)'
  BY <1>2 DEF Calls, Calling, Registering, Outcome, contentTables
<1>4. \A u \in Task : u # t => pc'[u] = pc[u] /\ dev'[u] = dev[u]
  BY DEF EnsureRegistered, Goto, Inv, TypeOK
<1>5. QED
  BY <1>1, <1>2, <1>3, <1>4, OwnStepInv

\* Answering a request leaves nothing to rely on.
LEMMA AnswerInv ==
  ASSUME ContentInv, Inv', NEW t \in Task, Retargeted(t),
         cpc'[t] \in {"none", "check_author", "find_post"} \cup Answer,
         UNCHANGED contentTables, devices \subseteq devices',
         \A u \in Task : u # t => pc'[u] = pc[u] /\ dev'[u] = dev[u]
  PROVE  ContentInv'
<1>1. Calls(t)'
  BY DEF Calls, Answer, Calling
<1>2. QED
  BY <1>1, OwnStepInv

\* When ensure_device_registered returns to its caller, ContentInv holds: an Ok means
\* that the device has a row.
LEMMA ReturnInv ==
  ASSUME ContentInv, Inv', NEW t \in Task, cpc[t] \in Calling,
         NEW next \in {"insert_post", "insert_report"}, Returned(t, next),
         next = "insert_report" => cpc[t] = "register_reporter"
  PROVE  ContentInv'
<1>1. /\ pc[t] \in Outcome \ {"rejected"}
      /\ pc[t] \in {"ok", "refused"} => who[t] \in devices
      /\ next = "insert_report" => about[t] \in 1..Len(posts)
      /\ who[t] \in Device
  BY DEF ContentInv, Calls, Returned, ContentTyping, Calling, Registering, Outcome
<1>2. /\ UNCHANGED <<devices, contentTables, who, about, mishaps>>
      /\ \A u \in Task : u # t => pc'[u] = pc[u] /\ dev'[u] = dev[u]
  BY DEF Returned, Leave, Goto, tables, ContentInv, Inv, TypeOK
<1>3. PICK label \in {"panicked", "db_error", next} :
        Continue(t, label) /\ (label = next => pc[t] \in {"ok", "refused"})
  BY <1>1 DEF Returned, Outcome
<1>4. Retargeted(t)
  BY <1>1, <1>2, <1>3
  DEF Retargeted, Answer, OwnStatement, ContentInv, ContentTyping, ContentTypeOK
<1>5. cpc'[t] = label
  BY <1>3 DEF Continue, ContentInv, ContentTyping, ContentTypeOK
<1>6. Calls(t)'
  BY <1>1, <1>2, <1>3, <1>5 DEF Calls, Calling, contentTables
<1>7. QED
  BY <1>2, <1>4, <1>6, OwnStepInv

\* The statements of submit_post and submit_report keep ContentInv.
LEMMA ContentServeInv ==
  ASSUME ContentInv, Inv', NEW t \in Task, ContentServe(t)
  PROVE  ContentInv'
<1>1. /\ cpc[t] # "none" => who[t] \in Device
      /\ mishaps \in 0..MaxFaults
      /\ cpc \in [Task -> {"none"} \cup Answer \cup OwnStatement \cup Calling]
  BY DEF ContentInv, ContentTyping, ContentTypeOK
<1>2. CASE CheckAuthor(t)
  <2>1. CASE EnsureRegistered(t, who[t]) /\ Continue(t, "register_author")
    BY <1>1, <1>2, <2>1, CallInv DEF CheckAuthor, Calling
  <2>2. CASE UNCHANGED vars /\ \E label \in Answer : Continue(t, label)
    <3>1. Retargeted(t) /\ cpc'[t] \in Answer
      BY <1>1, <1>2, <2>2 DEF CheckAuthor, Retargeted, Continue
    <3>2. QED
      BY <1>2, <2>2, <3>1, AnswerInv DEF CheckAuthor, vars, tables, locals
  <2>3. QED
    BY <1>2, <2>1, <2>2 DEF CheckAuthor, Answer
<1>3. CASE AuthorRegistered(t)
  BY <1>3, ReturnInv DEF AuthorRegistered, Calling
<1>4. CASE InsertPost(t)
  <2>1. Retargeted(t) /\ cpc'[t] \in Answer
    BY <1>1, <1>4 DEF InsertPost, Retargeted, Continue, Answer
  <2>2. QED
    BY <1>4, <2>1, InsertPostInv DEF InsertPost
<1>5. CASE InsertPostAborted(t)
  <2>1. Retargeted(t) /\ cpc'[t] \in Answer
    BY <1>1, <1>5 DEF InsertPostAborted, Retargeted, Continue, Answer
  <2>2. QED
    BY <1>5, <2>1, AnswerInv DEF InsertPostAborted, vars, tables, locals
<1>6. CASE FindPost(t)
  <2>1. CASE about[t] \in 1..Len(posts)
    BY <1>1, <1>6, <2>1, CallInv DEF FindPost, Calling
  <2>2. CASE about[t] \notin 1..Len(posts)
    <3>1. Retargeted(t) /\ cpc'[t] \in Answer
      BY <1>1, <1>6, <2>2 DEF FindPost, Retargeted, Continue, Answer
    <3>2. QED
      BY <1>6, <2>2, <3>1, AnswerInv DEF FindPost, vars, tables, locals
  <2>3. QED
    BY <2>1, <2>2
<1>7. CASE ReporterRegistered(t)
  BY <1>7, ReturnInv DEF ReporterRegistered, Calling
<1>8. CASE InsertReport(t)
  <2>1. Retargeted(t) /\ cpc'[t] \in Answer
    BY <1>1, <1>8 DEF InsertReport, Retargeted, Continue, Answer
  <2>2. QED
    BY <1>8, <2>1, InsertReportInv DEF InsertReport
<1>9. CASE Respond(t)
  <2>1. Retargeted(t) /\ cpc'[t] = "none"
    BY <1>1, <1>9 DEF Respond, Retargeted, Finished, Continue
  <2>2. QED
    BY <1>9, <2>1, AnswerInv DEF Respond, vars, tables, locals
<1>10. QED
  BY <1>2, <1>3, <1>4, <1>5, <1>6, <1>7, <1>8, <1>9 DEF ContentServe

\* Their faults do.
LEMMA ContentFaultInv ==
  ASSUME ContentInv, Inv', NEW t \in Task, ContentFault(t)
  PROVE  ContentInv'
<1>1. /\ cpc[t] # "none" => who[t] \in Device
      /\ mishaps \in 0..MaxFaults
      /\ cpc \in [Task -> {"none"} \cup Answer \cup OwnStatement \cup Calling]
  BY DEF ContentInv, ContentTyping, ContentTypeOK
<1>2. ASSUME UNCHANGED <<vars, contentTables, who, about>>, mishaps' \in 0..MaxFaults,
             cpc[t] # "none", NEW label \in Answer, Continue(t, label)
      PROVE  ContentInv'
  <2>1. Retargeted(t) /\ cpc'[t] \in Answer
    BY <1>1, <1>2 DEF Retargeted, Continue
  <2>2. QED
    BY <1>2, <2>1, AnswerInv DEF vars, tables, locals
<1>3. CASE ContentFail(t)
  <2>1. mishaps' \in 0..MaxFaults
    BY <1>1, <1>3, BoundAssumption DEF ContentFail
  <2>2. CASE cpc[t] = "check_author"
    BY <1>1, <1>3, <2>1, <2>2, CallInv DEF ContentFail, Calling
  <2>3. CASE cpc[t] # "check_author"
    BY <1>2, <1>3, <2>1, <2>3 DEF ContentFail, Answer
  <2>4. QED
    BY <2>2, <2>3
<1>4. CASE ContentLoseAnswer(t)
  <2>1. mishaps' \in 0..MaxFaults /\ cpc[t] # "none"
    BY <1>1, <1>4, BoundAssumption DEF ContentLoseAnswer
  <2>2. Retargeted(t) /\ cpc'[t] \in Answer
    BY <1>1, <1>4, <2>1 DEF ContentLoseAnswer, Retargeted, Continue, Answer
  <2>3. QED
    BY <1>4, <2>2, InsertPostInv, InsertReportInv DEF ContentLoseAnswer
<1>5. CASE ContentCancel(t)
  <2>1. Retargeted(t) /\ cpc'[t] = "none" /\ UNCHANGED contentTables
    BY <1>1, <1>5, BoundAssumption DEF ContentCancel, Retargeted, Finished, Continue
  <2>2. CASE UNCHANGED vars
    BY <2>1, <2>2, AnswerInv DEF vars, tables, locals
  <2>3. CASE Cancel(t)
    <3>1. /\ devices \subseteq devices'
          /\ \A u \in Task : u # t => pc'[u] = pc[u] /\ dev'[u] = dev[u]
      BY <2>3, CommunityFrame DEF Fault, ContentInv
    <3>2. QED
      BY <2>1, <3>1, AnswerInv
  <2>4. QED
    BY <1>5, <2>2, <2>3 DEF ContentCancel
<1>6. QED
  BY <1>3, <1>4, <1>5 DEF ContentFault

\* Every step keeps ContentInv.
LEMMA ContentStep == ContentInv /\ [ContentNext]_allVars => ContentInv'
<1> SUFFICES ASSUME ContentInv, [ContentNext]_allVars PROVE ContentInv'
  OBVIOUS
<1>1. Inv'
  BY ImplementationStep, InvStep DEF ContentInv
<1>2. ASSUME NEW t \in Task, ContentRequest(t)
      PROVE  ContentInv'
  <2>1. PICK d \in Device, id \in 0..MaxPost + 1,
             label \in {"check_author", "find_post"} \cup Answer : Started(t, d, id, label)
    BY <1>2, ContentBoundAssumption DEF ContentRequest, SubmitPost, SubmitReport, Answer
  <2>2. Retargeted(t) /\ cpc'[t] \in {"check_author", "find_post"} \cup Answer
    BY <2>1
    DEF Started, Retargeted, Continue, OwnStatement, ContentInv, ContentTyping, ContentTypeOK
  <2>3. QED
    BY <1>1, <2>1, <2>2, AnswerInv DEF Started, vars, tables, locals
<1>3. ASSUME NEW d \in Device, NEW banned \in BOOLEAN, SetBanned(d, banned),
             UNCHANGED contentVars
      PROVE  ContentInv'
  BY <1>1, <1>3
  DEF SetBanned, ContentInv, ContentTyping, ContentTypeOK, Calls, AuthorsAreRegistered,
      ParentsComeFirst, ReportsAreOfPosts, contentVars, contentTables, requests, locals
<1>4. ASSUME NEW id \in 1..MaxReport, ResolveReport(id)
      PROVE  ContentInv'
  BY <1>1, <1>4
  DEF ResolveReport, ContentInv, ContentTyping, ContentTypeOK, Calls, AuthorsAreRegistered,
      ParentsComeFirst, ReportsAreOfPosts, requests, vars, tables, locals
<1>5. CASE UNCHANGED allVars
  BY <1>1, <1>5
  DEF allVars, ContentInv, ContentTyping, ContentTypeOK, Calls, AuthorsAreRegistered,
      ParentsComeFirst, ReportsAreOfPosts, contentVars, contentTables, requests, vars,
      tables, locals
<1>6. QED
  BY <1>1, <1>2, <1>3, <1>4, <1>5, CommunityStepInv, ContentServeInv, ContentFaultInv
  DEF ContentNext

\* Empty tables satisfy ContentInv.
LEMMA ContentInvInit == ContentInit => ContentInv
<1> SUFFICES ASSUME ContentInit PROVE ContentInv
  OBVIOUS
<1>1. Inv
  BY InvInit DEF ContentInit
<1>2. ContentTyping
  BY BoundAssumption, ContentBoundAssumption
  DEF ContentInit, ContentTyping, ContentTypeOK
<1>3. QED
  BY <1>1, <1>2
  DEF ContentInit, ContentInv, Calls, Calling, AuthorsAreRegistered, ParentsComeFirst,
      ReportsAreOfPosts

\* ContentInv holds throughout: what a content request relies on when its INSERT runs
\* was true when it was checked and cannot be undone.
THEOREM ContentInvAlways == ContentSpec => []ContentInv
BY ContentInvInit, ContentStep, PTL DEF ContentSpec

\* Type correctness of Content.
THEOREM ContentTypeCorrect == ContentSpec => []ContentTypeOK
BY ContentInvAlways, PTL DEF ContentInv, ContentTyping

\* Serving posts and reports is only ever a sequence of Community's own steps, so
\* every theorem about Spec holds of ContentSpec.
THEOREM ContentImplementsCommunity == ContentSpec => ImplementsCommunity
<1>1. ContentInit => Init
  BY DEF ContentInit
<1>2. QED
  BY <1>1, ImplementationStep, ContentInvAlways, PTL DEF ContentSpec, Spec, ImplementsCommunity

\* Registrations on behalf of posts and reports included, the registry stays atomic, its
\* count off by one per fault at most, and no key stranded without a fault.
THEOREM ContentKeepsTheRegistry ==
  ContentSpec => ImplementsMembership /\ []MemberCount /\ []OrphansNeedFaults
BY ContentImplementsCommunity, Refinement, MemberCountAlways, OrphansAlwaysNeedFaults
DEF ImplementsCommunity

\* The author of every stored post and report has a row in devices.
THEOREM AuthorsAlwaysRegistered == ContentSpec => []AuthorsAreRegistered
BY ContentInvAlways, PTL DEF ContentInv

\* Comments are younger than their parents, so no thread is a cycle.
THEOREM ParentsAlwaysFirst == ContentSpec => []ParentsComeFirst
BY ContentInvAlways, PTL DEF ContentInv

\* The JOINs of the admin's report list lose no unresolved report; its LIMIT may.
THEOREM JoinsNeverLoseReports == ContentSpec => []JoinsLoseNoReport
<1>1. ContentInv => JoinsLoseNoReport
  BY DEF ContentInv, AuthorsAreRegistered, ReportsAreOfPosts, JoinsLoseNoReport, JoinedReports
<1>2. QED
  BY <1>1, ContentInvAlways, PTL
==============================================================================
