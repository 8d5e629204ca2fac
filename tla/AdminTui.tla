------------------------------ MODULE AdminTui ------------------------------
(***************************************************************************)
(* The operator's terminal: App in admin-tui/src/app.rs and the keys of    *)
(* event.rs, over an admin API that other admins and clients use as well.  *)
(*                                                                         *)
(* The TUI has one thread and blocks in every call, so that a key handler  *)
(* is one action up to its call of refresh, which is another.  What it     *)
(* shows is what it fetched last; its cursors are positions in that.       *)
(***************************************************************************)
EXTENDS Integers, Sequences, FiniteSets, Functions

CONSTANTS
  Device,      \* registered devices
  NoDevice,    \* device_detail's None
  NoReport,    \* before the first report is selected
  ReportedAt,  \* reported_at of each report: the second in which it was filed
  ReportLimit, \* LIMIT of admin_unresolved_reports: 50
  MaxReport    \* bound: reports ever filed

ASSUME DeviceAssumption == IsFiniteSet(Device)
ASSUME BoundAssumption == MaxReport \in Nat
ASSUME ReportAssumption == ReportLimit \in Nat /\ ReportedAt \in [1..MaxReport -> Int]

VARIABLES
  banned,           \* server: the devices whose banned_at is set
  filed,            \* server: reports ever filed; the ids are 1..filed
  resolved,         \* server: the ids of those that are resolved
  mode,             \* the screen; "ended" after q
  devices,          \* the last search result: what it said of each device
  selected_device,  \* position in devices; 0 for None
  device_detail,    \* the entry that the detail view shows
  reports,          \* the reports last fetched, newest first
  selected_report,  \* position in reports; 0 for None
  server_connected,
  refreshing,       \* the thread is in refresh
  aimed_device, aimed_report  \* history: what the operator put the cursors on

server  == <<banned, filed, resolved>>
search  == <<devices, selected_device, device_detail, aimed_device>>
listing == <<reports, selected_report, aimed_report, server_connected>>
vars    == <<server, mode, search, listing, refreshing>>

Entry == [pk : Device, banned : BOOLEAN]

TypeOK ==
  /\ banned \subseteq Device /\ filed \in 0..MaxReport /\ resolved \subseteq 1..filed
  /\ mode \in {"Dashboard", "SearchUser", "UserDetail", "ended"}
  /\ devices \in Seq(Entry) /\ selected_device \in 0..Cardinality(Device)
  /\ device_detail \in Entry \cup {NoDevice}
  /\ reports \in Seq(1..filed) /\ selected_report \in 0..Len(reports)
  /\ server_connected \in BOOLEAN /\ refreshing \in BOOLEAN
  /\ aimed_device \in Device \cup {NoDevice} /\ aimed_report \in 1..filed \cup {NoReport}

\* What admin_unresolved_reports may return: the latest unresolved reports, as many as
\* LIMIT admits; what comes first of those filed in the same second is left open.
UnresolvedReports ==
  LET open == 1..filed \ resolved
      rows == IF Cardinality(open) < ReportLimit THEN Cardinality(open) ELSE ReportLimit
  IN  {s \in Injection(1..rows, open) :
         \A i \in 1..rows, r \in open :
           (\A j \in 1..i : s[j] # r) => ReportedAt[s[i]] >= ReportedAt[r]}

\* What admin_search_devices may return: some of the devices, in some order.
SearchResults ==
  {[i \in DOMAIN s |-> [pk |-> s[i], banned |-> s[i] \in banned]] :
     s \in {s \in UNION {[1..n -> Device] : n \in 0..Cardinality(Device)} : IsInjective(s)}}

\* App::new, over whatever the server holds, and with or without it answering.
Init ==
  /\ banned \in SUBSET Device /\ filed \in 0..MaxReport /\ resolved \in SUBSET (1..filed)
  /\ mode = "Dashboard"
  /\ devices = <<>> /\ selected_device = 0 /\ device_detail = NoDevice
  /\ server_connected \in BOOLEAN
  /\ reports \in {<<>>} \cup IF server_connected THEN UnresolvedReports ELSE {}
  /\ selected_report = 0
  /\ refreshing = FALSE
  /\ aimed_device = NoDevice /\ aimed_report = NoReport

Waiting(screen) == mode = screen /\ ~refreshing
Selected(i, list) == i # 0 /\ i <= Len(list)

\* ban or unban; a request that timed out may have been served.
Toggled(entry) ==
  banned' \in {banned, IF entry.banned THEN banned \ {entry.pk} ELSE banned \cup {entry.pk}}
------------------------------------------------------------------------------
(* The server, as others use it. *)

FileReport ==
  /\ filed < MaxReport
  /\ filed' = filed + 1
  /\ UNCHANGED <<banned, resolved, mode, search, listing, refreshing>>

OthersAct ==
  /\ \/ \E d \in Device : banned' \in {banned \cup {d}, banned \ {d}} /\ UNCHANGED resolved
     \/ \E r \in 1..filed : resolved' = resolved \cup {r} /\ UNCHANGED banned
  /\ UNCHANGED <<filed, mode, search, listing, refreshing>>
------------------------------------------------------------------------------
(* refresh: every 5 s, on r, and after the calls that change something. *)

StartRefresh ==
  /\ mode # "ended" /\ ~refreshing
  /\ refreshing' = TRUE
  /\ UNCHANGED <<server, mode, search, listing>>

\* Mutant: the cursor stays where it was.
RefreshKeepsCursor ==
  /\ refreshing
  /\ server_connected' \in BOOLEAN
  /\ reports' \in {reports} \cup IF server_connected' THEN UnresolvedReports ELSE {}
  /\ refreshing' = FALSE
  /\ UNCHANGED <<server, mode, search, selected_report, aimed_report>>

\* Mutant: the cursor stays where it was, if there still is such a row.
RefreshClipsCursor ==
  /\ refreshing
  /\ server_connected' \in BOOLEAN
  /\ reports' \in {reports} \cup IF server_connected' THEN UnresolvedReports ELSE {}
  /\ selected_report' = IF selected_report \in DOMAIN reports' THEN selected_report ELSE 0
  /\ refreshing' = FALSE
  /\ UNCHANGED <<server, mode, search, aimed_report>>

\* Each of the calls may fail; without statistics the others are not made.
Refresh ==
  /\ refreshing
  /\ server_connected' \in BOOLEAN
  /\ reports' \in {reports} \cup IF server_connected' THEN UnresolvedReports ELSE {}
  /\ selected_report' = 0
  /\ refreshing' = FALSE
  /\ UNCHANGED <<server, mode, search, aimed_report>>
------------------------------------------------------------------------------
(* The keys of the dashboard. *)

Quit ==
  /\ Waiting("Dashboard")
  /\ mode' = "ended"
  /\ UNCHANGED <<server, search, listing, refreshing>>

\* Key 1.
OpenSearch ==
  /\ Waiting("Dashboard")
  /\ mode' = "SearchUser"
  /\ devices' = <<>> /\ selected_device' = 0
  /\ UNCHANGED <<server, device_detail, aimed_device, listing, refreshing>>

\* Tab: the cursor keeps its position in a list that is gone.
TabToSearch ==
  /\ Waiting("Dashboard")
  /\ mode' = "SearchUser"
  /\ devices' = <<>>
  /\ UNCHANGED <<server, selected_device, device_detail, aimed_device, listing, refreshing>>

\* Key 2: what the last search said decides between ban and unban.
BanSelected ==
  /\ Waiting("Dashboard")
  /\ Selected(selected_device, devices)
  /\ Toggled(devices[selected_device])
  /\ refreshing' = TRUE
  /\ UNCHANGED <<filed, resolved, mode, search, listing>>

\* Key 3: refreshed only when the answer came.
RotateKey ==
  /\ Waiting("Dashboard")
  /\ server_connected
  /\ refreshing' \in BOOLEAN
  /\ UNCHANGED <<server, mode, search, listing>>

\* Key 5.
ResolveSelected ==
  /\ Waiting("Dashboard")
  /\ Selected(selected_report, reports)
  /\ resolved' \in {resolved, resolved \cup {reports[selected_report]}}
  /\ refreshing' = TRUE
  /\ UNCHANGED <<banned, filed, mode, search, listing>>

\* Up and Down: a step within the list, or onto its first row.
Steps(i, list) ==
  IF i = 0 THEN {1} \cap DOMAIN list ELSE {i - 1, i + 1} \cap DOMAIN list

SelectReport ==
  /\ Waiting("Dashboard")
  /\ \E i \in Steps(selected_report, reports) :
       selected_report' = i /\ aimed_report' = reports[i]
  /\ UNCHANGED <<server, mode, search, reports, server_connected, refreshing>>
------------------------------------------------------------------------------
(* The keys of the search and of the detail view. *)

LeaveSearch ==
  /\ Waiting("SearchUser")
  /\ mode' = "Dashboard"
  /\ UNCHANGED <<server, search, listing, refreshing>>

\* Mutant: a new result does not clear the cursor.
SearchKeepsCursor ==
  /\ Waiting("SearchUser")
  /\ devices = <<>>
  /\ devices' \in SearchResults
  /\ UNCHANGED <<server, mode, selected_device, device_detail, aimed_device, listing,
                 refreshing>>

\* Enter on an empty list; a failed search leaves it empty.
Search ==
  /\ Waiting("SearchUser")
  /\ devices = <<>>
  /\ devices' \in SearchResults
  /\ selected_device' = 0
  /\ UNCHANGED <<server, mode, device_detail, aimed_device, listing, refreshing>>

\* Up and Down; a position beyond an emptied list can only go up.
SelectDevice ==
  /\ Waiting("SearchUser")
  /\ \/ \E i \in Steps(selected_device, devices) :
          selected_device' = i /\ aimed_device' = devices[i].pk
     \/ /\ selected_device > Len(devices) + 1
        /\ selected_device' = selected_device - 1
        /\ UNCHANGED aimed_device
  /\ UNCHANGED <<server, mode, devices, device_detail, listing, refreshing>>

\* Enter on a selected device.
OpenDetail ==
  /\ Waiting("SearchUser")
  /\ Selected(selected_device, devices)
  /\ device_detail' = devices[selected_device]
  /\ mode' = "UserDetail"
  /\ UNCHANGED <<server, devices, selected_device, aimed_device, listing, refreshing>>

\* b: refresh fetches no devices, and the entry shown is that of the last search again.
BanDetail ==
  /\ Waiting("UserDetail")
  /\ Toggled(device_detail)
  /\ refreshing' = TRUE
  /\ device_detail' = IF Selected(selected_device, devices) THEN devices[selected_device]
                                                             ELSE device_detail
  /\ UNCHANGED <<filed, resolved, mode, devices, selected_device, aimed_device, listing>>

LeaveDetail ==
  /\ Waiting("UserDetail")
  /\ mode' = "SearchUser"
  /\ device_detail' = NoDevice
  /\ UNCHANGED <<server, devices, selected_device, aimed_device, listing, refreshing>>
------------------------------------------------------------------------------
Next ==
  \/ FileReport \/ OthersAct
  \/ StartRefresh \/ Refresh
  \/ Quit \/ OpenSearch \/ TabToSearch \/ BanSelected \/ RotateKey \/ ResolveSelected
  \/ SelectReport
  \/ LeaveSearch \/ Search \/ SelectDevice \/ OpenDetail \/ BanDetail \/ LeaveDetail

Spec == Init /\ [][Next]_vars
------------------------------------------------------------------------------
(* Properties. *)

\* Key 5 resolves the report that the operator selected, although the list is replaced
\* every 5 s under the cursor.
ReportUnderCursor ==
  selected_report # 0 =>
    selected_report \in DOMAIN reports /\ reports[selected_report] = aimed_report

\* Keys 2 and b hit the device that the operator selected, whatever was searched for
\* in between and by whichever key the search was opened.
DeviceUnderCursor ==
  /\ Selected(selected_device, devices) => devices[selected_device].pk = aimed_device
  /\ mode = "UserDetail" => device_detail.pk = aimed_device
==============================================================================
