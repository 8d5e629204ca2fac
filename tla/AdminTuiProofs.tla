---------------------------- MODULE AdminTuiProofs ----------------------------
(***************************************************************************)
(* Proofs about AdminTui: whatever other admins and clients do, and        *)
(* whenever the lists are fetched again, the keys of the terminal hit the  *)
(* report and the device that the operator put the cursor on.              *)
(***************************************************************************)
EXTENDS AdminTui, FiniteSetTheorems, SequenceTheorems, TLAPS

\* A step of the cursor stays within the list.
LEMMA StepsAreRows ==
  ASSUME NEW i, NEW list
  PROVE  Steps(i, list) \subseteq DOMAIN list
BY DEF Steps

------------------------------------------------------------------------------
(* What the calls return. *)

\* The call for the reports returns reports.
LEMMA ReportsAreFiled ==
  ASSUME NEW n \in Nat, filed = n, NEW r \in UnresolvedReports
  PROVE  r \in Seq(1..filed)
<1> DEFINE open == 1..filed \ resolved
           rows == IF Cardinality(open) < ReportLimit THEN Cardinality(open) ELSE ReportLimit
<1>1. r \in [1..rows -> open]
  BY DEF UnresolvedReports, Injection
<1>2. rows \in Nat
  <2>1. IsFiniteSet(1..filed)
    BY FS_Interval
  <2>2. IsFiniteSet(open)
    BY <2>1, FS_Subset
  <2> QED
    BY <2>2, FS_CardinalityType, ReportAssumption
<1> HIDE DEF rows
<1>3. r \in [1..rows -> 1..filed]
  BY <1>1
<1> QED
  BY <1>2, <1>3, IsASeq

\* A search returns entries, at most one per device.
LEMMA ResultsAreRows ==
  ASSUME NEW r \in SearchResults
  PROVE  r \in Seq(Entry) /\ Len(r) \in 0..Cardinality(Device)
<1>1. PICK n \in 0..Cardinality(Device) : \E s \in [1..n -> Device] :
        r = [i \in DOMAIN s |-> [pk |-> s[i], banned |-> s[i] \in banned]]
  BY DEF SearchResults
<1>2. n \in Nat
  OBVIOUS
<1>3. r \in [1..n -> Entry]
  BY <1>1 DEF Entry
<1> QED
  BY <1>2, <1>3, IsASeq
------------------------------------------------------------------------------
(* Types. *)

\* Beside its type: the detail view shows an entry, and a search finds each device once.
TypeInv ==
  /\ TypeOK
  /\ mode = "UserDetail" => device_detail \in Entry
  /\ Len(devices) <= Cardinality(Device)

\* The numbers and lists that the steps below need.
LEMMA TypeFacts ==
  ASSUME TypeInv
  PROVE  /\ filed \in Nat /\ Cardinality(Device) \in Nat
         /\ Len(devices) \in Nat /\ DOMAIN devices = 1..Len(devices)
         /\ \A i \in 1..Len(devices) : devices[i] \in Entry
         /\ Len(reports) \in Nat /\ DOMAIN reports = 1..Len(reports)
         /\ \A i \in 1..Len(reports) : reports[i] \in 1..filed
<1>1. filed \in Nat /\ Cardinality(Device) \in Nat
  BY BoundAssumption, DeviceAssumption, FS_CardinalityType DEF TypeInv, TypeOK
<1>2. devices \in Seq(Entry) /\ reports \in Seq(1..filed)
  BY DEF TypeInv, TypeOK
<1> QED
  BY <1>1, <1>2, ElementOfSeq, LenProperties

LEMMA InitTypes == Init => TypeInv
<1> SUFFICES ASSUME Init PROVE TypeInv
  OBVIOUS
<1>1. filed \in Nat /\ Cardinality(Device) \in Nat
  BY BoundAssumption, DeviceAssumption, FS_CardinalityType DEF Init
<1>2. UnresolvedReports \subseteq Seq(1..filed)
  BY <1>1, ReportsAreFiled
<1>3. reports \in Seq(1..filed)
  BY <1>2, EmptySeq DEF Init
<1>4. selected_report \in 0..Len(reports)
  BY <1>3, LenProperties DEF Init
<1>5. devices \in Seq(Entry) /\ Len(devices) = 0 /\ selected_device = 0
  BY EmptySeq DEF Init
<1>6. banned \subseteq Device /\ filed \in 0..MaxReport /\ resolved \subseteq 1..filed
  BY DEF Init
<1>7. /\ mode = "Dashboard" /\ device_detail = NoDevice
      /\ server_connected \in BOOLEAN /\ refreshing \in BOOLEAN
      /\ aimed_device = NoDevice /\ aimed_report = NoReport
  BY DEF Init
<1> QED
  BY <1>1, <1>3, <1>4, <1>5, <1>6, <1>7 DEF TypeInv, TypeOK

\* The terminal and the server keep their types, whatever the calls do.
LEMMA TypeStep ==
  ASSUME TypeInv, [Next]_vars
  PROVE  TypeInv'
<1> USE TypeFacts
<1>1. CASE FileReport
  <2>1. filed' = filed + 1 /\ filed' \in 0..MaxReport /\ 1..filed \subseteq 1..filed'
    BY <1>1, BoundAssumption DEF FileReport
  <2>2. reports \in Seq(1..filed')
    BY <2>1 DEF TypeInv, TypeOK
  <2> QED
    BY <1>1, <2>1, <2>2 DEF FileReport, search, listing, TypeInv, TypeOK
<1>2. CASE OthersAct
  BY <1>2 DEF OthersAct, search, listing, TypeInv, TypeOK
<1>3. CASE StartRefresh \/ RotateKey \/ Quit \/ LeaveSearch
  BY <1>3 DEF StartRefresh, RotateKey, Quit, LeaveSearch, Waiting, server, search, listing,
    TypeInv, TypeOK
<1>4. CASE Refresh
  <2>1. reports' \in Seq(1..filed)
    BY <1>4, ReportsAreFiled DEF Refresh, TypeInv, TypeOK
  <2>2. 0 \in 0..Len(reports')
    BY <2>1, LenProperties
  <2>3. selected_report' = 0 /\ server_connected' \in BOOLEAN /\ refreshing' = FALSE
        /\ UNCHANGED <<server, mode, search, aimed_report>>
    BY <1>4 DEF Refresh
  <2> QED
    BY <2>1, <2>2, <2>3 DEF server, search, TypeInv, TypeOK
<1>5. CASE OpenSearch \/ TabToSearch
  <2>1. devices' = <<>> /\ selected_device' \in {0, selected_device} /\ mode' = "SearchUser"
    BY <1>5 DEF OpenSearch, TabToSearch
  <2>2. devices' \in Seq(Entry) /\ Len(devices') <= Cardinality(Device)
    BY <2>1, EmptySeq
  <2>3. UNCHANGED <<server, device_detail, aimed_device, listing, refreshing>>
    BY <1>5 DEF OpenSearch, TabToSearch
  <2>4. selected_device' \in 0..Cardinality(Device)
    BY <2>1 DEF TypeInv, TypeOK
  <2> QED
    BY <2>1, <2>2, <2>3, <2>4 DEF server, listing, TypeInv, TypeOK
<1>6. CASE BanSelected
  <2>1. devices[selected_device] \in Entry
    BY <1>6 DEF BanSelected, Selected, TypeInv, TypeOK
  <2>2. banned' \subseteq Device
    BY <1>6, <2>1 DEF BanSelected, Toggled, Entry, TypeInv, TypeOK
  <2> QED
    BY <1>6, <2>2 DEF BanSelected, search, listing, TypeInv, TypeOK
<1>7. CASE ResolveSelected
  <2>1. reports[selected_report] \in 1..filed
    BY <1>7 DEF ResolveSelected, Selected, TypeInv, TypeOK
  <2> QED
    BY <1>7, <2>1 DEF ResolveSelected, search, listing, TypeInv, TypeOK
<1>8. CASE SelectReport
  <2>1. PICK i \in 1..Len(reports) : selected_report' = i /\ aimed_report' = reports[i]
    BY <1>8, StepsAreRows DEF SelectReport
  <2> QED
    BY <1>8, <2>1 DEF SelectReport, server, search, TypeInv, TypeOK
<1>9. CASE Search
  <2>1. devices' \in Seq(Entry) /\ Len(devices') <= Cardinality(Device)
    BY <1>9, ResultsAreRows DEF Search
  <2> QED
    BY <1>9, <2>1 DEF Search, Waiting, server, listing, TypeInv, TypeOK
<1>10. CASE SelectDevice
  <2>1. selected_device' \in 0..Cardinality(Device) /\ aimed_device' \in Device \cup {NoDevice}
    <3>1. CASE \E i \in Steps(selected_device, devices) :
                 selected_device' = i /\ aimed_device' = devices[i].pk
      <4>1. PICK i \in 1..Len(devices) : selected_device' = i /\ aimed_device' = devices[i].pk
        BY <3>1, StepsAreRows
      <4> QED
        BY <4>1 DEF Entry, TypeInv
    <3>2. CASE /\ selected_device > Len(devices) + 1
               /\ selected_device' = selected_device - 1
               /\ UNCHANGED aimed_device
      BY <3>2 DEF TypeInv, TypeOK
    <3> QED
      BY <1>10, <3>1, <3>2 DEF SelectDevice
  <2> QED
    BY <1>10, <2>1 DEF SelectDevice, Waiting, server, listing, TypeInv, TypeOK
<1>11. CASE OpenDetail
  <2>1. devices[selected_device] \in Entry
    BY <1>11 DEF OpenDetail, Selected, TypeInv, TypeOK
  <2> QED
    BY <1>11, <2>1 DEF OpenDetail, server, listing, TypeInv, TypeOK
<1>12. CASE BanDetail
  <2>1. device_detail \in Entry
    BY <1>12 DEF BanDetail, Waiting, TypeInv
  <2>2. banned' \subseteq Device
    BY <1>12, <2>1 DEF BanDetail, Toggled, Entry, TypeInv, TypeOK
  <2>3. device_detail' \in Entry
    BY <1>12, <2>1 DEF BanDetail, Selected, TypeInv, TypeOK
  <2> QED
    BY <1>12, <2>2, <2>3 DEF BanDetail, listing, TypeInv, TypeOK
<1>13. CASE LeaveDetail
  BY <1>13 DEF LeaveDetail, server, listing, TypeInv, TypeOK
<1>14. CASE UNCHANGED vars
  BY <1>14 DEF vars, server, search, listing, TypeInv, TypeOK
<1> QED
  BY <1>1, <1>2, <1>3, <1>4, <1>5, <1>6, <1>7, <1>8, <1>9, <1>10, <1>11, <1>12, <1>13, <1>14
  DEF Next

\* Type correctness of AdminTui: for any devices and however often the lists are
\* fetched again, the report cursor is a position in the list shown, and what the
\* terminal shows and aims at are reports that were filed and devices.
THEOREM TypeCorrect == Spec => []TypeOK
<1>1. TypeInv => TypeOK
  BY DEF TypeInv
<1> QED
  BY InitTypes, TypeStep, <1>1, PTL DEF Spec
------------------------------------------------------------------------------
(* The cursors. *)

\* Whatever is fetched and whichever key is pressed, the cursor on the reports is on the
\* report that it was put on.
LEMMA ReportStep ==
  ASSUME ReportUnderCursor, [Next]_vars
  PROVE  ReportUnderCursor'
<1>1. CASE UNCHANGED listing
  BY <1>1 DEF listing, ReportUnderCursor
<1>2. CASE Refresh
  BY <1>2 DEF Refresh, ReportUnderCursor
<1>3. CASE SelectReport
  <2>1. PICK i \in Steps(selected_report, reports) :
          selected_report' = i /\ aimed_report' = reports[i]
    BY <1>3 DEF SelectReport
  <2> QED
    BY <1>3, <2>1, StepsAreRows DEF SelectReport, ReportUnderCursor
<1> QED
  BY <1>1, <1>2, <1>3 DEF Next, vars, FileReport, OthersAct, StartRefresh, Quit, OpenSearch,
    TabToSearch, BanSelected, RotateKey, ResolveSelected, LeaveSearch, Search, SelectDevice,
    OpenDetail, BanDetail, LeaveDetail

\* Whatever is searched for and by whichever key, the cursor on the devices is on the
\* device that it was put on, and so is the detail view.
LEMMA DeviceStep ==
  ASSUME DeviceUnderCursor, TypeInv, [Next]_vars
  PROVE  DeviceUnderCursor'
<1>1. Len(devices) \in Nat /\ DOMAIN devices = 1..Len(devices) /\ selected_device \in Nat
  BY TypeFacts DEF TypeInv, TypeOK
<1>2. CASE UNCHANGED <<search, mode>>
  BY <1>2 DEF search, DeviceUnderCursor, Selected
<1>3. CASE Quit \/ LeaveSearch
  BY <1>3 DEF Quit, LeaveSearch, search, DeviceUnderCursor, Selected
<1>4. CASE OpenSearch \/ TabToSearch
  <2>1. devices' = <<>> /\ mode' = "SearchUser"
    BY <1>4 DEF OpenSearch, TabToSearch
  <2>2. selected_device' = 0 \/ selected_device' = selected_device
    BY <1>4 DEF OpenSearch, TabToSearch
  <2>3. ~Selected(selected_device, devices)'
    BY <2>1, <2>2, <1>1 DEF Selected
  <2> QED
    BY <2>1, <2>3 DEF DeviceUnderCursor
<1>5. CASE Search
  BY <1>5 DEF Search, Waiting, DeviceUnderCursor, Selected
<1>6. CASE SelectDevice
  <2>1. mode' = "SearchUser" /\ devices' = devices
    BY <1>6 DEF SelectDevice, Waiting
  <2>2. CASE \E i \in Steps(selected_device, devices) :
                selected_device' = i /\ aimed_device' = devices[i].pk
    BY <2>1, <2>2 DEF DeviceUnderCursor
  <2>3. CASE selected_device > Len(devices) + 1 /\ selected_device' = selected_device - 1
    <3>1. ~Selected(selected_device, devices)'
      BY <2>1, <2>3, <1>1 DEF Selected
    <3> QED
      BY <2>1, <3>1 DEF DeviceUnderCursor
  <2> QED
    BY <1>6, <2>2, <2>3 DEF SelectDevice
<1>7. CASE OpenDetail
  BY <1>7 DEF OpenDetail, DeviceUnderCursor, Selected
<1>8. CASE BanDetail
  BY <1>8 DEF BanDetail, Waiting, DeviceUnderCursor, Selected
<1>9. CASE LeaveDetail
  BY <1>9 DEF LeaveDetail, DeviceUnderCursor, Selected
<1> QED
  BY <1>2, <1>3, <1>4, <1>5, <1>6, <1>7, <1>8, <1>9 DEF Next, vars, FileReport, OthersAct,
    StartRefresh, Refresh, BanSelected, RotateKey, ResolveSelected, SelectReport

\* Key 5 resolves the report that the operator selected, for any number of reports, of
\* admins and of refreshes under the cursor.
THEOREM ReportAlwaysUnderCursor == Spec => []ReportUnderCursor
<1>1. Init => ReportUnderCursor
  BY DEF Init, ReportUnderCursor
<1> QED
  BY <1>1, ReportStep, PTL DEF Spec

\* Keys 2 and b ban or unban the device that the operator selected, for any set of
\* devices and any sequence of keys and of searches.
THEOREM DeviceAlwaysUnderCursor == Spec => []DeviceUnderCursor
<1>1. Init => TypeInv /\ DeviceUnderCursor
  BY InitTypes DEF Init, DeviceUnderCursor, Selected
<1>2. TypeInv /\ DeviceUnderCursor /\ [Next]_vars => (TypeInv /\ DeviceUnderCursor)'
  BY TypeStep, DeviceStep
<1> QED
  BY <1>1, <1>2, PTL DEF Spec
==============================================================================
