--------------------------- MODULE CommunityProofs ---------------------------
(* Theorems about Community, for any devices, any number of tasks, any bounds. *)
EXTENDS Community, FiniteSetTheorems, TLAPS

Rotating == {"list_devices", "rewrap_device", "select_community",
             "update_community", "insert_community"}

\* What the local variables of a task are worth at each statement.
Locals(t) ==
  /\ pc[t] \in Registering => dev[t] \in Device
  /\ pc[t] \in {"select_device", "update_device", "insert_device"} =>
       dev[t] \in Point /\ key[t] \in installed
  /\ pc[t] \in {"update_device", "increment"} => dev[t] \in devices
  /\ pc[t] \in Rotating => key[t] # 0
  /\ pc[t] = "insert_community" => listed[t] = {}

\* The community row exists exactly when a key was installed, and precedes every device.
KeyFirst ==
  /\ group_key = 0 => installed = {} /\ devices = {} /\ member_count = 0
  /\ group_key # 0 => group_key \in installed

Inv ==
  /\ TypeOK
  /\ \A t \in Task : Locals(t)
  /\ KeyFirst
  /\ EveryDeviceCanBeRewrapped

\* Empty tables satisfy Inv.
LEMMA InvInit == Init => Inv
BY DeviceAssumption, BoundAssumption, FS_EmptySet
DEF Init, Inv, TypeOK, Locals, KeyFirst, EveryDeviceCanBeRewrapped, Statement, Write,
    Registering, Rotating, Outcome

\* A new request only fills the local variables of its task.
LEMMA RequestInv ==
  ASSUME Inv, NEW t \in Task, Request(t)
  PROVE  Inv'
<1> USE DeviceAssumption
        DEF Inv, TypeOK, Locals, KeyFirst, EveryDeviceCanBeRewrapped, Statement, Write,
            Registering, Rotating, Outcome, Goto, tables, locals
<1>1. ASSUME NEW d \in Device, NEW trusted \in BOOLEAN, Register(t, d, trusted)
      PROVE  Inv'
  BY <1>1 DEF Register
<1>2. ASSUME NEW d \in Device, EnsureRegistered(t, d)
      PROVE  Inv'
  BY <1>2 DEF EnsureRegistered
<1>3. CASE RotateGroupKey(t)
  BY <1>3, BoundAssumption DEF RotateGroupKey
<1>4. QED
  BY <1>1, <1>2, <1>3 DEF Request

\* The statements of register_device keep Inv.
LEMMA RegisterStepInv ==
  ASSUME Inv, NEW t \in Task, RegisterStep(t)
  PROVE  Inv'
<1> USE DeviceAssumption
        DEF Inv, TypeOK, Locals, KeyFirst, EveryDeviceCanBeRewrapped, Statement, Write,
            Registering, Rotating, Outcome, Goto, tables, locals
<1>1. CASE SelectExisting(t)
  BY <1>1 DEF SelectExisting
<1>2. CASE CheckBanned(t)
  BY <1>2 DEF CheckBanned, BannedAnswer
<1>3. CASE GetGroupKey(t)
  BY <1>3 DEF GetGroupKey, AfterGroupKey
<1>4. CASE SelectDevice(t)
  BY <1>4 DEF SelectDevice
<1>5. CASE UpdateDevice(t)
  BY <1>5 DEF UpdateDevice, DeviceUpdated
<1>6. CASE InsertDevice(t)
  <2>1. IsFiniteSet(devices')
    BY <1>6, FS_AddElement DEF InsertDevice, DeviceInserted
  <2>2. QED
    BY <1>6, <2>1 DEF InsertDevice, DeviceInserted
<1>7. CASE InsertDeviceConflict(t)
  BY <1>7 DEF InsertDeviceConflict
<1>8. CASE IncrementMemberCount(t)
  BY <1>8 DEF IncrementMemberCount, CountIncremented
<1>9. QED
  BY <1>1, <1>2, <1>3, <1>4, <1>5, <1>6, <1>7, <1>8 DEF RegisterStep

\* Installing a key, whether the rotation then hears "ok" or an error.
LEMMA InstallInv ==
  ASSUME Inv, NEW t \in Task, NEW label \in Outcome,
         \/ pc[t] = "update_community" /\ CommunityUpdated(t)
         \/ pc[t] = "insert_community" /\ CommunityInserted(t),
         Goto(t, label), UNCHANGED <<keys, dev, key, listed>>, faults' \in 0..MaxFaults
  PROVE  Inv'
<1> USE DEF Goto
<1>1. key[t] \in 1..keys
  BY DEF Inv, TypeOK, Locals, Rotating
<1>2. /\ UNCHANGED <<devices, banned_at, encrypted_sk_comm, todo>>
      /\ group_key' = key[t]
      /\ installed' = installed \cup {key[t]}
  BY DEF CommunityUpdated, CommunityInserted
<1>3. member_count' \in Nat
  <2>1. Cardinality(listed[t]) = 0 \/ member_count' = member_count
    BY FS_EmptySet DEF CommunityUpdated, CommunityInserted, Inv, Locals
  <2>2. QED
    BY <2>1 DEF CommunityUpdated, CommunityInserted, Inv, TypeOK
<1>4. TypeOK'
  BY <1>1, <1>2, <1>3 DEF Inv, TypeOK, Outcome
<1>5. ASSUME NEW u \in Task
      PROVE  Locals(u)'
  BY <1>2 DEF Inv, TypeOK, Locals, Outcome, Registering, Rotating
<1>6. KeyFirst'
  BY <1>1, <1>2 DEF KeyFirst, Inv, TypeOK
<1>7. QED
  BY <1>2, <1>4, <1>5, <1>6 DEF Inv, EveryDeviceCanBeRewrapped

\* The statements of rotate_group_key_inner keep Inv.
LEMMA RotateStepInv ==
  ASSUME Inv, NEW t \in Task, RotateStep(t)
  PROVE  Inv'
<1> USE DeviceAssumption
        DEF Inv, TypeOK, Locals, KeyFirst, EveryDeviceCanBeRewrapped, Statement, Write,
            Registering, Rotating, Outcome, Goto, tables, locals
<1>1. CASE ListDevices(t)
  BY <1>1 DEF ListDevices
<1>2. ASSUME NEW d \in Device, RewrapDevice(t, d)
      PROVE  Inv'
  <2>1. CASE d \in Point
    <3>1. TypeOK'
      <4>1. todo' \in [Task -> SUBSET devices]
        BY <1>2, <2>1 DEF RewrapDevice, DeviceRewrapped
      <4>2. encrypted_sk_comm' \in [Device -> 0..keys]
        BY <1>2, <2>1 DEF RewrapDevice, DeviceRewrapped
      <4>3. pc' \in [Task -> {"idle"} \cup Statement \cup Outcome]
        BY <1>2, <2>1 DEF RewrapDevice
      <4>4. QED
        BY <1>2, <2>1, <4>1, <4>2, <4>3 DEF RewrapDevice, DeviceRewrapped
    <3>2. ASSUME NEW u \in Task
          PROVE  Locals(u)'
      BY <1>2, <2>1 DEF RewrapDevice, DeviceRewrapped
    <3>3. QED
      BY <1>2, <2>1, <3>1, <3>2 DEF RewrapDevice, DeviceRewrapped
  <2>2. CASE d \notin Point
    BY <1>2, <2>2 DEF RewrapDevice
  <2>3. QED
    BY <2>1, <2>2
<1>3. CASE SelectCommunity(t)
  BY <1>3 DEF SelectCommunity
<1>4. CASE UpdateCommunity(t)
  BY <1>4, InstallInv DEF UpdateCommunity
<1>5. CASE InsertCommunity(t)
  BY <1>5, InstallInv DEF InsertCommunity
<1>6. CASE InsertCommunityConflict(t)
  BY <1>6 DEF InsertCommunityConflict
<1>7. QED
  BY <1>1, <1>2, <1>3, <1>4, <1>5, <1>6 DEF RotateStep

\* A failed statement, a lost answer or a dropped task keeps Inv.
LEMMA FaultInv ==
  ASSUME Inv, NEW t \in Task, Fault(t)
  PROVE  Inv'
<1> USE DeviceAssumption, BoundAssumption
        DEF Inv, TypeOK, Locals, KeyFirst, EveryDeviceCanBeRewrapped, Statement, Write,
            Registering, Rotating, Outcome, Goto, tables, locals
<1>1. CASE Fail(t)
  BY <1>1 DEF Fail
<1>2. CASE LoseAnswer(t)
  <2>1. CASE pc[t] = "update_device" /\ DeviceUpdated(t)
    BY <1>2, <2>1 DEF LoseAnswer, DeviceUpdated
  <2>2. CASE pc[t] = "insert_device" /\ DeviceInserted(t)
    <3>1. IsFiniteSet(devices')
      BY <2>2, FS_AddElement DEF DeviceInserted
    <3>2. QED
      BY <1>2, <2>2, <3>1 DEF LoseAnswer, DeviceInserted
  <2>3. CASE pc[t] = "increment" /\ CountIncremented
    BY <1>2, <2>3 DEF LoseAnswer, CountIncremented
  <2>4. ASSUME NEW d \in todo[t], DeviceRewrapped(t, d)
        PROVE  Inv'
    BY <1>2, <2>4 DEF LoseAnswer, DeviceRewrapped
  <2>5. CASE \/ pc[t] = "update_community" /\ CommunityUpdated(t)
             \/ pc[t] = "insert_community" /\ CommunityInserted(t)
    <3>1. "error" \in Outcome
      BY DEF Outcome
    <3>2. Goto(t, "error") /\ UNCHANGED <<keys, dev, key, listed>> /\ faults' \in 0..MaxFaults
      BY <1>2 DEF LoseAnswer
    <3>3. QED
      BY <2>5, <3>1, <3>2, InstallInv
  <2>6. QED
    BY <1>2, <2>1, <2>2, <2>3, <2>4, <2>5 DEF LoseAnswer
<1>3. CASE Cancel(t)
  BY <1>3 DEF Cancel, Leave
<1>4. QED
  BY <1>1, <1>2, <1>3 DEF Fault

\* Every step keeps Inv.
LEMMA InvStep == Inv /\ [Next]_vars => Inv'
<1> SUFFICES ASSUME Inv, [Next]_vars PROVE Inv'
  OBVIOUS
<1>1. ASSUME NEW t \in Task, Reply(t)
      PROVE  Inv'
  BY <1>1
  DEF Reply, Leave, Inv, TypeOK, Locals, KeyFirst, EveryDeviceCanBeRewrapped, Statement,
      Write, Registering, Rotating, Outcome, Goto, tables
<1>2. ASSUME NEW d \in Device, NEW banned \in BOOLEAN, SetBanned(d, banned)
      PROVE  Inv'
  BY <1>2
  DEF SetBanned, Inv, TypeOK, Locals, KeyFirst, EveryDeviceCanBeRewrapped, locals
<1>3. CASE UNCHANGED vars
  BY <1>3
  DEF vars, tables, locals, Inv, TypeOK, Locals, KeyFirst, EveryDeviceCanBeRewrapped
<1>4. QED
  BY <1>1, <1>2, <1>3, RequestInv, RegisterStepInv, RotateStepInv, FaultInv DEF Next, Serve

\* Inv holds throughout: what each task holds between two statements of
\* register_device or rotate_group_key_inner fits the tables.
THEOREM InvAlways == Spec => []Inv
BY InvInit, InvStep, PTL DEF Spec

\* Type correctness of Community: the tables, what tasks hold, the bounds.
THEOREM TypeCorrect == Spec => []TypeOK
BY InvAlways, PTL DEF Inv

\* No key that ecies_encrypt refuses ever enters the devices table.
THEOREM DevicesStayRewrappable == Spec => []EveryDeviceCanBeRewrapped
BY InvAlways, PTL DEF Inv

\* RegistrationNeedsKey follows: a row being counted is in the table.
THEOREM NoRegistrationBeforeKey == Spec => []RegistrationNeedsKey
<1>1. Inv => RegistrationNeedsKey
  BY DEF Inv, Locals, KeyFirst, RegistrationNeedsKey, Pending
<1>2. QED
  BY <1>1, InvAlways, PTL
------------------------------------------------------------------------------
(* The member count. *)

\* What a step of task t does to the number of rows not yet counted.
LEMMA PendingStep ==
  ASSUME Inv, NEW t \in Task, NEW label, Goto(t, label)
  PROVE  /\ Cardinality(Pending) \in Nat
         /\ (pc[t] = "increment") = (label = "increment") =>
              Cardinality(Pending') = Cardinality(Pending)
         /\ pc[t] # "increment" /\ label = "increment" =>
              Cardinality(Pending') = Cardinality(Pending) + 1
         /\ pc[t] = "increment" /\ label # "increment" =>
              Cardinality(Pending') = Cardinality(Pending) - 1
<1>1. IsFiniteSet(Pending) /\ Cardinality(Pending) \in Nat
  BY TaskAssumption, FS_Subset, FS_CardinalityType DEF Pending
<1>2. Pending' = IF label = "increment" THEN Pending \cup {t} ELSE Pending \ {t}
  BY DEF Pending, Goto, Inv, TypeOK
<1>3. t \in Pending <=> pc[t] = "increment"
  BY DEF Pending
<1>4. QED
  BY <1>1, <1>2, <1>3, FS_AddElement, FS_RemoveElement

\* A step that neither counts nor owes a count keeps MemberCount.
LEMMA SameCount ==
  ASSUME Inv, MemberCount, NEW t \in Task, NEW label, Goto(t, label),
         pc[t] # "increment", label # "increment",
         UNCHANGED <<devices, member_count, faults>>
  PROVE  MemberCount'
BY PendingStep DEF MemberCount

\* Registrations keep MemberCount: InsertDevice owes the count that
\* IncrementMemberCount pays.
LEMMA RegisterStepCount ==
  ASSUME Inv, MemberCount, NEW t \in Task, RegisterStep(t)
  PROVE  MemberCount'
<1> DEFINE Quiet(label) ==
      Goto(t, label) /\ label # "increment" /\ pc[t] # "increment"
      /\ UNCHANGED <<devices, member_count, faults>>
<1>1. ASSUME NEW label, Quiet(label)
      PROVE  MemberCount'
  BY <1>1, SameCount
<1> HIDE DEF Quiet
<1>2. CASE SelectExisting(t)
  BY <1>1, <1>2 DEF SelectExisting, Quiet, tables
<1>3. CASE CheckBanned(t)
  <2>1. PICK answer \in BannedAnswer(dev[t]) :
          Goto(t, CASE answer = "yes"   -> "refused"
                    [] answer = "no"    -> "get_group_key"
                    [] answer = "panic" -> "panicked")
    BY <1>3 DEF CheckBanned
  <2>2. answer \in {"no", "panic"}
    BY DEF BannedAnswer
  <2>3. QED
    BY <1>1, <1>3, <2>1, <2>2 DEF CheckBanned, Quiet, tables
<1>4. CASE GetGroupKey(t)
  BY <1>1, <1>4 DEF GetGroupKey, AfterGroupKey, Quiet, tables
<1>5. CASE SelectDevice(t)
  BY <1>1, <1>5 DEF SelectDevice, Quiet, tables
<1>6. CASE UpdateDevice(t)
  BY <1>1, <1>6 DEF UpdateDevice, DeviceUpdated, Quiet
<1>7. CASE InsertDevice(t)
  <2>1. Cardinality(devices') = Cardinality(devices) + 1 /\ Cardinality(devices) \in Nat
    BY <1>7, FS_AddElement, FS_CardinalityType DEF InsertDevice, DeviceInserted, Inv, TypeOK
  <2>2. Cardinality(Pending') = Cardinality(Pending) + 1 /\ Cardinality(Pending) \in Nat
    BY <1>7, PendingStep DEF InsertDevice
  <2>3. QED
    BY <1>7, <2>1, <2>2 DEF InsertDevice, DeviceInserted, MemberCount, Inv, TypeOK
<1>8. CASE InsertDeviceConflict(t)
  BY <1>1, <1>8 DEF InsertDeviceConflict, Quiet, tables
<1>9. CASE IncrementMemberCount(t)
  <2>1. Cardinality(Pending') = Cardinality(Pending) - 1 /\ Cardinality(Pending) \in Nat
    BY <1>9, PendingStep DEF IncrementMemberCount
  <2>2. QED
    BY <1>9, <2>1 DEF IncrementMemberCount, CountIncremented, MemberCount, Inv, TypeOK
<1>10. QED
  BY <1>2, <1>3, <1>4, <1>5, <1>6, <1>7, <1>8, <1>9 DEF RegisterStep

\* Rotations keep MemberCount: only the first one sets the count, before any device.
LEMMA RotateStepCount ==
  ASSUME Inv, MemberCount, NEW t \in Task, RotateStep(t)
  PROVE  MemberCount'
<1> DEFINE Quiet(label) ==
      Goto(t, label) /\ label # "increment" /\ pc[t] # "increment"
      /\ UNCHANGED <<devices, member_count, faults>>
<1>1. ASSUME NEW label, Quiet(label)
      PROVE  MemberCount'
  BY <1>1, SameCount
<1> HIDE DEF Quiet
<1>2. CASE ListDevices(t)
  BY <1>1, <1>2 DEF ListDevices, Quiet, tables
<1>3. ASSUME NEW d \in Device, RewrapDevice(t, d)
      PROVE  MemberCount'
  BY <1>1, <1>3 DEF RewrapDevice, DeviceRewrapped, Quiet, tables
<1>4. CASE SelectCommunity(t)
  BY <1>1, <1>4 DEF SelectCommunity, Quiet, tables
<1>5. CASE UpdateCommunity(t)
  BY <1>1, <1>5 DEF UpdateCommunity, CommunityUpdated, Quiet
<1>6. CASE InsertCommunity(t)
  <2>1. Cardinality(listed[t]) = 0 /\ member_count = 0
    BY <1>6, FS_EmptySet DEF InsertCommunity, CommunityInserted, Inv, Locals, KeyFirst
  <2>2. QED
    BY <1>1, <1>6, <2>1 DEF InsertCommunity, CommunityInserted, Quiet
<1>7. CASE InsertCommunityConflict(t)
  BY <1>1, <1>7 DEF InsertCommunityConflict, Quiet, tables
<1>8. QED
  BY <1>2, <1>3, <1>4, <1>5, <1>6, <1>7 DEF RotateStep

\* A fault may lose one increment, never add one.
LEMMA FaultCount ==
  ASSUME Inv, MemberCount, NEW t \in Task, Fault(t)
  PROVE  MemberCount'
<1>1. faults \in Nat /\ faults' = faults + 1
  BY BoundAssumption DEF Fault, Fail, LoseAnswer, Cancel, Inv, TypeOK
<1>2. PICK label : Goto(t, label) /\ label # "increment"
  BY DEF Fault, Fail, LoseAnswer, Cancel, Leave
<1>3. /\ Cardinality(Pending) \in Nat
      /\ pc[t] # "increment" => Cardinality(Pending') = Cardinality(Pending)
      /\ pc[t] = "increment" => Cardinality(Pending') = Cardinality(Pending) - 1
  BY <1>2, PendingStep
<1>4. /\ \/ devices' = devices
         \/ /\ pc[t] = "insert_device"
            /\ devices' = devices \cup {dev[t]} /\ dev[t] \notin devices
      /\ \/ member_count' = member_count
         \/ pc[t] = "increment" /\ member_count' = member_count + 1
  <2>1. CASE Fail(t)
    BY <2>1 DEF Fail, tables
  <2>2. CASE LoseAnswer(t)
    <3>1. CASE pc[t] = "insert_community" /\ CommunityInserted(t)
      BY <3>1, FS_EmptySet DEF CommunityInserted, Inv, Locals, KeyFirst
    <3>2. QED
      BY <2>2, <3>1
      DEF LoseAnswer, DeviceUpdated, DeviceInserted, CountIncremented, DeviceRewrapped,
          CommunityUpdated
  <2>3. CASE Cancel(t)
    BY <2>3 DEF Cancel, tables
  <2>4. QED
    BY <2>1, <2>2, <2>3 DEF Fault
<1>5. /\ Cardinality(devices) \in Nat
      /\ \/ Cardinality(devices') = Cardinality(devices)
         \/ Cardinality(devices') = Cardinality(devices) + 1 /\ pc[t] = "insert_device"
  <2>1. IsFiniteSet(devices) /\ Cardinality(devices) \in Nat
    BY FS_CardinalityType DEF Inv, TypeOK
  <2>2. CASE /\ pc[t] = "insert_device"
             /\ devices' = devices \cup {dev[t]} /\ dev[t] \notin devices
    BY <2>1, <2>2, FS_AddElement
  <2>3. QED
    BY <1>4, <2>1, <2>2
<1>6. QED
  BY <1>1, <1>3, <1>4, <1>5 DEF MemberCount, Inv, TypeOK

\* Every step keeps MemberCount.
LEMMA CountStep == Inv /\ MemberCount /\ [Next]_vars => MemberCount'
<1> SUFFICES ASSUME Inv, MemberCount, [Next]_vars PROVE MemberCount'
  OBVIOUS
<1>1. ASSUME NEW t \in Task, Request(t)
      PROVE  MemberCount'
  <2>1. /\ UNCHANGED <<devices, member_count, faults>>
        /\ pc[t] = "idle"
        /\ \E label : Goto(t, label) /\ label # "increment"
    BY <1>1 DEF Request, Register, EnsureRegistered, RotateGroupKey, tables
  <2>2. QED
    BY <2>1, SameCount
<1>2. ASSUME NEW t \in Task, Reply(t)
      PROVE  MemberCount'
  BY <1>2, SameCount DEF Reply, Leave, Outcome, tables
<1>3. ASSUME NEW d \in Device, NEW banned \in BOOLEAN, SetBanned(d, banned)
      PROVE  MemberCount'
  BY <1>3 DEF SetBanned, MemberCount, Pending
<1>4. CASE UNCHANGED vars
  BY <1>4 DEF vars, tables, MemberCount, Pending
<1>5. QED
  BY <1>1, <1>2, <1>3, <1>4, RegisterStepCount, RotateStepCount, FaultCount DEF Next, Serve

\* However registrations, rotations, bans and faults interleave, no device is
\* counted twice, and no more devices go uncounted than there were faults.
THEOREM MemberCountAlways == Spec => []MemberCount
<1>1. Init => MemberCount
  <2>1. ASSUME Init PROVE Pending = {}
    BY <2>1 DEF Init, Pending
  <2>2. QED
    BY <2>1, FS_EmptySet DEF Init, MemberCount
<1>2. QED
  BY <1>1, InvAlways, CountStep, PTL DEF Spec
------------------------------------------------------------------------------
(* The keys that stored wraps are of. *)

\* Key k was installed, or task u is on its way to install it.
Owner(u, k) ==
  pc[u] \in {"rewrap_device", "select_community", "update_community"} /\ key[u] = k
Owned(k) == k \in installed \/ \E u \in Task : Owner(u, k)

\* A step of t keeps a key owned if it installs keys only, and leaves t an owner
\* unless t's key is installed.
LEMMA OwnedStep ==
  ASSUME Inv, NEW t \in Task, NEW label, Goto(t, label), NEW k, Owned(k),
         installed \subseteq installed',
         \A u \in Task : u # t => key'[u] = key[u],
         Owner(t, k) => Owner(t, k)' \/ k \in installed'
  PROVE  Owned(k)'
<1>1. CASE k \in installed
  BY <1>1 DEF Owned
<1>2. ASSUME NEW u \in Task, Owner(u, k), u # t
      PROVE  Owner(u, k)'
  BY <1>2 DEF Owner, Goto, Inv, TypeOK
<1>3. QED
  BY <1>1, <1>2 DEF Owned

\* A key stays owned while installed, pc and key stay as they are.
LEMMA OwnedUnchanged ==
  ASSUME NEW k, Owned(k), UNCHANGED <<installed, pc, key>>
  PROVE  Owned(k)'
BY DEF Owned, Owner

\* A step without a fault makes no orphan: a wrap that is there after it and was not an
\* orphan before is owned.
LEMMA NoNewOrphan ==
  ASSUME Inv, [Next]_vars, ~ \E t \in Task : Fault(t),
         NEW d \in devices', NEW k, encrypted_sk_comm'[d] = k, k \notin OrphanKeys
  PROVE  Owned(k)'
<1>2. d \in devices /\ encrypted_sk_comm[d] = k => Owned(k)
  BY DEF OrphanKeys, Owned, Owner
<1>3. ASSUME NEW t \in Task, Request(t)
      PROVE  Owned(k)'
  <2>1. /\ \E label : Goto(t, label)
        /\ UNCHANGED <<devices, encrypted_sk_comm, installed>>
        /\ pc[t] = "idle"
        /\ \A u \in Task : u # t => key'[u] = key[u]
    BY <1>3 DEF Request, Register, EnsureRegistered, RotateGroupKey, tables, Inv, TypeOK
  <2>2. QED
    BY <1>2, <2>1, OwnedStep DEF Owner
<1>4. ASSUME NEW t \in Task, RegisterStep(t)
      PROVE  Owned(k)'
  <2>1. CASE encrypted_sk_comm'[d] = key[t] /\ (UpdateDevice(t) \/ InsertDevice(t))
    BY <2>1
    DEF UpdateDevice, InsertDevice, DeviceUpdated, DeviceInserted, Owned, Inv, Locals
  <2>2. /\ \E label : Goto(t, label)
        /\ installed' = installed
        /\ pc[t] \in Registering
        /\ \A u \in Task : u # t => key'[u] = key[u]
    BY <1>4
    DEF RegisterStep, SelectExisting, CheckBanned, GetGroupKey, AfterGroupKey, SelectDevice, UpdateDevice,
        InsertDevice, InsertDeviceConflict, IncrementMemberCount, DeviceUpdated,
        DeviceInserted, CountIncremented, Registering, tables, locals, Inv, TypeOK
  <2>3. CASE d \in devices /\ encrypted_sk_comm'[d] = encrypted_sk_comm[d]
    BY <1>2, <2>2, <2>3, OwnedStep DEF Owner, Registering
  <2>4. CASE UpdateDevice(t)
    <3>1. dev[t] \in Device
      BY <2>4 DEF UpdateDevice, Inv, Locals, Registering
    <3>2. QED
      BY <2>1, <2>3, <2>4, <3>1 DEF UpdateDevice, DeviceUpdated, Inv, TypeOK
  <2>5. CASE InsertDevice(t)
    <3>1. dev[t] \in Device
      BY <2>5 DEF InsertDevice, Inv, Locals, Registering
    <3>2. QED
      BY <2>1, <2>3, <2>5, <3>1 DEF InsertDevice, DeviceInserted, Inv, TypeOK
  <2>6. CASE ~UpdateDevice(t) /\ ~InsertDevice(t)
    BY <1>4, <2>3, <2>6
    DEF RegisterStep, SelectExisting, CheckBanned, GetGroupKey, AfterGroupKey, SelectDevice,
        InsertDeviceConflict, IncrementMemberCount, CountIncremented, tables
  <2>7. QED
    BY <2>4, <2>5, <2>6
<1>5. ASSUME NEW t \in Task, RotateStep(t)
      PROVE  Owned(k)'
  <2>1. CASE ListDevices(t)
    BY <1>2, <2>1, OwnedStep DEF ListDevices, Owner, tables
  <2>2. ASSUME NEW e \in Device, RewrapDevice(t, e)
        PROVE  Owned(k)'
    <3>1. /\ e \in Point
          /\ key' = key
          /\ installed' = installed
          /\ devices' = devices
          /\ encrypted_sk_comm' = [encrypted_sk_comm EXCEPT ![e] = key[t]]
          /\ pc[t] = "rewrap_device"
          /\ pc'[t] \in {"rewrap_device", "select_community"}
          /\ \E label : Goto(t, label)
      BY <2>2
      DEF RewrapDevice, DeviceRewrapped, Goto, Inv, TypeOK, EveryDeviceCanBeRewrapped
    <3>2. CASE e = d
      BY <3>1, <3>2 DEF Owned, Owner, Inv, TypeOK
    <3>3. CASE e # d
      BY <1>2, <3>1, <3>3, OwnedStep DEF Owner, Inv, TypeOK
    <3>4. QED
      BY <3>2, <3>3
  <2>3. CASE SelectCommunity(t)
    BY <1>2, <2>3, OwnedStep DEF SelectCommunity, Owner, tables, locals, Goto, Inv, TypeOK, KeyFirst
  <2>4. CASE UpdateCommunity(t)
    BY <1>2, <2>4, OwnedStep DEF UpdateCommunity, CommunityUpdated, Owner
  <2>5. CASE InsertCommunity(t)
    BY <1>2, <2>5, OwnedStep DEF InsertCommunity, CommunityInserted, Owner
  <2>6. CASE InsertCommunityConflict(t)
    BY <1>2, <2>6, OwnedStep DEF InsertCommunityConflict, Owner, tables, locals
  <2>7. QED
    BY <1>5, <2>1, <2>2, <2>3, <2>4, <2>5, <2>6 DEF RotateStep
<1>6. ASSUME NEW t \in Task, Reply(t)
      PROVE  Owned(k)'
  BY <1>2, <1>6, OwnedStep DEF Reply, Leave, Outcome, Owner, tables, Inv, TypeOK
<1>7. ASSUME NEW e \in Device, NEW banned \in BOOLEAN, SetBanned(e, banned)
      PROVE  Owned(k)'
  BY <1>2, <1>7, OwnedUnchanged DEF SetBanned, locals
<1>8. CASE UNCHANGED vars
  BY <1>2, <1>8, OwnedUnchanged DEF vars, tables, locals
<1>9. QED
  BY <1>3, <1>4, <1>5, <1>6, <1>7, <1>8 DEF Next, Serve

\* A fault strands at most the key of the task it hits.
LEMMA FaultOrphan ==
  ASSUME Inv, NEW t \in Task, Fault(t), NEW d \in devices', NEW k,
         encrypted_sk_comm'[d] = k, k \notin OrphanKeys, k # key[t]
  PROVE  Owned(k)'
<1>1. /\ \E label : Goto(t, label)
      /\ installed \subseteq installed'
      /\ \A u \in Task : u # t => key'[u] = key[u]
  BY DEF Fault, Fail, LoseAnswer, Cancel, Leave, tables, locals, DeviceUpdated, DeviceInserted,
         CountIncremented, DeviceRewrapped, CommunityUpdated, CommunityInserted, Inv, TypeOK
<1>2. d \in devices /\ encrypted_sk_comm[d] = k
  <2>1. CASE UNCHANGED <<devices, encrypted_sk_comm>>
    BY <2>1
  <2>2. CASE \E e \in Device : /\ encrypted_sk_comm' = [encrypted_sk_comm EXCEPT ![e] = key[t]]
                               /\ devices' \subseteq devices \cup {e}
    BY <2>2 DEF Inv, TypeOK
  <2>3. CASE LoseAnswer(t)
    <3>1. CASE pc[t] \in Registering
      <4>1. dev[t] \in Device
        BY <3>1 DEF Inv, Locals
      <4>2. QED
        BY <2>1, <2>2, <2>3, <3>1, <4>1
        DEF LoseAnswer, DeviceUpdated, DeviceInserted, CountIncremented, Registering
    <3>2. CASE pc[t] = "rewrap_device"
      <4>1. todo[t] \subseteq Device
        BY DEF Inv, TypeOK
      <4>2. QED
        BY <2>2, <2>3, <3>2, <4>1 DEF LoseAnswer, DeviceRewrapped
    <3>3. CASE pc[t] \in {"update_community", "insert_community"}
      BY <2>1, <2>3, <3>3 DEF LoseAnswer, CommunityUpdated, CommunityInserted
    <3>4. QED
      BY <2>3, <3>1, <3>2, <3>3 DEF LoseAnswer, Registering
  <2>4. QED
    BY <2>1, <2>3 DEF Fault, Fail, Cancel, tables
<1>3. Owned(k)
  BY <1>2 DEF OrphanKeys, Owned, Owner
<1>4. QED
  BY <1>1, <1>3, OwnedStep DEF Owner

\* Every step keeps OrphansNeedFaults.
LEMMA OrphanStep == Inv /\ OrphansNeedFaults /\ [Next]_vars => OrphansNeedFaults'
<1> SUFFICES ASSUME Inv, OrphansNeedFaults, [Next]_vars PROVE OrphansNeedFaults'
  OBVIOUS
<1>1. OrphanKeys' = {k \in {encrypted_sk_comm'[d] : d \in devices'} : ~Owned(k)'}
  BY DEF OrphanKeys, Owned, Owner
<1>2. IsFiniteSet(OrphanKeys) /\ Cardinality(OrphanKeys) \in Nat /\ faults \in Nat
  <2>1. IsFiniteSet(1..keys)
    BY FS_Interval DEF Inv, TypeOK
  <2>2. IsFiniteSet({0} \cup 1..keys)
    BY <2>1, FS_Singleton, FS_Union
  <2>3. OrphanKeys \subseteq {0} \cup 1..keys
    BY DEF OrphanKeys, Inv, TypeOK
  <2>4. QED
    <3>1. IsFiniteSet(OrphanKeys)
      BY <2>2, <2>3, FS_Subset
    <3>2. faults \in Nat
      BY BoundAssumption DEF Inv, TypeOK
    <3>3. QED
      BY <3>1, <3>2, FS_CardinalityType
<1>3. CASE ~ \E t \in Task : Fault(t)
  <2>1. OrphanKeys' \subseteq OrphanKeys
    BY <1>1, <1>3, NoNewOrphan
  <2>2. faults' = faults
    BY <1>3
    DEF Next, Request, Register, EnsureRegistered, RotateGroupKey, Serve, RegisterStep,
        SelectExisting, CheckBanned, GetGroupKey, SelectDevice, UpdateDevice, InsertDevice,
        InsertDeviceConflict, IncrementMemberCount, RotateStep, ListDevices, RewrapDevice,
        SelectCommunity, UpdateCommunity, InsertCommunity, InsertCommunityConflict, Reply,
        SetBanned, vars
  <2>3. Cardinality(OrphanKeys') <= Cardinality(OrphanKeys) /\ Cardinality(OrphanKeys') \in Nat
    BY <1>2, <2>1, FS_Subset, FS_CardinalityType
  <2>4. QED
    BY <1>2, <2>2, <2>3 DEF OrphansNeedFaults
<1>4. ASSUME NEW t \in Task, Fault(t)
      PROVE  OrphansNeedFaults'
  <2>1. OrphanKeys' \subseteq OrphanKeys \cup {key[t]}
    BY <1>1, <1>4, FaultOrphan
  <2>2. faults' = faults + 1
    BY <1>4 DEF Fault, Fail, LoseAnswer, Cancel
  <2>3. /\ IsFiniteSet(OrphanKeys \cup {key[t]})
        /\ Cardinality(OrphanKeys \cup {key[t]}) \in Nat
        /\ Cardinality(OrphanKeys \cup {key[t]}) <= Cardinality(OrphanKeys) + 1
    <3>1. /\ IsFiniteSet(OrphanKeys \cup {key[t]})
          /\ \/ Cardinality(OrphanKeys \cup {key[t]}) = Cardinality(OrphanKeys)
             \/ Cardinality(OrphanKeys \cup {key[t]}) = Cardinality(OrphanKeys) + 1
      BY <1>2, FS_AddElement
    <3>2. QED
      BY <1>2, <3>1
  <2>4. Cardinality(OrphanKeys') \in Nat
        /\ Cardinality(OrphanKeys') <= Cardinality(OrphanKeys \cup {key[t]})
    BY <2>1, <2>3, FS_Subset, FS_CardinalityType
  <2>5. QED
    BY <1>2, <2>2, <2>3, <2>4 DEF OrphansNeedFaults
<1>5. QED
  BY <1>3, <1>4

\* Whatever fails, there are no more keys that devices hold in vain than faults: no
\* interleaving of rotations and registrations strands a key by itself.
THEOREM OrphansAlwaysNeedFaults == Spec => []OrphansNeedFaults
<1>1. Init => OrphansNeedFaults
  <2> SUFFICES ASSUME Init PROVE OrphansNeedFaults
    OBVIOUS
  <2>1. OrphanKeys = {}
    BY DEF Init, OrphanKeys
  <2>2. QED
    BY <2>1, FS_EmptySet DEF Init, OrphansNeedFaults
<1>2. QED
  BY <1>1, InvAlways, OrphanStep, PTL DEF Spec
------------------------------------------------------------------------------
(* Community implements Membership. *)

\* Every rotation in progress has a key of its own that was never installed.
FreshKeys ==
  \A t \in Task : pc[t] \in Rotating =>
    /\ key[t] \notin installed
    /\ \A u \in Task \ {t} : pc[u] \in Rotating => key[u] # key[t]

\* Every step keeps FreshKeys.
LEMMA FreshStep == Inv /\ FreshKeys /\ [Next]_vars => FreshKeys'
<1> SUFFICES ASSUME Inv, FreshKeys, [Next]_vars
             PROVE  FreshKeys'
  OBVIOUS
<1> DEFINE Moves(t) ==
      /\ \E label : Goto(t, label) /\ (label \in Rotating => pc[t] \in Rotating /\ key'[t] = key[t])
      /\ \A u \in Task : u # t => key'[u] = key[u]
<1>1. ASSUME NEW t \in Task, Moves(t), installed' = installed
      PROVE  FreshKeys'
  BY <1>1 DEF FreshKeys, Goto, Inv, TypeOK
<1>2. ASSUME NEW t \in Task, Moves(t), pc[t] \in Rotating, pc'[t] \notin Rotating,
             installed' = installed \cup {key[t]}
      PROVE  FreshKeys'
  BY <1>2 DEF FreshKeys, Goto, Inv, TypeOK
<1>3. ASSUME NEW t \in Task, RotateGroupKey(t)
      PROVE  FreshKeys'
  BY <1>3 DEF RotateGroupKey, FreshKeys, Goto, Rotating, tables, Inv, TypeOK
<1>4. ASSUME NEW t \in Task, Request(t), ~RotateGroupKey(t)
      PROVE  FreshKeys'
  BY <1>1, <1>4 DEF Request, Register, EnsureRegistered, Rotating, tables
<1>5. ASSUME NEW t \in Task, RegisterStep(t)
      PROVE  FreshKeys'
  <2>1. CASE CheckBanned(t)
    BY <1>1, <2>1 DEF CheckBanned, BannedAnswer, Rotating, tables, locals
  <2>2. CASE GetGroupKey(t)
    BY <1>1, <2>2 DEF GetGroupKey, AfterGroupKey, Rotating, tables, Inv, TypeOK
  <2>3. CASE ~CheckBanned(t) /\ ~GetGroupKey(t)
    BY <1>1, <1>5, <2>3
    DEF RegisterStep, SelectExisting, SelectDevice, UpdateDevice, InsertDevice,
        InsertDeviceConflict, IncrementMemberCount, DeviceUpdated, DeviceInserted,
        CountIncremented, Rotating, tables, locals
  <2>4. QED
    BY <2>1, <2>2, <2>3
<1>6. ASSUME NEW t \in Task, RotateStep(t)
      PROVE  FreshKeys'
  <2>1. CASE UpdateCommunity(t) \/ InsertCommunity(t)
    BY <1>2, <2>1
    DEF UpdateCommunity, CommunityUpdated, InsertCommunity, CommunityInserted, Goto,
        Rotating, Inv, TypeOK
  <2>2. CASE ListDevices(t) \/ SelectCommunity(t) \/ InsertCommunityConflict(t)
    BY <1>1, <2>2
    DEF ListDevices, SelectCommunity, InsertCommunityConflict, Rotating, tables, locals
  <2>3. ASSUME NEW d \in Device, RewrapDevice(t, d)
        PROVE  FreshKeys'
    BY <1>1, <2>3 DEF RewrapDevice, DeviceRewrapped, Rotating, tables
  <2>4. QED
    BY <1>6, <2>1, <2>2, <2>3 DEF RotateStep
<1>7. ASSUME NEW t \in Task, Reply(t)
      PROVE  FreshKeys'
  BY <1>1, <1>7 DEF Reply, Leave, Rotating, tables, Inv, TypeOK
<1>8. ASSUME NEW t \in Task, Fault(t)
      PROVE  FreshKeys'
  <2>1. CASE Fail(t)
    BY <1>1, <2>1 DEF Fail, Rotating, tables, locals
  <2>2. CASE LoseAnswer(t)
    <3>1. Moves(t) /\ pc'[t] \notin Rotating
      BY <2>2 DEF LoseAnswer, Goto, Rotating, Inv, TypeOK
    <3>2. CASE installed' = installed
      BY <1>1, <3>1, <3>2
    <3>3. CASE installed' = installed \cup {key[t]} /\ pc[t] \in Rotating
      BY <1>2, <3>1, <3>3
    <3>4. QED
      BY <2>2, <3>2, <3>3
      DEF LoseAnswer, DeviceUpdated, DeviceInserted, CountIncremented, DeviceRewrapped,
          CommunityUpdated, CommunityInserted, Rotating
  <2>3. CASE Cancel(t)
    BY <1>1, <2>3 DEF Cancel, Leave, Rotating, tables, Inv, TypeOK
  <2>4. QED
    BY <1>8, <2>1, <2>2, <2>3 DEF Fault
<1>9. ASSUME NEW d \in Device, NEW banned \in BOOLEAN, SetBanned(d, banned)
      PROVE  FreshKeys'
  BY <1>9 DEF SetBanned, FreshKeys, locals
<1>10. CASE UNCHANGED vars
  BY <1>10 DEF vars, tables, locals, FreshKeys
<1>11. QED
  BY <1>3, <1>4, <1>5, <1>6, <1>7, <1>8, <1>9, <1>10 DEF Next, Serve

\* A fault is a failure of Membership: one that does no harm, costs a count, adds a
\* member without counting it, or hides the answer of a rotation.
LEMMA RefinementFault ==
  ASSUME Inv, FreshKeys, NEW t \in Task, Fault(t)
  PROVE  Registry!Next
<1> DEFINE Count == member_count + Cardinality(Pending)
<1>1. faults' = faults + 1
  BY DEF Fault, Fail, LoseAnswer, Cancel
<1>2. PICK label : Goto(t, label) /\ label # "increment"
  BY DEF Fault, Fail, LoseAnswer, Cancel, Leave
<1>3. /\ Cardinality(Pending) \in Nat
      /\ pc[t] # "increment" => Cardinality(Pending') = Cardinality(Pending)
      /\ pc[t] = "increment" => Cardinality(Pending') = Cardinality(Pending) - 1
  BY <1>2, PendingStep
<1>4. member_count \in Nat
  BY DEF Inv, TypeOK
<1>5. ASSUME UNCHANGED <<devices, banned_at, group_key, installed, member_count>>
      PROVE  Registry!Next
  <2>1. CASE pc[t] = "increment"
    <3>1. Cardinality(Pending) > 0
      <4>1. t \in Pending /\ IsFiniteSet(Pending)
        BY <2>1, TaskAssumption, FS_Subset DEF Pending
      <4>2. Cardinality(Pending) # 0
        BY <4>1, FS_EmptySet
      <4>3. QED
        BY <1>3, <4>2
    <3>2. Count' = Count - 1 /\ Count > 0
      BY <1>3, <1>4, <1>5, <2>1, <3>1
    <3>3. Registry!LoseCount
      BY <1>1, <1>5, <3>2 DEF Registry!LoseCount
    <3>4. QED
      BY <3>3 DEF Registry!Next
  <2>2. CASE pc[t] # "increment"
    <3>1. Count' = Count
      BY <1>3, <1>5, <2>2
    <3>2. Registry!Fail
      BY <1>1, <1>5, <3>1 DEF Registry!Fail
    <3>3. QED
      BY <3>2 DEF Registry!Next
  <2>3. QED
    BY <2>1, <2>2
<1>6. CASE Fail(t) \/ Cancel(t)
  BY <1>5, <1>6 DEF Fail, Cancel, tables
<1>7. CASE LoseAnswer(t)
  <2>1. CASE pc[t] = "insert_device" /\ DeviceInserted(t)
    <3>1. Count' = Count
      BY <1>3, <2>1 DEF DeviceInserted
    <3>2. Registry!JoinUncounted(dev[t])
      BY <1>1, <2>1, <3>1
      DEF DeviceInserted, Registry!JoinUncounted, Registry!Joins, Inv, Locals, KeyFirst
    <3>3. dev[t] \in Device
      BY <2>1 DEF Inv, Locals, Registering
    <3>4. QED
      BY <3>2, <3>3 DEF Registry!Next
  <2>2. CASE pc[t] = "increment" /\ CountIncremented
    <3>1. Count' = Count
      BY <1>3, <1>4, <2>2 DEF CountIncremented
    <3>2. Registry!Fail
      BY <1>1, <2>2, <3>1 DEF CountIncremented, Registry!Fail
    <3>3. QED
      BY <3>2 DEF Registry!Next
  <2>3. CASE \/ pc[t] = "update_community" /\ CommunityUpdated(t)
             \/ pc[t] = "insert_community" /\ CommunityInserted(t)
    <3>1. member_count' = member_count
      BY <2>3, FS_EmptySet DEF CommunityUpdated, CommunityInserted, Inv, Locals, KeyFirst
    <3>2. Count' = Count
      BY <1>3, <2>3, <3>1
    <3>3. key[t] \in Nat \ {0} /\ key[t] \notin installed
      BY <2>3 DEF FreshKeys, Rotating, Inv, TypeOK, Locals
    <3>4. Registry!Rotate
      BY <1>1, <2>3, <3>2, <3>3 DEF CommunityUpdated, CommunityInserted, Registry!Rotate
    <3>5. QED
      BY <3>4 DEF Registry!Next
  <2>4. CASE \/ DeviceUpdated(t)
             \/ \E d \in todo[t] : DeviceRewrapped(t, d)
    BY <1>5, <2>4 DEF DeviceUpdated, DeviceRewrapped
  <2>5. QED
    BY <1>7, <2>1, <2>2, <2>3, <2>4 DEF LoseAnswer
<1>8. QED
  BY <1>6, <1>7 DEF Fault

\* Every step without a fault is a step of Membership or a stutter, and so is a fault.
LEMMA RefinementStep ==
  ASSUME Inv, FreshKeys, [Next]_vars
  PROVE  [Registry!Next]_(Registry!vars)
<1> DEFINE Count == member_count + Cardinality(Pending)
<1>1. ASSUME UNCHANGED <<devices, banned_at, Count, group_key, installed,
                       faults>>
      PROVE  UNCHANGED Registry!vars
  BY <1>1 DEF Registry!vars
<1>2. ASSUME NEW t \in Task, NEW label, Goto(t, label), pc[t] # "increment",
             label # "increment", member_count' = member_count
      PROVE  Count' = Count
  BY <1>2, PendingStep
<1>3. ASSUME NEW t \in Task, Fault(t)
      PROVE  Registry!Next
  BY <1>3, RefinementFault
<1> HIDE DEF Count
<1>4. ASSUME NEW t \in Task, Request(t)
      PROVE  UNCHANGED Registry!vars
  BY <1>1, <1>2, <1>4 DEF Request, Register, EnsureRegistered, RotateGroupKey, tables
<1>5. ASSUME NEW t \in Task, RegisterStep(t)
      PROVE  [Registry!Next]_(Registry!vars)
  <2>1. CASE InsertDevice(t)
    <3>1. Count' = Count + 1
      BY <2>1, PendingStep DEF InsertDevice, DeviceInserted, Count, Inv, TypeOK
    <3>2. Registry!Join(dev[t])
      BY <2>1, <3>1
      DEF InsertDevice, DeviceInserted, Registry!Join, Registry!Joins, Count, Inv, Locals, KeyFirst
    <3>3. dev[t] \in Device
      BY <2>1 DEF InsertDevice, Inv, Locals, Registering
    <3>4. QED
      BY <3>2, <3>3 DEF Registry!Next
  <2>2. CASE IncrementMemberCount(t)
    <3>1. Count' = Count
      BY <2>2, PendingStep DEF IncrementMemberCount, CountIncremented, Count, Inv, TypeOK
    <3>2. QED
      BY <1>1, <2>2, <3>1 DEF IncrementMemberCount, CountIncremented
  <2>3. CASE CheckBanned(t)
    BY <1>1, <1>2, <2>3 DEF CheckBanned, BannedAnswer, tables
  <2>4. CASE ~InsertDevice(t) /\ ~IncrementMemberCount(t) /\ ~CheckBanned(t)
    BY <1>1, <1>2, <1>5, <2>4
    DEF RegisterStep, SelectExisting, GetGroupKey, AfterGroupKey, SelectDevice, UpdateDevice,
        InsertDeviceConflict, DeviceUpdated, tables
  <2>5. QED
    BY <2>1, <2>2, <2>3, <2>4
<1>6. ASSUME NEW t \in Task, RotateStep(t)
      PROVE  [Registry!Next]_(Registry!vars)
  <2>1. CASE UpdateCommunity(t) \/ InsertCommunity(t)
    <3>1. member_count' = member_count
      <4>1. CASE UpdateCommunity(t)
        BY <4>1 DEF UpdateCommunity, CommunityUpdated
      <4>2. CASE InsertCommunity(t)
        BY <4>2, FS_EmptySet DEF InsertCommunity, CommunityInserted, Inv, Locals, KeyFirst
      <4>3. QED
        BY <2>1, <4>1, <4>2
    <3>2. Count' = Count
      BY <1>2, <2>1, <3>1 DEF UpdateCommunity, InsertCommunity
    <3>3. key[t] \in Nat \ {0} /\ key[t] \notin installed
      BY <2>1
      DEF UpdateCommunity, InsertCommunity, FreshKeys, Rotating, Inv, TypeOK, Locals
    <3>4. Registry!Rotate
      BY <2>1, <3>2, <3>3
      DEF UpdateCommunity, CommunityUpdated, InsertCommunity, CommunityInserted,
          Registry!Rotate, Count
    <3>5. QED
      BY <3>4 DEF Registry!Next
  <2>2. CASE ListDevices(t) \/ SelectCommunity(t) \/ InsertCommunityConflict(t)
    BY <1>1, <1>2, <2>2 DEF ListDevices, SelectCommunity, InsertCommunityConflict, tables
  <2>3. ASSUME NEW d \in Device, RewrapDevice(t, d)
        PROVE  UNCHANGED Registry!vars
    BY <1>1, <1>2, <2>3 DEF RewrapDevice, DeviceRewrapped, tables
  <2>4. QED
    BY <1>6, <2>1, <2>2, <2>3 DEF RotateStep
<1>7. ASSUME NEW t \in Task, Reply(t)
      PROVE  UNCHANGED Registry!vars
  BY <1>1, <1>2, <1>7 DEF Reply, Leave, Outcome, tables
<1>8. ASSUME NEW d \in Device, NEW banned \in BOOLEAN, SetBanned(d, banned)
      PROVE  Registry!Ban(d) \/ Registry!Unban(d)
  BY <1>8 DEF SetBanned, Registry!Ban, Registry!Unban, Pending
<1>9. CASE UNCHANGED vars
  BY <1>9 DEF vars, tables, Registry!vars, Pending
<1>10. QED
  BY <1>3, <1>4, <1>5, <1>6, <1>7, <1>8, <1>9 DEF Next, Serve, Registry!Next

\* The statements of concurrent registrations, rotations and bans add up to the atomic
\* registry of Membership, and a failure among them costs at most one count.
THEOREM Refinement == Spec => ImplementsMembership
<1>1. Init => FreshKeys /\ Registry!Init
  <2> SUFFICES ASSUME Init PROVE FreshKeys /\ Registry!Init
    OBVIOUS
  <2>1. Pending = {}
    BY DEF Init, Pending
  <2>2. QED
    BY <2>1, FS_EmptySet DEF Init, FreshKeys, Rotating, Registry!Init
<1>2. Inv /\ FreshKeys /\ [Next]_vars => [Registry!Next]_(Registry!vars)
  BY RefinementStep
<1>3. QED
  BY <1>1, <1>2, InvAlways, FreshStep, PTL DEF Spec, ImplementsMembership, Registry!Spec
------------------------------------------------------------------------------
(* Why every request ends. *)

\* How many stages of its handler are left to a task, the loop over the devices being one.
Stage(label) ==
  CASE label = "idle" -> 0
    [] label \in Outcome -> 1
    [] label \in {"update_device", "increment", "update_community", "insert_community"} -> 2
    [] label \in {"insert_device", "select_community"} -> 3
    [] label \in {"select_device", "rewrap_device"} -> 4
    [] label \in {"get_group_key", "list_devices"} -> 5
    [] label = "check_banned" -> 6
    [] label = "select_existing" -> 7

\* t goes on to a later stage, or has fewer devices left in the loop.
Advances(t) ==
  \/ Stage(pc'[t]) < Stage(pc[t])
  \/ /\ pc[t] = "rewrap_device" /\ pc'[t] = "rewrap_device"
     /\ todo'[t] \subseteq todo[t] /\ todo'[t] # todo[t] /\ IsFiniteSet(todo[t])

\* Every statement of a request, also one that fails, brings its task nearer to the
\* answer, and no other task, request or ban takes it further away.
EveryStatementAdvances ==
  [][\A t \in Task : pc[t] # "idle" =>
       IF Serve(t) \/ Fault(t) THEN Advances(t)
                               ELSE pc'[t] = pc[t] /\ todo'[t] = todo[t]]_vars

\* The loop is entered, and stayed in, only with a device left.
LoopHasWork == \A t \in Task : pc[t] = "rewrap_device" => todo[t] # {}

\* The stages, label by label.
LEMMA Stages ==
  /\ Stage("idle") = 0
  /\ Stage("ok") = 1 /\ Stage("refused") = 1 /\ Stage("rejected") = 1
  /\ Stage("no_group_key") = 1 /\ Stage("error") = 1 /\ Stage("panicked") = 1
  /\ Stage("update_device") = 2 /\ Stage("increment") = 2
  /\ Stage("update_community") = 2 /\ Stage("insert_community") = 2
  /\ Stage("insert_device") = 3 /\ Stage("select_community") = 3
  /\ Stage("select_device") = 4 /\ Stage("rewrap_device") = 4
  /\ Stage("get_group_key") = 5 /\ Stage("list_devices") = 5
  /\ Stage("check_banned") = 6 /\ Stage("select_existing") = 7
BY DEF Stage, Outcome

\* Goto moves the task to the label.
LEMMA GotoMoves ==
  ASSUME Inv, NEW t \in Task, NEW label, Goto(t, label)
  PROVE  pc'[t] = label
BY DEF Goto, Inv, TypeOK

\* A statement of register_device leads to a later one.
LEMMA RegisterAdvances ==
  ASSUME Inv, NEW t \in Task, RegisterStep(t)
  PROVE  Stage(pc'[t]) < Stage(pc[t])
<1>1. CASE SelectExisting(t)
  <2>1. pc[t] = "select_existing" /\ pc'[t] \in {"ok", "check_banned"}
    BY <1>1, GotoMoves DEF SelectExisting
  <2> QED
    BY <2>1, Stages
<1>2. CASE CheckBanned(t)
  <2>1. pc[t] = "check_banned" /\ pc'[t] \in {"get_group_key", "panicked"}
    BY <1>2, GotoMoves DEF CheckBanned, BannedAnswer
  <2> QED
    BY <2>1, Stages
<1>3. CASE GetGroupKey(t)
  <2>1. pc[t] = "get_group_key" /\ pc'[t] \in {"no_group_key", "error", "select_device"}
    BY <1>3, GotoMoves DEF GetGroupKey, AfterGroupKey
  <2> QED
    BY <2>1, Stages
<1>4. CASE SelectDevice(t)
  <2>1. pc[t] = "select_device" /\ pc'[t] \in {"update_device", "insert_device"}
    BY <1>4, GotoMoves DEF SelectDevice
  <2> QED
    BY <2>1, Stages
<1>5. CASE InsertDevice(t) \/ InsertDeviceConflict(t)
  <2>1. pc[t] = "insert_device" /\ pc'[t] \in {"increment", "error"}
    BY <1>5, GotoMoves DEF InsertDevice, InsertDeviceConflict
  <2> QED
    BY <2>1, Stages
<1>6. CASE UpdateDevice(t) \/ IncrementMemberCount(t)
  <2>1. pc[t] \in {"update_device", "increment"} /\ pc'[t] = "ok"
    BY <1>6, GotoMoves DEF UpdateDevice, IncrementMemberCount
  <2> QED
    BY <2>1, Stages
<1> QED
  BY <1>1, <1>2, <1>3, <1>4, <1>5, <1>6 DEF RegisterStep

\* A turn of the loop takes one device off what is left; so much for a rotation.
LEMMA RotateAdvances ==
  ASSUME Inv, NEW t \in Task, RotateStep(t)
  PROVE  Advances(t)
<1>1. CASE ListDevices(t)
  <2>1. pc[t] = "list_devices" /\ pc'[t] \in {"select_community", "rewrap_device"}
    BY <1>1, GotoMoves DEF ListDevices
  <2> QED
    BY <2>1, Stages DEF Advances
<1>2. ASSUME NEW d \in Device, RewrapDevice(t, d)
      PROVE  Advances(t)
  <2>1. pc[t] = "rewrap_device" /\ d \in todo[t]
    BY <1>2 DEF RewrapDevice
  <2>2. CASE d \in Point /\ todo[t] # {d}
    <3>1. pc'[t] = "rewrap_device"
      BY <1>2, <2>2, GotoMoves DEF RewrapDevice
    <3>2. todo'[t] = todo[t] \ {d}
      BY <1>2, <2>2 DEF RewrapDevice, DeviceRewrapped, Inv, TypeOK
    <3>3. IsFiniteSet(todo[t])
      BY FS_Subset DEF Inv, TypeOK
    <3> QED
      BY <2>1, <3>1, <3>2, <3>3 DEF Advances
  <2>3. CASE d \notin Point \/ todo[t] = {d}
    <3>1. pc'[t] \in {"error", "select_community"}
      BY <1>2, <2>3, GotoMoves DEF RewrapDevice
    <3> QED
      BY <2>1, <3>1, Stages DEF Advances
  <2> QED
    BY <2>2, <2>3
<1>3. CASE SelectCommunity(t)
  <2>1. pc[t] = "select_community" /\ pc'[t] \in {"update_community", "insert_community"}
    BY <1>3, GotoMoves DEF SelectCommunity
  <2> QED
    BY <2>1, Stages DEF Advances
<1>4. CASE UpdateCommunity(t) \/ InsertCommunity(t) \/ InsertCommunityConflict(t)
  <2>1. pc[t] \in {"update_community", "insert_community"} /\ pc'[t] \in {"ok", "error"}
    BY <1>4, GotoMoves DEF UpdateCommunity, InsertCommunity, InsertCommunityConflict
  <2> QED
    BY <2>1, Stages DEF Advances
<1> QED
  BY <1>1, <1>2, <1>3, <1>4 DEF RotateStep

\* The answer frees the task.
LEMMA ReplyAdvances ==
  ASSUME Inv, NEW t \in Task, Reply(t)
  PROVE  Stage(pc'[t]) < Stage(pc[t])
<1>1. pc[t] \in Outcome /\ pc'[t] = "idle"
  BY GotoMoves DEF Reply, Leave
<1> QED
  BY <1>1, Stages DEF Outcome

\* A fault cuts the request short.
LEMMA FaultAdvances ==
  ASSUME Inv, NEW t \in Task, Fault(t)
  PROVE  Stage(pc'[t]) < Stage(pc[t])
<1>1. CASE Fail(t) /\ pc[t] = "check_banned"
  <2>1. pc'[t] = "get_group_key"
    BY <1>1, GotoMoves DEF Fail
  <2> QED
    BY <1>1, <2>1, Stages
<1>2. CASE \/ Fail(t) /\ pc[t] # "check_banned"
           \/ LoseAnswer(t)
           \/ Cancel(t)
  <2>1. pc'[t] \in {"error", "idle"}
    BY <1>2, GotoMoves DEF Fail, LoseAnswer, Cancel, Leave
  <2>2. pc[t] \in Statement
    BY <1>2 DEF Fail, LoseAnswer, Cancel, Statement, Write
  <2> QED
    BY <2>1, <2>2, Stages DEF Statement, Write
<1> QED
  BY <1>1, <1>2 DEF Fault

\* A step of one task moves no other.
LEMMA OthersStay ==
  ASSUME Inv, NEW t \in Task, NEW u \in Task, u # t, Request(u) \/ Serve(u) \/ Fault(u)
  PROVE  pc'[t] = pc[t] /\ todo'[t] = todo[t]
<1> USE DEF Goto, tables, locals, Inv, TypeOK
<1>1. CASE Request(u)
  BY <1>1 DEF Request, Register, EnsureRegistered, RotateGroupKey
<1>2. CASE RegisterStep(u)
  BY <1>2
  DEF RegisterStep, SelectExisting, CheckBanned, GetGroupKey, SelectDevice, UpdateDevice,
      InsertDevice, InsertDeviceConflict, IncrementMemberCount, DeviceUpdated,
      DeviceInserted, CountIncremented
<1>3. CASE RotateStep(u)
  BY <1>3
  DEF RotateStep, ListDevices, RewrapDevice, DeviceRewrapped, SelectCommunity,
      UpdateCommunity, CommunityUpdated, InsertCommunity, CommunityInserted,
      InsertCommunityConflict
<1>4. CASE Reply(u)
  BY <1>4 DEF Reply, Leave
<1>5. CASE Fault(u)
  BY <1>5
  DEF Fault, Fail, LoseAnswer, Cancel, Leave, DeviceUpdated, DeviceInserted,
      CountIncremented, DeviceRewrapped, CommunityUpdated, CommunityInserted
<1> QED
  BY <1>1, <1>2, <1>3, <1>4, <1>5 DEF Serve

\* No handler loops for ever over the devices or goes back, whatever the others do:
\* the measure on which RequestsTerminate rests, beside the scheduling of the tasks.
THEOREM RequestsAlwaysAdvance == Spec => EveryStatementAdvances
<1>1. ASSUME Inv, [Next]_vars, NEW t \in Task, pc[t] # "idle"
      PROVE  IF Serve(t) \/ Fault(t) THEN Advances(t)
                                     ELSE pc'[t] = pc[t] /\ todo'[t] = todo[t]
  <2>1. CASE Serve(t) \/ Fault(t)
    <3>1. RegisterStep(t) \/ Reply(t) \/ Fault(t) => Stage(pc'[t]) < Stage(pc[t])
      BY <1>1, RegisterAdvances, ReplyAdvances, FaultAdvances
    <3>2. RotateStep(t) => Advances(t)
      BY <1>1, RotateAdvances
    <3>3. Advances(t)
      BY <2>1, <3>1, <3>2 DEF Serve, Advances
    <3> QED
      BY <2>1, <3>3
  <2>2. CASE ~(Serve(t) \/ Fault(t))
    <3>1. ~Request(t)
      BY <1>1 DEF Request, Register, EnsureRegistered, RotateGroupKey
    <3>2. ASSUME NEW d \in Device, NEW banned \in BOOLEAN, SetBanned(d, banned)
          PROVE  pc' = pc /\ todo' = todo
      BY <3>2 DEF SetBanned, locals
    <3>3. UNCHANGED vars => pc' = pc /\ todo' = todo
      BY DEF vars, locals
    <3> QED
      BY <1>1, <2>2, <3>1, <3>2, <3>3, OthersStay DEF Next
  <2> QED
    BY <2>1, <2>2
<1>2. Inv /\ [Next]_vars =>
        [\A t \in Task : pc[t] # "idle" =>
           IF Serve(t) \/ Fault(t) THEN Advances(t)
                                   ELSE pc'[t] = pc[t] /\ todo'[t] = todo[t]]_vars
  BY <1>1
<1> QED
  BY <1>2, InvAlways, PTL DEF Spec, EveryStatementAdvances

\* The loop of a rotation always has a device to go on with, so that it cannot wait
\* at its head.
THEOREM LoopAlwaysHasWork == Spec => []LoopHasWork
<1>1. Init => LoopHasWork
  BY DEF Init, LoopHasWork
<1>2. ASSUME Inv, LoopHasWork, [Next]_vars
      PROVE  LoopHasWork'
  <2>1. ASSUME NEW t \in Task, Request(t) \/ Serve(t) \/ Fault(t)
        PROVE  pc'[t] = "rewrap_device" => todo'[t] # {}
    <3>1. CASE Request(t)
      BY <1>2, <3>1
      DEF Request, Register, EnsureRegistered, RotateGroupKey, Goto, Inv, TypeOK
    <3>2. CASE RegisterStep(t) \/ Reply(t) \/ Fault(t)
      <4>1. pc[t] # "rewrap_device" /\ RegisterStep(t) => pc'[t] # "rewrap_device"
        BY <1>2, GotoMoves
        DEF RegisterStep, SelectExisting, CheckBanned, BannedAnswer, GetGroupKey,
            AfterGroupKey, SelectDevice, UpdateDevice, InsertDevice, InsertDeviceConflict,
            IncrementMemberCount
      <4>2. Reply(t) \/ Fault(t) => pc'[t] \in {"idle", "error", "get_group_key"}
        BY <1>2, GotoMoves DEF Reply, Fault, Fail, LoseAnswer, Cancel, Leave
      <4>3. RegisterStep(t) => pc[t] # "rewrap_device"
        BY DEF RegisterStep, SelectExisting, CheckBanned, GetGroupKey, SelectDevice,
               UpdateDevice, InsertDevice, InsertDeviceConflict, IncrementMemberCount
      <4> QED
        BY <3>2, <4>1, <4>2, <4>3
    <3>3. CASE ListDevices(t)
      BY <1>2, <3>3 DEF ListDevices, Goto, Inv, TypeOK
    <3>4. ASSUME NEW d \in Device, RewrapDevice(t, d)
          PROVE  pc'[t] = "rewrap_device" => todo'[t] # {}
      BY <1>2, <3>4 DEF RewrapDevice, DeviceRewrapped, Goto, Inv, TypeOK
    <3>5. CASE \/ SelectCommunity(t) \/ UpdateCommunity(t)
               \/ InsertCommunity(t) \/ InsertCommunityConflict(t)
      BY <1>2, <3>5, GotoMoves
      DEF SelectCommunity, UpdateCommunity, InsertCommunity, InsertCommunityConflict
    <3> QED
      BY <2>1, <3>1, <3>2, <3>3, <3>4, <3>5 DEF Serve, RotateStep
  <2>2. ASSUME NEW t \in Task, Request(t) \/ Serve(t) \/ Fault(t)
        PROVE  LoopHasWork'
    BY <1>2, <2>1, <2>2, OthersStay DEF LoopHasWork
  <2>3. ASSUME NEW d \in Device, NEW banned \in BOOLEAN, SetBanned(d, banned)
        PROVE  LoopHasWork'
    BY <1>2, <2>3 DEF SetBanned, locals, LoopHasWork
  <2>4. CASE UNCHANGED vars
    BY <1>2, <2>4 DEF vars, locals, LoopHasWork
  <2> QED
    BY <1>2, <2>2, <2>3, <2>4 DEF Next
<1> QED
  BY <1>1, <1>2, InvAlways, PTL DEF Spec
------------------------------------------------------------------------------
(* A rotation alone. *)

\* When a rotation installs its key, every device it listed holds a wrap of it.
ListedAreRewrapped ==
  [][\A t \in Task : UpdateCommunity(t) \/ InsertCommunity(t) =>
       \A d \in listed[t] : encrypted_sk_comm'[d] = group_key']_vars

\* The devices that the loop has done hold the new key, and after the loop all have.
LoopDone(t) ==
  /\ pc[t] = "rewrap_device" =>
       \A d \in listed[t] \ todo[t] : encrypted_sk_comm[d] = key[t]
  /\ pc[t] \in {"select_community", "update_community", "insert_community"} =>
       \A d \in listed[t] : encrypted_sk_comm[d] = key[t]

\* The only task keeps what its loop has done.
LEMMA LoopStep ==
  ASSUME Inv, NEW t \in Task, LoopDone(t), Request(t) \/ Serve(t) \/ Fault(t)
  PROVE  LoopDone(t)'
<1>1. CASE Request(t)
  <2>1. pc'[t] \in {"rejected", "check_banned", "select_existing", "list_devices"}
    BY <1>1, GotoMoves DEF Request, Register, EnsureRegistered, RotateGroupKey
  <2> QED
    BY <2>1 DEF LoopDone
<1>2. CASE RegisterStep(t)
  <2>1. pc'[t] \in Registering \cup Outcome
    BY <1>2, GotoMoves
    DEF RegisterStep, SelectExisting, CheckBanned, BannedAnswer, GetGroupKey, AfterGroupKey,
        SelectDevice, UpdateDevice, InsertDevice, InsertDeviceConflict,
        IncrementMemberCount, Registering, Outcome
  <2> QED
    BY <2>1 DEF LoopDone, Registering, Outcome
<1>3. CASE ListDevices(t)
  <2>1. /\ listed'[t] = devices \ banned_at /\ todo'[t] = devices \ banned_at
        /\ pc'[t] = IF devices \subseteq banned_at THEN "select_community"
                                                  ELSE "rewrap_device"
    BY <1>3, GotoMoves DEF ListDevices, Inv, TypeOK
  <2> QED
    BY <2>1 DEF LoopDone
<1>4. ASSUME NEW d \in Device, RewrapDevice(t, d)
      PROVE  LoopDone(t)'
  <2>1. pc[t] = "rewrap_device" /\ listed' = listed /\ key' = key
    BY <1>4 DEF RewrapDevice
  <2>2. CASE d \notin Point
    <3>1. pc'[t] = "error"
      BY <1>4, <2>2, GotoMoves DEF RewrapDevice
    <3> QED
      BY <3>1 DEF LoopDone
  <2>3. CASE d \in Point
    <3>1. /\ encrypted_sk_comm'[d] = key[t]
          /\ \A e \in Device : e # d => encrypted_sk_comm'[e] = encrypted_sk_comm[e]
          /\ todo'[t] = todo[t] \ {d}
      BY <1>4, <2>3 DEF RewrapDevice, DeviceRewrapped, Inv, TypeOK
    <3>2. pc'[t] = IF todo[t] = {d} THEN "select_community" ELSE "rewrap_device"
      BY <1>4, <2>3, GotoMoves DEF RewrapDevice
    <3>3. listed[t] \subseteq Device
      BY DEF Inv, TypeOK
    <3>4. \A e \in listed[t] \ todo'[t] : encrypted_sk_comm'[e] = key[t]
      BY <2>1, <3>1, <3>3 DEF LoopDone
    <3>5. todo[t] = {d} => todo'[t] = {}
      BY <3>1
    <3> QED
      BY <2>1, <3>2, <3>4, <3>5 DEF LoopDone
  <2> QED
    BY <2>2, <2>3
<1>5. CASE SelectCommunity(t)
  <2>1. pc[t] = "select_community" /\ pc'[t] \in {"update_community", "insert_community"}
    BY <1>5, GotoMoves DEF SelectCommunity
  <2>2. UNCHANGED <<listed, key, encrypted_sk_comm>>
    BY <1>5 DEF SelectCommunity, tables, locals
  <2> QED
    BY <2>1, <2>2 DEF LoopDone
<1>6. CASE \/ UpdateCommunity(t) \/ InsertCommunity(t) \/ InsertCommunityConflict(t)
           \/ Reply(t) \/ Fault(t)
  <2>1. pc'[t] \in {"ok", "error", "idle", "get_group_key"}
    BY <1>6, GotoMoves
    DEF UpdateCommunity, InsertCommunity, InsertCommunityConflict, Reply, Fault, Fail,
        LoseAnswer, Cancel, Leave
  <2> QED
    BY <2>1 DEF LoopDone
<1> QED
  BY <1>1, <1>2, <1>3, <1>4, <1>5, <1>6 DEF Serve, RotateStep

\* README.md:76 for a server with one task: whatever fails, and whatever is banned or
\* unbanned meanwhile, a rotation that installs its key has re-encrypted it for every
\* device it listed.  A device that it misses, as in the run community_rotation, was
\* registered or unbanned after the list.
THEOREM LoneRotationReaches ==
  ASSUME \A t, u \in Task : t = u
  PROVE  Spec => ListedAreRewrapped
<1> DEFINE Done == \A t \in Task : LoopDone(t)
<1>1. Init => Done
  BY DEF Init, LoopDone
<1>2. ASSUME Inv, Done, [Next]_vars
      PROVE  Done'
  <2>1. ASSUME NEW t \in Task, Request(t) \/ Serve(t) \/ Fault(t)
        PROVE  Done'
    <3>1. LoopDone(t)'
      BY <1>2, <2>1, LoopStep
    <3> QED
      BY <3>1
  <2>2. ASSUME NEW d \in Device, NEW banned \in BOOLEAN, SetBanned(d, banned)
        PROVE  Done'
    BY <1>2, <2>2 DEF SetBanned, locals, LoopDone
  <2>3. CASE UNCHANGED vars
    BY <1>2, <2>3 DEF vars, tables, locals, LoopDone
  <2> QED
    BY <1>2, <2>1, <2>2, <2>3 DEF Next
<1>3. ASSUME Done, NEW t \in Task, UpdateCommunity(t) \/ InsertCommunity(t), NEW d \in listed[t]
      PROVE  encrypted_sk_comm'[d] = group_key'
  <2>1. /\ pc[t] \in {"update_community", "insert_community"}
        /\ encrypted_sk_comm' = encrypted_sk_comm /\ group_key' = key[t]
    BY <1>3 DEF UpdateCommunity, CommunityUpdated, InsertCommunity, CommunityInserted
  <2> QED
    BY <1>3, <2>1 DEF LoopDone
<1>4. Done => [\A t \in Task : UpdateCommunity(t) \/ InsertCommunity(t) =>
                 \A d \in listed[t] : encrypted_sk_comm'[d] = group_key']_vars
  BY <1>3
<1> HIDE DEF Done
<1> QED
  BY <1>1, <1>2, <1>4, InvAlways, PTL DEF Spec, ListedAreRewrapped
==============================================================================
