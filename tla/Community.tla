------------------------------ MODULE Community ------------------------------
(***************************************************************************)
(* The registered devices of a FreeSky community and its group key:        *)
(* server/src/queries.rs, reached from the handlers of noise.rs and        *)
(* admin.rs.                                                               *)
(*                                                                         *)
(* Every request runs as a task of its own and every query opens its own   *)
(* connection, with no transaction around several of them, so one action   *)
(* is one database statement together with the computation up to the next  *)
(* statement.  A task holds what the code holds in local variables between *)
(* two statements: dev (pk_dev), key (group_key or new_key), listed        *)
(* (device_keys) and todo (the part of device_keys still to be rewrapped). *)
(***************************************************************************)
EXTENDS Naturals, FiniteSets

CONSTANTS
  Device,        \* byte strings that requests carry as a device key
  Point,         \* those that ecies_encrypt accepts: SEC1 points, either form
  Uncompressed,  \* those that validate_pk_dev accepts: 65 bytes, on the curve
  NoDevice,      \* the value of dev[t] when task t serves no device
  Task,          \* server tasks: one per request being served
  MaxKey,        \* bound: group keys ever drawn
  MaxFaults,     \* bound: failed statements, lost answers and dropped tasks
  BlobOfInteger  \* what libsql makes of get::<Option<Vec<u8>>> on an INTEGER

ASSUME DeviceAssumption ==
  Uncompressed \subseteq Point /\ Point \subseteq Device /\ NoDevice \notin Device
ASSUME TaskAssumption == IsFiniteSet(Task)
ASSUME BoundAssumption == MaxKey \in Nat /\ MaxFaults \in Nat
ASSUME LibsqlAssumption == BlobOfInteger \subseteq {"error", "panic"}

VARIABLES
  devices,            \* the primary keys of the rows of table devices
  banned_at,          \* the rows whose banned_at is not NULL
  encrypted_sk_comm,  \* per row, the number of the group key it wraps
  group_key,          \* community.mls_group_state; 0 while there is no row
  member_count,       \* community.member_count; 0 while there is no row
  installed,          \* history: every value community.mls_group_state has had
  keys,               \* how many group keys OsRng has produced
  faults,             \* how many faults have happened
  pc,                 \* per task, the statement it is about to run
  dev, key, todo, listed

tables == <<devices, banned_at, encrypted_sk_comm, group_key, member_count,
            installed>>
locals == <<dev, key, todo, listed>>
vars   == <<tables, keys, faults, pc, locals>>

Outcome == {"ok", "refused", "rejected", "no_group_key", "error", "panicked"}
Write == {"update_device", "insert_device", "increment", "rewrap_device",
          "update_community", "insert_community"}
Statement == Write \cup {"select_existing", "check_banned", "get_group_key",
                         "select_device", "list_devices", "select_community"}
Registering == {"select_existing", "check_banned", "get_group_key",
                "select_device", "update_device", "insert_device", "increment"}

TypeOK ==
  /\ devices \subseteq Device /\ IsFiniteSet(devices)
  /\ banned_at \subseteq devices
  /\ encrypted_sk_comm \in [Device -> 0..keys]
  /\ group_key \in 0..keys
  /\ member_count \in Nat
  /\ installed \subseteq 1..keys
  /\ keys \in 0..MaxKey
  /\ faults \in 0..MaxFaults
  /\ pc \in [Task -> {"idle"} \cup Statement \cup Outcome]
  /\ dev \in [Task -> Device \cup {NoDevice}]
  /\ key \in [Task -> 0..keys]
  /\ listed \in [Task -> SUBSET devices]
  /\ todo \in [Task -> SUBSET devices]

Init ==
  /\ devices = {}
  /\ banned_at = {}
  /\ encrypted_sk_comm = [d \in Device |-> 0]
  /\ group_key = 0
  /\ member_count = 0
  /\ installed = {}
  /\ keys = 0
  /\ faults = 0
  /\ pc = [t \in Task |-> "idle"]
  /\ dev = [t \in Task |-> NoDevice]
  /\ key = [t \in Task |-> 0]
  /\ listed = [t \in Task |-> {}]
  /\ todo = [t \in Task |-> {}]

Goto(t, label) == pc' = [pc EXCEPT ![t] = label]
------------------------------------------------------------------------------
(* Requests. *)

\* The register handler: the APK key, then validate_pk_dev, then register_device.
Register(t, d, trusted) ==
  /\ pc[t] = "idle"
  /\ Goto(t, IF trusted /\ d \in Uncompressed THEN "check_banned" ELSE "rejected")
  /\ dev' = [dev EXCEPT ![t] = d]
  /\ UNCHANGED <<tables, keys, faults, key, todo, listed>>

\* ensure_device_registered, as submit_post and submit_report call it.
EnsureRegistered(t, d) ==
  /\ pc[t] = "idle"
  /\ Goto(t, "select_existing")
  /\ dev' = [dev EXCEPT ![t] = d]
  /\ UNCHANGED <<tables, keys, faults, key, todo, listed>>

\* key_rotate: the new key is drawn before the devices are listed.
RotateGroupKey(t) ==
  /\ pc[t] = "idle"
  /\ keys < MaxKey
  /\ keys' = keys + 1
  /\ key' = [key EXCEPT ![t] = keys + 1]
  /\ Goto(t, "list_devices")
  /\ UNCHANGED <<tables, faults, dev, todo, listed>>

\* Mutant: the ban is kept by key, whether or not the device has a row.
SetBannedAnyKey(d, banned) ==
  /\ d \in Uncompressed
  /\ banned_at' = IF banned THEN banned_at \cup {d} ELSE banned_at \ {d}
  /\ UNCHANGED <<devices, encrypted_sk_comm, group_key, member_count,
                 installed, keys, faults, pc, locals>>

\* The ban and unban handlers: one UPDATE; a malformed key or an unknown device
\* changes nothing.
SetBanned(d, banned) ==
  /\ d \in Uncompressed \cap devices
  /\ banned_at' = IF banned THEN banned_at \cup {d} ELSE banned_at \ {d}
  /\ UNCHANGED <<devices, encrypted_sk_comm, group_key, member_count,
                 installed, keys, faults, pc, locals>>

\* The handler returns and its local variables are gone.
Leave(t) ==
  /\ Goto(t, "idle")
  /\ dev' = [dev EXCEPT ![t] = NoDevice]
  /\ key' = [key EXCEPT ![t] = 0]
  /\ todo' = [todo EXCEPT ![t] = {}]
  /\ listed' = [listed EXCEPT ![t] = {}]

Reply(t) ==
  /\ pc[t] \in Outcome
  /\ Leave(t)
  /\ UNCHANGED <<tables, keys, faults>>
------------------------------------------------------------------------------
(* register_device and ensure_device_registered. *)

SelectExisting(t) ==
  /\ pc[t] = "select_existing"
  /\ Goto(t, IF dev[t] \in devices THEN "ok" ELSE "check_banned")
  /\ UNCHANGED <<tables, keys, faults, locals>>

\* check_banned decodes the INTEGER banned_at as a BLOB: on a row with a value
\* libsql reports an error, which .ok() turns into "not banned", or panics.
BannedAnswer(d) ==
  IF d \in banned_at
    THEN {IF r = "error" THEN "no" ELSE "panic" : r \in BlobOfInteger}
    ELSE {"no"}

CheckBanned(t) ==
  /\ pc[t] = "check_banned"
  /\ \E answer \in BannedAnswer(dev[t]) :
       Goto(t, CASE answer = "yes"   -> "refused"
                 [] answer = "no"    -> "get_group_key"
                 [] answer = "panic" -> "panicked")
  /\ UNCHANGED <<tables, keys, faults, locals>>

\* Mutants: an absent group key is taken for an empty one; the key of the device is
\* not used before the next rotation.
AfterAnyGroupKey(d) == IF d \in Point THEN "select_device" ELSE "error"
AfterNoEncryption(d) == IF group_key = 0 THEN "no_group_key" ELSE "select_device"

\* get_group_key, then ecies_encrypt of what it returned.
AfterGroupKey(d) ==
  CASE group_key = 0 -> "no_group_key"
    [] group_key # 0 /\ d \notin Point -> "error"
    [] group_key # 0 /\ d \in Point -> "select_device"

GetGroupKey(t) ==
  /\ pc[t] = "get_group_key"
  /\ key' = [key EXCEPT ![t] = group_key]
  /\ Goto(t, AfterGroupKey(dev[t]))
  /\ UNCHANGED <<tables, keys, faults, dev, todo, listed>>

SelectDevice(t) ==
  /\ pc[t] = "select_device"
  /\ Goto(t, IF dev[t] \in devices THEN "update_device" ELSE "insert_device")
  /\ UNCHANGED <<tables, keys, faults, locals>>

DeviceUpdated(t) ==
  /\ encrypted_sk_comm' = [encrypted_sk_comm EXCEPT ![dev[t]] = key[t]]
  /\ UNCHANGED <<devices, banned_at, group_key, member_count, installed, todo>>

\* Mutant: is_new is ignored, and a re-registered device is counted again.
UpdateDeviceAsNew(t) ==
  /\ pc[t] = "update_device"
  /\ DeviceUpdated(t)
  /\ Goto(t, "increment")
  /\ UNCHANGED <<keys, faults, dev, key, listed>>

UpdateDevice(t) ==
  /\ pc[t] = "update_device"
  /\ DeviceUpdated(t)
  /\ Goto(t, "ok")
  /\ UNCHANGED <<keys, faults, dev, key, listed>>

DeviceInserted(t) ==
  /\ dev[t] \notin devices
  /\ devices' = devices \cup {dev[t]}
  /\ encrypted_sk_comm' = [encrypted_sk_comm EXCEPT ![dev[t]] = key[t]]
  /\ UNCHANGED <<banned_at, group_key, member_count, installed, todo>>

\* Mutant: is_new is read the wrong way round, and a new device is not counted.
InsertDeviceUncounted(t) ==
  /\ pc[t] = "insert_device"
  /\ DeviceInserted(t)
  /\ Goto(t, "ok")
  /\ UNCHANGED <<keys, faults, dev, key, listed>>

InsertDevice(t) ==
  /\ pc[t] = "insert_device"
  /\ DeviceInserted(t)
  /\ Goto(t, "increment")
  /\ UNCHANGED <<keys, faults, dev, key, listed>>

\* Another task inserted the row since SelectDevice: PRIMARY KEY conflict.
InsertDeviceConflict(t) ==
  /\ pc[t] = "insert_device"
  /\ dev[t] \in devices
  /\ Goto(t, "error")
  /\ UNCHANGED <<tables, keys, faults, locals>>

CountIncremented ==
  /\ member_count' = member_count + 1
  /\ UNCHANGED <<devices, banned_at, encrypted_sk_comm, group_key, installed, todo>>

IncrementMemberCount(t) ==
  /\ pc[t] = "increment"
  /\ CountIncremented
  /\ Goto(t, "ok")
  /\ UNCHANGED <<keys, faults, dev, key, listed>>
------------------------------------------------------------------------------
(* rotate_group_key_inner. *)

\* get_all_device_keys: the rows that are not banned.
ListDevices(t) ==
  /\ pc[t] = "list_devices"
  /\ listed' = [listed EXCEPT ![t] = devices \ banned_at]
  /\ todo' = [todo EXCEPT ![t] = devices \ banned_at]
  /\ Goto(t, IF devices \subseteq banned_at THEN "select_community" ELSE "rewrap_device")
  /\ UNCHANGED <<tables, keys, faults, dev, key>>

\* Mutant: the loop does not advance past the device.
DeviceRewrappedAgain(t, d) ==
  /\ encrypted_sk_comm' = [encrypted_sk_comm EXCEPT ![d] = key[t]]
  /\ UNCHANGED <<devices, banned_at, group_key, member_count, installed, todo>>

DeviceRewrapped(t, d) ==
  /\ encrypted_sk_comm' = [encrypted_sk_comm EXCEPT ![d] = key[t]]
  /\ todo' = [todo EXCEPT ![t] = @ \ {d}]
  /\ UNCHANGED <<devices, banned_at, group_key, member_count, installed>>

\* One turn of the loop over device_keys: ecies_encrypt, then the UPDATE.
RewrapDevice(t, d) ==
  /\ pc[t] = "rewrap_device"
  /\ d \in todo[t]
  /\ IF d \in Point
       THEN /\ DeviceRewrapped(t, d)
            /\ Goto(t, IF todo[t] = {d} THEN "select_community" ELSE "rewrap_device")
       ELSE Goto(t, "error") /\ UNCHANGED <<tables, todo>>
  /\ UNCHANGED <<keys, faults, dev, key, listed>>

\* Mutant: the row is always inserted, as if there were only one rotation.
SelectNoCommunity(t) ==
  /\ pc[t] = "select_community"
  /\ Goto(t, "insert_community")
  /\ UNCHANGED <<tables, keys, faults, locals>>

SelectCommunity(t) ==
  /\ pc[t] = "select_community"
  /\ Goto(t, IF group_key # 0 THEN "update_community" ELSE "insert_community")
  /\ UNCHANGED <<tables, keys, faults, locals>>

CommunityUpdated(t) ==
  /\ group_key' = key[t]
  /\ installed' = installed \cup {key[t]}
  /\ UNCHANGED <<devices, banned_at, encrypted_sk_comm, member_count, todo>>

UpdateCommunity(t) ==
  /\ pc[t] = "update_community"
  /\ CommunityUpdated(t)
  /\ Goto(t, "ok")
  /\ UNCHANGED <<keys, faults, dev, key, listed>>

CommunityInserted(t) ==
  /\ group_key = 0
  /\ group_key' = key[t]
  /\ installed' = installed \cup {key[t]}
  /\ member_count' = Cardinality(listed[t])
  /\ UNCHANGED <<devices, banned_at, encrypted_sk_comm, todo>>

InsertCommunity(t) ==
  /\ pc[t] = "insert_community"
  /\ CommunityInserted(t)
  /\ Goto(t, "ok")
  /\ UNCHANGED <<keys, faults, dev, key, listed>>

\* Another first rotation inserted the row since SelectCommunity.
InsertCommunityConflict(t) ==
  /\ pc[t] = "insert_community"
  /\ group_key # 0
  /\ Goto(t, "error")
  /\ UNCHANGED <<tables, keys, faults, locals>>
------------------------------------------------------------------------------
(* Faults. *)

\* A statement fails and changes nothing.  Every caller returns the error, except
\* check_banned, which answers false.
Fail(t) ==
  /\ pc[t] \in Statement
  /\ faults < MaxFaults
  /\ faults' = faults + 1
  /\ Goto(t, IF pc[t] = "check_banned" THEN "get_group_key" ELSE "error")
  /\ UNCHANGED <<tables, keys, locals>>

\* A remote database applies a write and its answer is lost.
LoseAnswer(t) ==
  /\ faults < MaxFaults
  /\ faults' = faults + 1
  /\ \/ pc[t] = "update_device" /\ DeviceUpdated(t)
     \/ pc[t] = "insert_device" /\ DeviceInserted(t)
     \/ pc[t] = "increment" /\ CountIncremented
     \/ pc[t] = "rewrap_device" /\ \E d \in todo[t] : DeviceRewrapped(t, d)
     \/ pc[t] = "update_community" /\ CommunityUpdated(t)
     \/ pc[t] = "insert_community" /\ CommunityInserted(t)
  /\ Goto(t, "error")
  /\ UNCHANGED <<keys, dev, key, listed>>

\* The task is dropped between two statements: its HTTP client went away
\* (freesky-admin gives up after 10 s) or the server stopped.
Cancel(t) ==
  /\ pc[t] \in Statement
  /\ faults < MaxFaults
  /\ faults' = faults + 1
  /\ Leave(t)
  /\ UNCHANGED <<tables, keys>>
------------------------------------------------------------------------------
RegisterStep(t) ==
  \/ SelectExisting(t) \/ CheckBanned(t) \/ GetGroupKey(t) \/ SelectDevice(t)
  \/ UpdateDevice(t) \/ InsertDevice(t) \/ InsertDeviceConflict(t)
  \/ IncrementMemberCount(t)

RotateStep(t) ==
  \/ ListDevices(t)
  \/ \E d \in Device : RewrapDevice(t, d)
  \/ SelectCommunity(t) \/ UpdateCommunity(t)
  \/ InsertCommunity(t) \/ InsertCommunityConflict(t)

\* What task t does once a request has started.
Serve(t) == RegisterStep(t) \/ RotateStep(t) \/ Reply(t)

Fault(t) == Fail(t) \/ LoseAnswer(t) \/ Cancel(t)

Request(t) ==
  \/ \E d \in Device, trusted \in BOOLEAN : Register(t, d, trusted)
  \/ \E d \in Device : EnsureRegistered(t, d)
  \/ RotateGroupKey(t)

Next ==
  \/ \E t \in Task : Request(t) \/ Serve(t) \/ Fault(t)
  \/ \E d \in Device, banned \in BOOLEAN : SetBanned(d, banned)

Spec == Init /\ [][Next]_vars

\* A started task is always scheduled again; requests and bans come as they may.
Fairness == \A t \in Task : WF_vars(Serve(t))
FairSpec == Spec /\ Fairness
------------------------------------------------------------------------------
(* What the statements promise together. *)

\* Tasks whose new row is in the table and not yet counted.
Pending == {t \in Task : pc[t] = "increment"}

\* Before the first rotation nobody is registered, and no registration has got
\* past get_group_key (README: every registration is rejected until then).
RegistrationNeedsKey ==
  group_key = 0 => devices = {} /\ Pending = {}

\* Concurrent and repeated registrations never count a device twice, and every row
\* is counted or about to be, but for one at most per fault (upsert_device's is_new).
MemberCount ==
  LET counted == member_count + Cardinality(Pending)
  IN  counted <= Cardinality(devices) /\ Cardinality(devices) <= counted + faults

\* Every stored device key can be encrypted to, so no row makes the loop of
\* rotate_group_key_inner fail for all the devices that come after it.
EveryDeviceCanBeRewrapped == devices \subseteq Point

\* Group keys that some device has a wrap of, that never came into force and that no
\* rotation in progress is going to install.
OrphanKeys ==
  {k \in {encrypted_sk_comm[d] : d \in devices} \ installed :
     ~ \E t \in Task : /\ pc[t] \in {"rewrap_device", "select_community", "update_community"}
                      /\ key[t] = k}

\* Each of them is due to a fault of its own: no interleaving of rotations and
\* registrations alone gives a device a wrap of a key that never comes into force,
\* and a rotation that is cut short strands its own key only.
OrphansNeedFaults == Cardinality(OrphanKeys) <= faults

\* The tables as one atomic registry: a row whose count is pending is counted.
Registry == INSTANCE Membership WITH
  members  <- devices,
  banned   <- banned_at,
  count    <- member_count + Cardinality(Pending),
  current  <- group_key,
  used     <- installed,
  failures <- faults

\* Each handler acts on the registry in one atomic step, and each failure does no
\* more to it than Membership allows.
ImplementsMembership == Registry!Spec

\* Every request is answered: no handler loops or waits for another one.
RequestsTerminate == \A t \in Task : pc[t] # "idle" ~> pc[t] = "idle"

\* routes.rs:100, "DB layer verifies ECDSA signature + checks ban": check_banned
\* refuses a device whose row is banned.
BannedIsRefused ==
  [][\A t \in Task : CheckBanned(t) /\ dev[t] \in banned_at => pc'[t] = "refused"]_vars

\* README.md:76, rotation re-encrypts the new key "for every registered device".
RotationReachesEveryDevice ==
  [][\A t \in Task : UpdateCommunity(t) =>
       \A d \in devices \ banned_at : encrypted_sk_comm'[d] = group_key']_vars
==============================================================================
