------------------------------- MODULE Startup -------------------------------
(***************************************************************************)
(* How the server comes up, again and again: main and                      *)
(* load_or_generate_noise_key in server/src/main.rs, the schema and the    *)
(* comment trigger in queries.rs, the stored Noise key in db.rs.  systemd  *)
(* and docker restart the process whenever it ends; the database survives. *)
(***************************************************************************)
EXTENDS Naturals

CONSTANTS
  Key,        \* the Noise secret keys that SecretKey::random can draw
  NoKey,      \* no key: stored nowhere, known to nobody
  Client,     \* clients, which learn the server's key when they register
  Tables,     \* how many CREATE statements run_schema has
  MaxCrash,   \* bound: crashes
  MaxFaults   \* bound: statements that fail

ASSUME KeyAssumption == NoKey \notin Key
ASSUME StartupBoundAssumption == Tables \in Nat /\ MaxCrash \in Nat /\ MaxFaults \in Nat

VARIABLES
  phase,     \* the statement of main about to run
  created,   \* how many of run_schema's objects exist
  trigger,   \* validate_comment_parent exists
  stored,    \* server_config.noise_sk
  sk,        \* sk_server of the running process
  drawn,     \* history: the keys drawn so far
  known,     \* per client, the server_noise_pk of its registration
  crashes, faults

database == <<created, trigger, stored>>
vars == <<phase, database, sk, drawn, known, crashes, faults>>

Booting == {"schema", "drop_trigger", "create_trigger", "load_key", "store_key"}

TypeOK ==
  /\ phase \in {"down", "serving"} \cup Booting
  /\ created \in 0..Tables /\ trigger \in BOOLEAN
  /\ drawn \subseteq Key
  /\ stored \in drawn \cup {NoKey} /\ sk \in drawn \cup {NoKey}
  /\ known \in [Client -> drawn \cup {NoKey}]
  /\ crashes \in 0..MaxCrash /\ faults \in 0..MaxFaults

Init ==
  /\ phase = "down"
  /\ created = 0 /\ trigger = FALSE /\ stored = NoKey
  /\ sk = NoKey /\ drawn = {}
  /\ known = [c \in Client |-> NoKey]
  /\ crashes = 0 /\ faults = 0

\* The process ends and what it held in memory is gone.
Exit == phase' = "down" /\ sk' = NoKey
------------------------------------------------------------------------------
Start ==
  /\ phase = "down"
  /\ phase' = "schema"
  /\ UNCHANGED <<database, sk, drawn, known, crashes, faults>>

\* run_schema: CREATE ... IF NOT EXISTS, one after the other.
RunSchema ==
  /\ phase = "schema"
  /\ created' = Tables
  /\ phase' = "drop_trigger"
  /\ UNCHANGED <<trigger, stored, sk, drawn, known, crashes, faults>>

\* Mutant: the old trigger is not dropped.
KeepTrigger ==
  /\ phase = "drop_trigger"
  /\ phase' = "create_trigger"
  /\ UNCHANGED <<database, sk, drawn, known, crashes, faults>>

DropTrigger ==
  /\ phase = "drop_trigger"
  /\ trigger' = FALSE
  /\ phase' = "create_trigger"
  /\ UNCHANGED <<created, stored, sk, drawn, known, crashes, faults>>

\* CREATE TRIGGER has no IF NOT EXISTS: where the trigger is still there, it fails and
\* the process ends.
CreateTrigger ==
  /\ phase = "create_trigger"
  /\ IF trigger THEN Exit ELSE phase' = "load_key" /\ UNCHANGED sk
  /\ trigger' = TRUE
  /\ UNCHANGED <<created, stored, drawn, known, crashes, faults>>

DrawKey ==
  /\ \E k \in Key \ drawn : sk' = k /\ drawn' = drawn \cup {k}
  /\ phase' = "store_key"

\* Mutants: the key is served before it is stored; it is drawn anew on every start.
ServeUnstoredKey ==
  /\ phase = "load_key"
  /\ \E k \in Key \ drawn : sk' = k /\ drawn' = drawn \cup {k}
  /\ phase' = "serving"
  /\ UNCHANGED <<database, known, crashes, faults>>

DrawKeyAlways ==
  /\ phase = "load_key"
  /\ DrawKey
  /\ UNCHANGED <<database, known, crashes, faults>>

\* load_noise_key found a key, or found no row and a new key is drawn.
LoadKey ==
  /\ phase = "load_key"
  /\ IF stored # NoKey
       THEN sk' = stored /\ phase' = "serving" /\ UNCHANGED drawn
       ELSE DrawKey
  /\ UNCHANGED <<database, known, crashes, faults>>

\* store_noise_key: INSERT OR REPLACE.
StoreKey ==
  /\ phase = "store_key"
  /\ stored' = sk
  /\ phase' = "serving"
  /\ UNCHANGED <<created, trigger, sk, drawn, known, crashes, faults>>

\* The register handler answers with server_noise_pk.
RegisterClient(c) ==
  /\ phase = "serving"
  /\ known' = [known EXCEPT ![c] = sk]
  /\ UNCHANGED <<phase, database, sk, drawn, crashes, faults>>
------------------------------------------------------------------------------
(* A statement fails.  run_schema, CREATE TRIGGER and the INSERT end the process,  *)
(* the last two perhaps after the database has applied them; a failed DROP is      *)
(* ignored; and load_noise_key reports a failed SELECT as "no key stored".         *)

SchemaFails ==
  /\ phase = "schema"
  /\ created' \in created..Tables
  /\ Exit
  /\ UNCHANGED <<trigger, stored, drawn>>

DropFails ==
  /\ phase = "drop_trigger"
  /\ trigger' \in {trigger, FALSE}
  /\ phase' = "create_trigger"
  /\ UNCHANGED <<created, stored, sk, drawn>>

\* Mutant: let _ = in place of ?.
CreateFailureIgnored ==
  /\ phase = "create_trigger"
  /\ phase' = "load_key"
  /\ UNCHANGED <<database, sk, drawn>>

CreateFails ==
  /\ phase = "create_trigger"
  /\ trigger' \in {trigger, TRUE}
  /\ Exit
  /\ UNCHANGED <<created, stored, drawn>>

LoadFails ==
  /\ phase = "load_key"
  /\ DrawKey
  /\ UNCHANGED database

StoreFails ==
  /\ phase = "store_key"
  /\ stored' \in {stored, sk}
  /\ Exit
  /\ UNCHANGED <<created, trigger, drawn>>

Fault ==
  /\ faults < MaxFaults
  /\ faults' = faults + 1
  /\ SchemaFails \/ DropFails \/ CreateFails \/ LoadFails \/ StoreFails
  /\ UNCHANGED <<known, crashes>>

\* The process is killed or the machine stops, in the middle of run_schema, too; a
\* deployment restarts it as well.
Crash ==
  /\ phase # "down"
  /\ crashes < MaxCrash
  /\ crashes' = crashes + 1
  /\ created' \in IF phase = "schema" THEN created..Tables ELSE {created}
  /\ Exit
  /\ UNCHANGED <<trigger, stored, drawn, known, faults>>
------------------------------------------------------------------------------
Boot == Start \/ RunSchema \/ DropTrigger \/ CreateTrigger \/ LoadKey \/ StoreKey

Next == Boot \/ Fault \/ Crash \/ \E c \in Client : RegisterClient(c)

Spec == Init /\ [][Next]_vars

\* freesky-server.service: Restart=always; and main runs on.
FairSpec == Spec /\ WF_vars(Boot)
------------------------------------------------------------------------------
(* Properties. *)

\* No request is served without the tables and without the trigger that refuses
\* comments on posts that do not exist, although each start drops the trigger first.
ServesOnlyWhenReady == phase = "serving" => created = Tables /\ trigger

\* The key that clients are given is in the database, so that it outlives the process.
ServedKeyIsStored == phase = "serving" => sk = stored

\* Crashes alone, in the middle of a start or not, never take the server's identity
\* away from the clients that have learned it.
CrashesKeepIdentity == faults = 0 => \A c \in Client : known[c] \in {NoKey, stored}

\* The server is always going to serve again: no crash or failed statement leaves a
\* database with which it cannot start.
ServesAgain == []<>(phase = "serving")

\* README.md:68, "the server's identity is known to the client already (from
\* registration)".
IdentityStaysKnown == \A c \in Client : known[c] \in {NoKey, stored}
==============================================================================
