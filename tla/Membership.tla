----------------------------- MODULE Membership -----------------------------
(***************************************************************************)
(* What a community promises: a registry in which a device joins and is    *)
(* counted in one step, nobody joins before there is a group key, a        *)
(* rotation replaces the key by one never used before, and nobody leaves.  *)
(* A failure can cost one member its count, and nothing else.              *)
(***************************************************************************)
EXTENDS Naturals, FiniteSets

CONSTANT Device

VARIABLES
  members,  \* registered devices
  banned,   \* members an admin has banned
  count,    \* the member count an admin is shown
  current,  \* the group key in force; 0 before the first rotation
  used,     \* every key that has been in force
  failures  \* statements that failed, answers lost, handlers dropped

vars == <<members, banned, count, current, used, failures>>

Init ==
  /\ members = {} /\ banned = {} /\ count = 0
  /\ current = 0 /\ used = {} /\ failures = 0

Joins(d) ==
  /\ current # 0
  /\ d \notin members
  /\ members' = members \cup {d}
  /\ UNCHANGED <<banned, current, used>>

Join(d) == Joins(d) /\ count' = count + 1 /\ UNCHANGED failures

Ban(d) ==
  /\ d \in members
  /\ banned' = banned \cup {d}
  /\ UNCHANGED <<members, count, current, used, failures>>

Unban(d) ==
  /\ d \in members
  /\ banned' = banned \ {d}
  /\ UNCHANGED <<members, count, current, used, failures>>

\* A rotation whose answer is lost is a rotation all the same.
Rotate ==
  /\ current' \in Nat \ {0}
  /\ current' \notin used
  /\ used' = used \cup {current'}
  /\ failures' \in {failures, failures + 1}
  /\ UNCHANGED <<members, banned, count>>

\* What a failure may do: keep a new member, or one that waits for it, from being
\* counted, or nothing.
JoinUncounted(d) == Joins(d) /\ failures' = failures + 1 /\ UNCHANGED count

LoseCount ==
  /\ count > 0
  /\ count' = count - 1
  /\ failures' = failures + 1
  /\ UNCHANGED <<members, banned, current, used>>

Fail ==
  /\ failures' = failures + 1
  /\ UNCHANGED <<members, banned, count, current, used>>

Next ==
  \/ \E d \in Device : Join(d) \/ Ban(d) \/ Unban(d) \/ JoinUncounted(d)
  \/ Rotate \/ LoseCount \/ Fail

Spec == Init /\ [][Next]_vars
=============================================================================
