----------------------------- MODULE Approvals -----------------------------
(***************************************************************************)
(* igris-policy: the autonomy gate with its kill-switch and the store of   *)
(* approvals, and the FIELD backend through which operators decide them    *)
(* (apps/field-dioxus/src/backend.rs).                                     *)
(*                                                                         *)
(* The store is behind one mutex, and check_with_approval borrows it for   *)
(* the whole call.  The policy is a clone of the caller's, but the         *)
(* kill-switch is an atomic flag shared by every clone, so it may flip in  *)
(* the middle of a check.  The backend settles an approval under the mutex *)
(* and emits the event after it has let go.                                *)
(***************************************************************************)
EXTENDS Integers

CONSTANTS
  Ids,         \* approval ids
  Ttl,         \* Ttl[i]: the ttl given to `request` for i
  Levels,      \* the permission levels asked for, numbers as in PermissionLevel
  MaxAuto,     \* Policy.max_auto_level
  Clients,     \* callers of check_with_approval
  Operators,   \* concurrent callers of the backend's approve and deny
  MaxTime      \* bound on the clock

ASSUME TtlAssumption == Ttl \in [Ids -> Nat]
ASSUME LevelAssumption == Levels \subseteq 0..4 /\ MaxAuto \in 0..4
ASSUME TimeAssumption == MaxTime \in Nat

VARIABLES
  now,        \* Utc::now()
  items,      \* ApprovalStore.items ("None" until requested)
  kill,       \* KillSwitch.engaged
  autonomy,   \* Policy.autonomy
  call,       \* call[c]: the check_with_approval client c is in
  verdict,    \* verdict[c]: what its last one returned
  settled,    \* settled[o]: what operator o has settled and not yet announced
  emitted,    \* the <<request_id, approved>> of the ApprovalResolved events
  held        \* history: clients in a call during all of which the switch was on

vars == <<now, items, kill, autonomy, call, verdict, settled, emitted, held>>
store == <<now, items>>
policy == <<kill, autonomy>>
checks == <<call, verdict, held>>
backend == <<settled, emitted>>

Autonomy == {"Assist", "Operate", "Autonomous"}
ApprovalState == {"None", "Pending", "Approved", "Denied", "Expired"}
Approval == [state : ApprovalState, level : 0..4, expires : Nat]

NoApproval == [state |-> "None", level |-> 0, expires |-> 0]
NoCall == [at |-> "idle"]
Call == {NoCall} \cup
  [at : {"kill", "approval", "gate"}, id : Ids, level : Levels, risky : BOOLEAN, autonomy : Autonomy]
NoVerdict == [result |-> "none"]
Verdict == {NoVerdict} \cup
  [result : {"ok", "killed", "ask"}, id : Ids, level : Levels, risky : BOOLEAN,
   autonomy : Autonomy, killed : BOOLEAN]
NothingSettled == [approved |-> FALSE]
Settled == {NothingSettled} \cup [id : Ids, approved : BOOLEAN]

(***************************************************************************)
(* Faulty variants of definitions below: each is a plausible slip in the   *)
(* code, and shows that some property would notice it.                     *)
(***************************************************************************)
SettleAnyTime(its, i) == its[i].state = "Pending"
NotDenied(i) == items[i].state \notin {"Denied", "None"}
NeverKilled == FALSE

(***************************************************************************)
(* Policy and ApprovalStore.                                               *)
(***************************************************************************)
\* Policy::check, after the kill-switch: Ok without asking.
AutoApproved(mode, level, risky) ==
  /\ level <= MaxAuto
  /\ mode = "Autonomous" \/ (mode = "Operate" /\ ~risky)

\* expires_at of a new approval.
Deadline(i) == now + Ttl[i]

\* settle succeeds.
CanSettle(its, i) == its[i].state = "Pending" /\ now <= its[i].expires

\* ApprovalStore::sweep.
Swept(its, i) ==
  IF its[i].state = "Pending" /\ now > its[i].expires
  THEN [its EXCEPT ![i].state = "Expired"] ELSE its

\* is_approved, after its sweep.
IsApproved(i) == items[i].state = "Approved"

\* The `approved` of the event for a decision that settle took or refused.
Announced(approve, ok) == approve /\ ok

\* KillSwitch::is_engaged.
Engaged == kill

\* No check_with_approval holds the store.
StoreFree == \A c \in Clients : call[c] = NoCall

-----------------------------------------------------------------------------
Init ==
  /\ now = 0
  /\ items = [i \in Ids |-> NoApproval]
  /\ kill = FALSE /\ autonomy = "Assist"
  /\ call = [c \in Clients |-> NoCall]
  /\ verdict = [c \in Clients |-> NoVerdict]
  /\ settled = [o \in Operators |-> NothingSettled]
  /\ emitted = {}
  /\ held = {}

Tick ==
  /\ now < MaxTime
  /\ now' = now + 1
  /\ UNCHANGED <<items, policy, checks, backend>>

RequestApproval(i) ==
  /\ StoreFree
  /\ items[i].state = "None"
  /\ \E level \in Levels :
       items' = [items EXCEPT ![i] = [state |-> "Pending", level |-> level,
                                      expires |-> Deadline(i)]]
  /\ UNCHANGED <<now, policy, checks, backend>>

\* ApprovalStore::get.
Get(i) ==
  /\ StoreFree
  /\ items' = Swept(items, i)
  /\ UNCHANGED <<now, policy, checks, backend>>

(***************************************************************************)
(* FieldBackend::approve and deny: settle, then announce.                  *)
(***************************************************************************)
Decide(o, i, approve) ==
  /\ StoreFree
  /\ settled[o] = NothingSettled
  /\ items[i].state # "None"
  /\ items' = IF CanSettle(items, i)
              THEN [items EXCEPT ![i].state = IF approve THEN "Approved" ELSE "Denied"]
              ELSE items
  /\ settled' = [settled EXCEPT ![o] =
                   [id |-> i, approved |-> Announced(approve, CanSettle(items, i))]]
  /\ UNCHANGED <<now, policy, checks, emitted>>

Announce(o) ==
  /\ settled[o] # NothingSettled
  /\ emitted' = emitted \cup {<<settled[o].id, settled[o].approved>>}
  /\ settled' = [settled EXCEPT ![o] = NothingSettled]
  /\ UNCHANGED <<store, policy, checks>>

(***************************************************************************)
(* FieldBackend::set_autonomy, kill and revive.                            *)
(***************************************************************************)
SetAutonomy ==
  /\ autonomy' \in Autonomy \ {autonomy}
  /\ UNCHANGED <<store, kill, checks, backend>>

Kill ==
  /\ kill' = TRUE
  /\ UNCHANGED <<store, autonomy, checks, backend>>

Revive ==
  /\ kill' = FALSE
  /\ held' = {}
  /\ UNCHANGED <<store, autonomy, call, verdict, backend>>

(***************************************************************************)
(* check_with_approval, on a clone of the policy, whose autonomy the call  *)
(* keeps, and whose kill-switch it reads first and, in check, again.       *)
(***************************************************************************)
Return(c, result) ==
  LET q == call[c] IN
  /\ verdict' = [verdict EXCEPT ![c] =
                   [result |-> result, id |-> q.id, level |-> q.level, risky |-> q.risky,
                    autonomy |-> q.autonomy, killed |-> c \in held]]
  /\ call' = [call EXCEPT ![c] = NoCall]
  /\ held' = held \ {c}

CheckBegin(c) ==
  /\ StoreFree
  /\ \E i \in Ids, level \in Levels, risky \in BOOLEAN :
       call' = [call EXCEPT ![c] = [at |-> "kill", id |-> i, level |-> level,
                                    risky |-> risky, autonomy |-> autonomy]]
  /\ verdict' = [verdict EXCEPT ![c] = NoVerdict]
  /\ held' = IF kill THEN held \cup {c} ELSE held
  /\ UNCHANGED <<store, policy, backend>>

CheckKill(c) ==
  /\ call[c].at = "kill"
  /\ \/ Engaged /\ Return(c, "killed")
     \/ ~Engaged /\ call' = [call EXCEPT ![c].at = "approval"]
        /\ UNCHANGED <<verdict, held>>
  /\ UNCHANGED <<store, policy, backend>>

\* is_approved sweeps the approval first.
CheckApproval(c) ==
  /\ call[c].at = "approval"
  /\ items' = Swept(items, call[c].id)
  /\ \/ IsApproved(call[c].id) /\ Return(c, "ok")
     \/ ~IsApproved(call[c].id) /\ call' = [call EXCEPT ![c].at = "gate"]
        /\ UNCHANGED <<verdict, held>>
  /\ UNCHANGED <<now, policy, backend>>

CheckGate(c) ==
  LET q == call[c] IN
  /\ q.at = "gate"
  /\ \/ Engaged /\ Return(c, "killed")
     \/ ~Engaged /\ AutoApproved(q.autonomy, q.level, q.risky) /\ Return(c, "ok")
     \/ ~Engaged /\ ~AutoApproved(q.autonomy, q.level, q.risky) /\ Return(c, "ask")
  /\ UNCHANGED <<store, policy, backend>>

Next ==
  \/ Tick \/ SetAutonomy \/ Kill \/ Revive
  \/ \E i \in Ids : RequestApproval(i) \/ Get(i)
  \/ \E o \in Operators : Announce(o) \/ \E i \in Ids, yes \in BOOLEAN : Decide(o, i, yes)
  \/ \E c \in Clients : CheckBegin(c) \/ CheckKill(c) \/ CheckApproval(c) \/ CheckGate(c)

Spec == Init /\ [][Next]_vars

-----------------------------------------------------------------------------
(***************************************************************************)
(* Properties.                                                             *)
(***************************************************************************)
\* Every variable has its type.
TypeOK ==
  /\ now \in 0..MaxTime
  /\ items \in [Ids -> Approval]
  /\ kill \in BOOLEAN /\ autonomy \in Autonomy
  /\ call \in [Clients -> Call]
  /\ verdict \in [Clients -> Verdict]
  /\ settled \in [Operators -> Settled]
  /\ emitted \in SUBSET (Ids \X BOOLEAN)
  /\ held \in SUBSET Clients

\* A check during all of which the kill-switch was engaged grants nothing,
\* whatever was approved and wherever the switch was flipped around it.
NoGrantWhileKilled ==
  \A c \in Clients : verdict[c] # NoVerdict /\ verdict[c].result = "ok" => ~verdict[c].killed

\* What a check granted is backed by an operator's approval, taken in time and
\* never taken back, or allowed by the autonomy the policy had.
GrantIsBacked ==
  \A c \in Clients : verdict[c] # NoVerdict /\ verdict[c].result = "ok" =>
    \/ items[verdict[c].id].state = "Approved"
    \/ AutoApproved(verdict[c].autonomy, verdict[c].level, verdict[c].risky)

\* Approve, deny, expiry and the sweeps of readers race for an approval, and
\* the first decides it: what is decided stays decided, and a decision after
\* the deadline never becomes one.
FirstDecisionStands ==
  [][\A i \in Ids :
       items'[i] # items[i] =>
         \/ items[i].state = "None" /\ items'[i].state = "Pending"
         \/ /\ items[i].state = "Pending"
            /\ items'[i].state = "Expired" <=> now > items[i].expires]_vars

\* "Granted" is only ever announced of an approval that is approved, although
\* the event is emitted after the lock is released and operators race.
GrantedMeansApproved ==
  \A i \in Ids : <<i, TRUE>> \in emitted => items[i].state = "Approved"
=============================================================================
