-------------------------- MODULE ApprovalsProofs --------------------------
(***************************************************************************)
(* Proofs about Approvals, for any approvals, deadlines, levels, clients   *)
(* and operators.                                                          *)
(*                                                                         *)
(* The store and the backend take care of themselves: an approval changes  *)
(* its state once (FirstDecisionStands), so that what an operator settled  *)
(* is still true when it is announced.  NoGrantWhileKilled rests on where  *)
(* a call can be while the switch stays on (HeldIsKilled).                 *)
(***************************************************************************)
EXTENDS Approvals, TLAPS

\* While the switch is on without a break, a client gets no further than the
\* first read of it.
HeldIsKilled == \A c \in held : kill /\ call[c].at = "kill"

\* A granted decision not announced yet, or announced, is of an approved
\* approval.
SettledIsTrue ==
  \A o \in Operators :
    settled[o] # NothingSettled /\ settled[o].approved => items[settled[o].id].state = "Approved"

-----------------------------------------------------------------------------
(***************************************************************************)
(* Type correctness.                                                       *)
(***************************************************************************)
LEMMA SweptType ==
  ASSUME NEW its \in [Ids -> Approval], NEW i \in Ids
  PROVE  Swept(its, i) \in [Ids -> Approval]
BY DEF Swept, Approval, ApprovalState

LEMMA CallRecord ==
  ASSUME NEW q \in Call, q # NoCall
  PROVE  /\ q.at \in {"kill", "approval", "gate"} /\ q.id \in Ids /\ q.level \in Levels
         /\ q.risky \in BOOLEAN /\ q.autonomy \in Autonomy
BY DEF Call

LEMMA InCall ==
  ASSUME TypeOK, NEW c \in Clients, call[c].at \in {"kill", "approval", "gate"}
  PROVE  call[c] \in Call /\ call[c] # NoCall
BY DEF TypeOK, NoCall

LEMMA ReturnType ==
  ASSUME TypeOK, NEW c \in Clients, NEW res \in {"ok", "killed", "ask"},
         call[c].at \in {"kill", "approval", "gate"}, Return(c, res)
  PROVE  /\ call' \in [Clients -> Call] /\ verdict' \in [Clients -> Verdict]
         /\ held' \in SUBSET Clients
<1>1. call[c].id \in Ids /\ call[c].level \in Levels /\ call[c].risky \in BOOLEAN
      /\ call[c].autonomy \in Autonomy
  BY InCall, CallRecord
<1>2. (c \in held) \in BOOLEAN
  OBVIOUS
<1> QED BY <1>1, <1>2 DEF Return, TypeOK, Verdict, Call

LEMMA StepCallType ==
  ASSUME TypeOK, NEW c \in Clients, NEW at \in {"approval", "gate"},
         call[c].at \in {"kill", "approval", "gate"}
  PROVE  [call EXCEPT ![c].at = at] \in [Clients -> Call]
<1>1. [call[c] EXCEPT !.at = at] \in Call
  BY InCall DEF Call
<1> QED BY <1>1 DEF TypeOK

LEMMA InitType == Init => TypeOK
<1> SUFFICES ASSUME Init PROVE TypeOK
  OBVIOUS
<1>1. now \in 0..MaxTime
  BY TimeAssumption DEF Init
<1>2. NoApproval \in Approval
  BY DEF NoApproval, Approval, ApprovalState
<1>3. NoCall \in Call /\ NoVerdict \in Verdict /\ NothingSettled \in Settled
  BY DEF Call, Verdict, Settled
<1>4. kill \in BOOLEAN /\ autonomy \in Autonomy
  BY DEF Init, Autonomy
<1>5. emitted \in SUBSET (Ids \X BOOLEAN) /\ held \in SUBSET Clients
  BY DEF Init
<1> QED BY <1>1, <1>2, <1>3, <1>4, <1>5 DEF Init, TypeOK

LEMMA NextType == TypeOK /\ [Next]_vars => TypeOK'
<1> SUFFICES ASSUME TypeOK, [Next]_vars PROVE TypeOK'
  OBVIOUS
<1> USE DEF store, policy, checks, backend
<1>1. ASSUME Tick PROVE TypeOK'
  BY <1>1, TimeAssumption DEF Tick, TypeOK
<1>2. ASSUME SetAutonomy \/ Kill \/ Revive PROVE TypeOK'
  BY <1>2 DEF SetAutonomy, Kill, Revive, TypeOK
<1>3. ASSUME NEW i \in Ids, RequestApproval(i) PROVE TypeOK'
  <2>1. PICK level \in Levels :
          items' = [items EXCEPT ![i] = [state |-> "Pending", level |-> level,
                                         expires |-> Deadline(i)]]
    BY <1>3 DEF RequestApproval
  <2>2. Deadline(i) \in Nat /\ level \in 0..4
    BY TtlAssumption, LevelAssumption, TimeAssumption DEF Deadline, TypeOK
  <2>3. [state |-> "Pending", level |-> level, expires |-> Deadline(i)] \in Approval
    BY <2>2 DEF Approval, ApprovalState
  <2> QED BY <1>3, <2>1, <2>3 DEF RequestApproval, TypeOK
<1>4. ASSUME NEW i \in Ids, Get(i) PROVE TypeOK'
  BY <1>4, SweptType DEF Get, TypeOK
<1>5. ASSUME NEW o \in Operators, Announce(o) PROVE TypeOK'
  <2>1. settled[o].id \in Ids /\ settled[o].approved \in BOOLEAN
    BY <1>5 DEF Announce, TypeOK, Settled
  <2> QED BY <1>5, <2>1 DEF Announce, TypeOK, Settled
<1>6. ASSUME NEW o \in Operators, NEW i \in Ids, NEW yes \in BOOLEAN, Decide(o, i, yes)
      PROVE  TypeOK'
  <2>1. Announced(yes, CanSettle(items, i)) \in BOOLEAN
    BY DEF Announced, CanSettle
  <2>2. items' \in [Ids -> Approval]
    BY <1>6 DEF Decide, TypeOK, Approval, ApprovalState
  <2> QED BY <1>6, <2>1, <2>2 DEF Decide, TypeOK, Settled
<1>7. ASSUME NEW c \in Clients, CheckBegin(c) PROVE TypeOK'
  <2>1. call' \in [Clients -> Call]
    BY <1>7 DEF CheckBegin, TypeOK, Call
  <2> QED BY <1>7, <2>1 DEF CheckBegin, TypeOK, Verdict
<1>8. ASSUME NEW c \in Clients, CheckKill(c) PROVE TypeOK'
  <2>1. CASE Return(c, "killed")
    BY <1>8, <2>1, ReturnType DEF CheckKill, TypeOK
  <2>2. CASE call' = [call EXCEPT ![c].at = "approval"] /\ UNCHANGED <<verdict, held>>
    BY <1>8, <2>2, StepCallType DEF CheckKill, TypeOK
  <2> QED BY <1>8, <2>1, <2>2 DEF CheckKill
<1>9. ASSUME NEW c \in Clients, CheckApproval(c) PROVE TypeOK'
  <2>1. items' \in [Ids -> Approval]
    BY <1>9, InCall, CallRecord, SweptType DEF CheckApproval, TypeOK
  <2>2. CASE Return(c, "ok")
    BY <1>9, <2>1, <2>2, ReturnType DEF CheckApproval, TypeOK
  <2>3. CASE call' = [call EXCEPT ![c].at = "gate"] /\ UNCHANGED <<verdict, held>>
    BY <1>9, <2>1, <2>3, StepCallType DEF CheckApproval, TypeOK
  <2> QED BY <1>9, <2>2, <2>3 DEF CheckApproval
<1>10. ASSUME NEW c \in Clients, CheckGate(c) PROVE TypeOK'
  <2>1. PICK res \in {"ok", "killed", "ask"} : Return(c, res)
    BY <1>10 DEF CheckGate
  <2> QED BY <1>10, <2>1, ReturnType DEF CheckGate, TypeOK
<1>11. CASE UNCHANGED vars
  BY <1>11 DEF vars, TypeOK
<1> QED
  BY <1>1, <1>2, <1>3, <1>4, <1>5, <1>6, <1>7, <1>8, <1>9, <1>10, <1>11 DEF Next

\* Every variable of the gate, the store and the backend keeps its type.
THEOREM TypeCorrect == Spec => []TypeOK
BY InitType, NextType, PTL DEF Spec

-----------------------------------------------------------------------------
(***************************************************************************)
(* The store: how an approval may change.                                  *)
(***************************************************************************)
\* The three ways an approval changes.
MayBecome(i) ==
  \/ items[i].state = "None" /\ items'[i].state = "Pending"
  \/ /\ items[i].state = "Pending" /\ items'[i].state \in {"Approved", "Denied"}
     /\ now <= items[i].expires
  \/ /\ items[i].state = "Pending" /\ items'[i].state = "Expired"
     /\ now > items[i].expires

LEMMA SweptChange ==
  ASSUME TypeOK, NEW j \in Ids, items' = Swept(items, j), NEW i \in Ids, items'[i] # items[i]
  PROVE  MayBecome(i)
<1>1. items[j].state = "Pending" /\ now > items[j].expires
      /\ items' = [items EXCEPT ![j].state = "Expired"]
  BY DEF Swept
<1>2. i = j
  BY <1>1 DEF TypeOK
<1>3. items'[i].state = "Expired"
  BY <1>1, <1>2 DEF TypeOK, Approval
<1> QED BY <1>1, <1>2, <1>3 DEF MayBecome

LEMMA Change ==
  ASSUME TypeOK, [Next]_vars, NEW i \in Ids, items'[i] # items[i]
  PROVE  MayBecome(i)
<1> USE DEF store, policy, checks, backend
<1>1. ASSUME NEW j \in Ids, RequestApproval(j) PROVE MayBecome(i)
  <2>1. PICK level \in Levels :
          items' = [items EXCEPT ![j] = [state |-> "Pending", level |-> level,
                                         expires |-> Deadline(j)]]
    BY <1>1 DEF RequestApproval
  <2>2. i = j /\ items'[i].state = "Pending"
    BY <2>1 DEF TypeOK
  <2> QED BY <1>1, <2>2 DEF RequestApproval, MayBecome
<1>2. ASSUME NEW j \in Ids, Get(j) PROVE MayBecome(i)
  BY <1>2, SweptChange DEF Get
<1>3. ASSUME NEW o \in Operators, NEW j \in Ids, NEW yes \in BOOLEAN, Decide(o, j, yes)
      PROVE  MayBecome(i)
  <2>1. CanSettle(items, j)
        /\ items' = [items EXCEPT ![j].state = IF yes THEN "Approved" ELSE "Denied"]
    BY <1>3 DEF Decide
  <2>2. i = j
    BY <2>1 DEF TypeOK
  <2>3. items'[i].state \in {"Approved", "Denied"}
    BY <2>1, <2>2 DEF TypeOK, Approval
  <2> QED BY <2>1, <2>2, <2>3 DEF CanSettle, MayBecome
<1>4. ASSUME NEW c \in Clients, CheckApproval(c) PROVE MayBecome(i)
  BY <1>4, InCall, CallRecord, SweptChange DEF CheckApproval
<1> QED
  BY <1>1, <1>2, <1>3, <1>4
  DEF Next, vars, Tick, SetAutonomy, Kill, Revive, Announce, CheckBegin, CheckKill, CheckGate

LEMMA ApprovedStays ==
  ASSUME TypeOK, [Next]_vars, NEW i \in Ids, items[i].state = "Approved"
  PROVE  items'[i].state = "Approved"
BY Change DEF MayBecome

\* Approve, deny, expiry and sweeps: the first decision of an approval, taken in
\* time, is the only one.
THEOREM OneDecision == Spec => FirstDecisionStands
<1>1. TypeOK /\ [Next]_vars =>
        [\A i \in Ids :
           items'[i] # items[i] =>
             \/ items[i].state = "None" /\ items'[i].state = "Pending"
             \/ /\ items[i].state = "Pending"
                /\ items'[i].state = "Expired" <=> now > items[i].expires]_vars
  <2> SUFFICES ASSUME TypeOK, [Next]_vars, NEW i \in Ids, items'[i] # items[i]
               PROVE  \/ items[i].state = "None" /\ items'[i].state = "Pending"
                      \/ /\ items[i].state = "Pending"
                         /\ items'[i].state = "Expired" <=> now > items[i].expires
    OBVIOUS
  <2>1. now \in Nat /\ items[i].expires \in Nat
    BY TimeAssumption DEF TypeOK, Approval
  <2> QED BY <2>1, Change DEF MayBecome
<1> QED BY <1>1, TypeCorrect, PTL DEF Spec, FirstDecisionStands

-----------------------------------------------------------------------------
(***************************************************************************)
(* The backend: what is announced.                                         *)
(***************************************************************************)
LEMMA SettledKept ==
  ASSUME TypeOK, [Next]_vars, SettledIsTrue, GrantedMeansApproved
  PROVE  SettledIsTrue' /\ GrantedMeansApproved'
<1> USE DEF store, policy, checks, backend
<1>1. \A i \in Ids : items[i].state = "Approved" => items'[i].state = "Approved"
  BY ApprovedStays
<1>2. \A o \in Operators : settled[o] # NothingSettled => settled[o].id \in Ids
  BY DEF TypeOK, Settled
<1>3. CASE UNCHANGED backend
  BY <1>1, <1>2, <1>3 DEF SettledIsTrue, GrantedMeansApproved
<1>4. ASSUME NEW o \in Operators, Announce(o)
      PROVE  SettledIsTrue' /\ GrantedMeansApproved'
  <2>1. settled[o].id \in Ids /\ settled[o] # NothingSettled
    BY <1>2, <1>4 DEF Announce
  <2>2. \A p \in Operators : settled'[p] = settled[p] \/ settled'[p] = NothingSettled
    BY <1>4 DEF Announce, TypeOK
  <2>3. SettledIsTrue'
    BY <1>1, <1>2, <2>2 DEF SettledIsTrue
  <2>4. ASSUME NEW i \in Ids, <<i, TRUE>> \in emitted' PROVE items'[i].state = "Approved"
    <3>1. CASE <<i, TRUE>> \in emitted
      BY <1>1, <3>1 DEF GrantedMeansApproved
    <3>2. CASE <<i, TRUE>> = <<settled[o].id, settled[o].approved>>
      <4>1. i = settled[o].id /\ settled[o].approved
        BY <3>2
      <4> QED BY <1>1, <2>1, <4>1 DEF SettledIsTrue
    <3> QED BY <1>4, <2>4, <3>1, <3>2 DEF Announce
  <2> QED BY <2>3, <2>4 DEF GrantedMeansApproved
<1>5. ASSUME NEW o \in Operators, NEW i \in Ids, NEW yes \in BOOLEAN, Decide(o, i, yes)
      PROVE  SettledIsTrue' /\ GrantedMeansApproved'
  <2>1. ASSUME NEW p \in Operators, settled'[p] # NothingSettled, settled'[p].approved
        PROVE  items'[settled'[p].id].state = "Approved"
    <3>1. CASE p = o
      <4>1. settled'[p] = [id |-> i, approved |-> Announced(yes, CanSettle(items, i))]
        BY <1>5, <3>1 DEF Decide, TypeOK
      <4>2. Announced(yes, CanSettle(items, i))
        BY <2>1, <4>1
      <4>3. yes /\ CanSettle(items, i) /\ settled'[p].id = i
        BY <4>1, <4>2 DEF Announced
      <4> QED BY <1>5, <4>3 DEF Decide, TypeOK, Approval
    <3>2. CASE p # o
      <4>1. settled'[p] = settled[p]
        BY <1>5, <3>2 DEF Decide, TypeOK
      <4> QED BY <1>1, <1>2, <2>1, <4>1 DEF SettledIsTrue
    <3> QED BY <3>1, <3>2
  <2>2. UNCHANGED emitted
    BY <1>5 DEF Decide
  <2> QED BY <1>1, <2>1, <2>2 DEF SettledIsTrue, GrantedMeansApproved
<1> QED
  BY <1>3, <1>4, <1>5
  DEF Next, vars, Tick, SetAutonomy, Kill, Revive, RequestApproval, Get, CheckBegin,
      CheckKill, CheckApproval, CheckGate

\* A granted approval that was announced is approved, whatever the operators do
\* between a decision and its announcement.
THEOREM AnnouncementsAreTrue == Spec => []GrantedMeansApproved
<1> DEFINE I == TypeOK /\ SettledIsTrue /\ GrantedMeansApproved
<1>1. Init => I
  BY InitType DEF Init, SettledIsTrue, GrantedMeansApproved
<1>2. I /\ [Next]_vars => I'
  BY NextType, SettledKept
<1> QED BY <1>1, <1>2, PTL DEF Spec

-----------------------------------------------------------------------------
(***************************************************************************)
(* The gate.                                                               *)
(***************************************************************************)
LEMMA ReturnKeepsHeld ==
  ASSUME TypeOK, HeldIsKilled, NEW c \in Clients, NEW res, Return(c, res), UNCHANGED kill
  PROVE  HeldIsKilled'
<1>1. \A d \in held' : d # c /\ d \in held /\ d \in Clients
  BY DEF Return, TypeOK
<1>2. \A d \in held' : call'[d] = call[d]
  BY <1>1 DEF Return, TypeOK
<1> QED BY <1>1, <1>2 DEF HeldIsKilled

LEMMA HeldKept ==
  ASSUME TypeOK, [Next]_vars, HeldIsKilled
  PROVE  HeldIsKilled'
<1> USE DEF store, policy, checks, backend
<1>1. ASSUME NEW c \in Clients, NEW at, c \notin held,
             call' = [call EXCEPT ![c].at = at], UNCHANGED <<held, kill>>
      PROVE  HeldIsKilled'
  BY <1>1 DEF HeldIsKilled, TypeOK
<1>2. ASSUME NEW c \in Clients, CheckKill(c) PROVE HeldIsKilled'
  BY <1>1, <1>2, ReturnKeepsHeld DEF CheckKill, Engaged, HeldIsKilled
<1>3. ASSUME NEW c \in Clients, CheckApproval(c) PROVE HeldIsKilled'
  BY <1>1, <1>3, ReturnKeepsHeld DEF CheckApproval, HeldIsKilled
<1>4. ASSUME NEW c \in Clients, CheckGate(c) PROVE HeldIsKilled'
  BY <1>4, ReturnKeepsHeld DEF CheckGate
<1>5. ASSUME NEW c \in Clients, CheckBegin(c) PROVE HeldIsKilled'
  <2>1. call'[c].at = "kill"
    BY <1>5 DEF CheckBegin, TypeOK
  <2>2. \A d \in Clients : d # c => call'[d] = call[d]
    BY <1>5 DEF CheckBegin, TypeOK
  <2> QED BY <1>5, <2>1, <2>2 DEF CheckBegin, HeldIsKilled, TypeOK
<1>6. ASSUME Kill \/ Revive PROVE HeldIsKilled'
  BY <1>6 DEF Kill, Revive, HeldIsKilled
<1>7. CASE UNCHANGED <<kill, call, held>>
  BY <1>7 DEF HeldIsKilled
<1> QED
  BY <1>2, <1>3, <1>4, <1>5, <1>6, <1>7
  DEF Next, vars, Tick, SetAutonomy, RequestApproval, Get, Decide, Announce

\* A grant is given by the approval or by the gate.
LEMMA Grants ==
  ASSUME TypeOK, HeldIsKilled, [Next]_vars, NEW d \in Clients,
         verdict'[d] # verdict[d], verdict'[d] # NoVerdict, verdict'[d].result = "ok"
  PROVE  /\ ~verdict'[d].killed
         /\ \/ items'[verdict'[d].id].state = "Approved"
            \/ AutoApproved(verdict'[d].autonomy, verdict'[d].level, verdict'[d].risky)
<1> USE DEF store, policy, checks, backend
<1>1. ASSUME NEW c \in Clients, NEW res, Return(c, res)
      PROVE  /\ d = c /\ res = "ok" /\ verdict'[d].id = call[c].id
             /\ verdict'[d].level = call[c].level /\ verdict'[d].risky = call[c].risky
             /\ verdict'[d].autonomy = call[c].autonomy
             /\ c \notin held => ~verdict'[d].killed
  <2>1. d = c
    BY <1>1 DEF Return, TypeOK
  <2>2. verdict'[d] =
          [result |-> res, id |-> call[c].id, level |-> call[c].level,
           risky |-> call[c].risky, autonomy |-> call[c].autonomy, killed |-> c \in held]
    BY <1>1, <2>1 DEF Return, TypeOK
  <2>3. res = "ok" /\ verdict'[d].id = call[c].id
        /\ verdict'[d].level = call[c].level /\ verdict'[d].autonomy = call[c].autonomy
    BY <2>2
  <2>4. verdict'[d].risky = call[c].risky
    BY <2>2
  <2>5. ASSUME c \notin held PROVE ~verdict'[d].killed
    <3>1. (c \in held) = FALSE
      BY <2>5
    <3>2. verdict'[d].killed = (c \in held)
      BY <2>2
    <3> QED BY <3>1, <3>2
  <2> QED BY <2>1, <2>3, <2>4, <2>5
<1>2. ASSUME NEW c \in Clients, CheckBegin(c) PROVE FALSE
  BY <1>2 DEF CheckBegin, TypeOK
<1>3. ASSUME NEW c \in Clients, CheckKill(c) PROVE FALSE
  <2>1. Return(c, "killed")
    BY <1>3 DEF CheckKill
  <2> QED BY <1>1, <2>1
<1>4. ASSUME NEW c \in Clients, CheckApproval(c)
      PROVE  ~verdict'[d].killed /\ items'[verdict'[d].id].state = "Approved"
  <2>1. Return(c, "ok") /\ IsApproved(call[c].id)
    BY <1>4 DEF CheckApproval
  <2>2. c \notin held
    BY <1>4 DEF CheckApproval, HeldIsKilled
  <2>3. items[call[c].id].state = "Approved" /\ call[c].id \in Ids
    BY <1>4, <2>1, InCall, CallRecord DEF CheckApproval, IsApproved
  <2>4. items'[call[c].id].state = "Approved"
    BY <2>3, ApprovedStays
  <2> QED BY <1>1, <2>1, <2>2, <2>4
<1>5. ASSUME NEW c \in Clients, CheckGate(c)
      PROVE  /\ ~verdict'[d].killed
             /\ AutoApproved(verdict'[d].autonomy, verdict'[d].level, verdict'[d].risky)
  <2>1. c \notin held
    BY <1>5 DEF CheckGate, HeldIsKilled
  <2>2. Return(c, "ok") /\ AutoApproved(call[c].autonomy, call[c].level, call[c].risky)
    BY <1>1, <1>5 DEF CheckGate
  <2> QED BY <1>1, <2>1, <2>2
<1> QED
  BY <1>2, <1>3, <1>4, <1>5
  DEF Next, vars, Tick, SetAutonomy, Kill, Revive, RequestApproval, Get, Decide, Announce

LEMMA GrantsKept ==
  ASSUME TypeOK, HeldIsKilled, [Next]_vars, NoGrantWhileKilled, GrantIsBacked
  PROVE  NoGrantWhileKilled' /\ GrantIsBacked'
<1> SUFFICES ASSUME NEW d \in Clients, verdict'[d] # NoVerdict, verdict'[d].result = "ok"
             PROVE  /\ ~verdict'[d].killed
                    /\ \/ items'[verdict'[d].id].state = "Approved"
                       \/ AutoApproved(verdict'[d].autonomy, verdict'[d].level, verdict'[d].risky)
  BY DEF NoGrantWhileKilled, GrantIsBacked
<1>1. CASE verdict'[d] = verdict[d]
  <2>1. verdict[d].id \in Ids
    BY <1>1 DEF TypeOK, Verdict
  <2> QED BY <1>1, <2>1, ApprovedStays DEF NoGrantWhileKilled, GrantIsBacked
<1>2. CASE verdict'[d] # verdict[d]
  BY <1>2, Grants
<1> QED BY <1>1, <1>2

LEMMA GateInvariant ==
  Spec => [](TypeOK /\ HeldIsKilled /\ NoGrantWhileKilled /\ GrantIsBacked)
<1> DEFINE I == TypeOK /\ HeldIsKilled /\ NoGrantWhileKilled /\ GrantIsBacked
<1>1. Init => I
  BY InitType DEF Init, HeldIsKilled, NoGrantWhileKilled, GrantIsBacked
<1>2. I /\ [Next]_vars => I'
  BY NextType, HeldKept, GrantsKept
<1> QED BY <1>1, <1>2, PTL DEF Spec

\* A check all of which the kill-switch was engaged for grants nothing.
THEOREM KilledGrantsNothing == Spec => []NoGrantWhileKilled
BY GateInvariant, PTL

\* Every grant is backed by an approval that stands, or by the autonomy.
THEOREM GrantsAreBacked == Spec => []GrantIsBacked
BY GateInvariant, PTL

=============================================================================
