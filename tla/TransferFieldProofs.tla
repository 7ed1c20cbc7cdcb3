------------------------- MODULE TransferFieldProofs -------------------------
(***************************************************************************)
(* Proofs about the session that receives files (Transfer) and about the   *)
(* FIELD shell (Field, the second half of the module).                     *)
(*                                                                         *)
(* The safety properties of Transfer, for any offer, any number of         *)
(* concurrent requests and any bounds.  TypeOK strengthens all of them;    *)
(* OnlyByApproval makes NothingBeforeApproval and CompletedIsEarned        *)
(* inductive, and ReadIsPrefix makes ClosedIsStored so.                    *)
(***************************************************************************)
EXTENDS Transfer, Field, FiniteSetTheorems, SequenceTheorems, TLAPS

\* What the server has read of a file is how the file still begins: parts are
\* only ever appended, so a verdict on the bytes read holds of the file later.
ReadIsPrefix ==
  \A r \in Requests : request[r].at = "judge" =>
    /\ request[r].file \in created
    /\ Len(request[r].bytes) <= Len(disk[request[r].file])
    /\ SubSeq(disk[request[r].file], 1, Len(request[r].bytes)) = request[r].bytes

\* Only an approved session gets past AwaitingApproval, but for denial and
\* expiry.
OnlyByApproval ==
  session \in {"Transferring", "Completed", "Failed"} => "Transferring" \in announced

-----------------------------------------------------------------------------
(***************************************************************************)
(* Type correctness.                                                       *)
(***************************************************************************)
\* A request at a stage has the fields of that stage.
LEMMA RequestFields ==
  ASSUME NEW q \in Request
  PROVE  /\ q.at \in {"open", "write"} => q.file \in Files /\ q.part \in Nat
         /\ q.at = "judge" => q.file \in Files /\ q.bytes \in Seq(Nat)
         /\ q.at \notin {"open", "write", "judge"} => q = NoRequest
BY DEF Request, NoRequest

\* The requests the handlers make are requests.
LEMMA RequestTypes ==
  /\ NoRequest \in Request
  /\ \A f \in Files, p \in Nat : Uploading("open", f, p) \in Request
  /\ \A q \in Request : q.at = "open" => [q EXCEPT !.at = "write"] \in Request
  /\ \A f \in Files, b \in Seq(Nat) : Completing(f, b) \in Request
BY DEF Request, NoRequest, Uploading, Completing

\* Types hold at first.
LEMMA InitType == Init => TypeOK
<1> SUFFICES ASSUME Init PROVE TypeOK
  OBVIOUS
<1>1. request \in [Requests -> Request]
  BY RequestTypes DEF Init
<1>2. disk \in [Files -> Seq(Nat)]
  BY DEF Init
<1> QED
  BY <1>1, <1>2 DEF Init, TypeOK, SessionState

\* Every step keeps the types.
LEMMA StepType == TypeOK /\ [Next]_vars => TypeOK'
<1> SUFFICES ASSUME TypeOK, [Next]_vars PROVE TypeOK'
  OBVIOUS
<1> USE SizeAssumption
<1>1. CASE Prepare \/ Confirm \/ Deny \/ Tick \/ Sweep
  <2>1. UNCHANGED <<received, created, disk, request, closed>>
    BY <1>1 DEF Prepare, Confirm, Deny, Tick, Sweep
  <2>2. session' \in SessionState
    BY <1>1 DEF Prepare, Confirm, Deny, Tick, Sweep, TypeOK, SessionState, Terminal
  <2>3. age' \in 0..2
    BY <1>1 DEF Prepare, Confirm, Deny, Tick, Sweep, TypeOK
  <2>4. announced' \in SUBSET {"Transferring", "Denied", "Completed", "Failed"}
    BY <1>1 DEF Prepare, Confirm, Deny, Tick, Sweep, TypeOK
  <2> QED
    BY <2>1, <2>2, <2>3, <2>4 DEF TypeOK
<1>2. ASSUME NEW r \in Requests, UploadGate(r) PROVE TypeOK'
  <2>1. PICK f \in Files : \E p \in 1..Size[f] :
          received' = Noted(f) /\ request' = [request EXCEPT ![r] = Uploading("open", f, p)]
    BY <1>2 DEF UploadGate
  <2>a. PICK p \in 1..Size[f] :
          received' = Noted(f) /\ request' = [request EXCEPT ![r] = Uploading("open", f, p)]
    BY <2>1
  <2>2. Uploading("open", f, p) \in Request
    BY RequestTypes
  <2> QED
    BY <1>2, <2>a, <2>2 DEF UploadGate, Noted, TypeOK
<1>3. ASSUME NEW r \in Requests, UploadOpen(r) PROVE TypeOK'
  <2>1. request[r] \in Request
    BY DEF TypeOK
  <2>2. request[r].file \in Files /\ [request[r] EXCEPT !.at = "write"] \in Request
    BY <1>3, <2>1, RequestFields, RequestTypes DEF UploadOpen
  <2> QED
    BY <1>3, <2>2 DEF UploadOpen, TypeOK
<1>4. ASSUME NEW r \in Requests, UploadWrite(r) PROVE TypeOK'
  <2>1. request[r] \in Request
    BY DEF TypeOK
  <2>2. request[r].file \in Files /\ request[r].part \in Nat
    BY <1>4, <2>1, RequestFields DEF UploadWrite
  <2>3. Appended(request[r].file, request[r].part) \in Seq(Nat)
    BY <2>2 DEF Appended, TypeOK
  <2> QED
    BY <1>4, <2>2, <2>3, RequestTypes DEF UploadWrite, TypeOK
<1>5. ASSUME NEW r \in Requests, CompleteRead(r) PROVE TypeOK'
  <2>1. PICK f \in created : request' = [request EXCEPT ![r] = Completing(f, disk[f])]
    BY <1>5 DEF CompleteRead
  <2>2. Completing(f, disk[f]) \in Request
    BY RequestTypes DEF TypeOK
  <2> QED
    BY <1>5, <2>1, <2>2 DEF CompleteRead, TypeOK
<1>6. ASSUME NEW r \in Requests, CompleteOk(r) PROVE TypeOK'
  <2>1. request[r] \in Request
    BY DEF TypeOK
  <2>2. request[r].file \in Files
    BY <1>6, <2>1, RequestFields DEF CompleteOk
  <2> QED
    BY <1>6, <2>2, RequestTypes DEF CompleteOk, TypeOK, SessionState, Terminal
<1>7. ASSUME NEW r \in Requests, CompleteErr(r) \/ GiveUp(r) PROVE TypeOK'
  BY <1>7, RequestTypes DEF CompleteErr, GiveUp, TypeOK, SessionState, Terminal
<1>8. CASE UNCHANGED vars
  BY <1>8 DEF vars, TypeOK
<1> QED
  BY <1>1, <1>2, <1>3, <1>4, <1>5, <1>6, <1>7, <1>8 DEF Next

\* Every variable has its type, in every reachable state.
THEOREM TypeCorrect == Spec => []TypeOK
BY InitType, StepType, PTL DEF Spec

-----------------------------------------------------------------------------
(***************************************************************************)
(* Approval comes first.                                                   *)
(***************************************************************************)
LEMMA InitApproval == Init => NothingBeforeApproval /\ OnlyByApproval
BY DEF Init, NothingBeforeApproval, OnlyByApproval

\* A step that stores, notes or starts anything needs an approved session or
\* something stored before.
LEMMA StepApproval ==
  ASSUME TypeOK, NothingBeforeApproval, OnlyByApproval, [Next]_vars
  PROVE  NothingBeforeApproval' /\ OnlyByApproval'
<1>1. CASE Prepare \/ Confirm \/ Deny \/ Tick \/ Sweep
  <2>1. UNCHANGED <<received, created, disk, request, closed>>
    BY <1>1 DEF Prepare, Confirm, Deny, Tick, Sweep
  <2>2. announced \subseteq announced'
    BY <1>1 DEF Prepare, Confirm, Deny, Tick, Sweep
  <2>3. OnlyByApproval'
    BY <1>1 DEF Prepare, Confirm, Deny, Tick, Sweep, OnlyByApproval
  <2> QED
    BY <2>1, <2>2, <2>3 DEF NothingBeforeApproval
<1>2. ASSUME NEW r \in Requests, UploadGate(r)
      PROVE  NothingBeforeApproval' /\ OnlyByApproval'
  BY <1>2 DEF UploadGate, MayNote, NothingBeforeApproval, OnlyByApproval
<1>3. ASSUME NEW r \in Requests,
             UploadOpen(r) \/ UploadWrite(r) \/ GiveUp(r) \/ CompleteOk(r) \/ CompleteErr(r)
      PROVE  NothingBeforeApproval' /\ OnlyByApproval'
  <2>1. request[r] # NoRequest
    BY <1>3 DEF UploadOpen, UploadWrite, GiveUp, CompleteOk, CompleteErr, NoRequest
  <2>2. "Transferring" \in announced
    BY <2>1 DEF NothingBeforeApproval
  <2>3. announced \subseteq announced'
    BY <1>3 DEF UploadOpen, UploadWrite, GiveUp, CompleteOk, CompleteErr
  <2> QED
    BY <2>2, <2>3 DEF NothingBeforeApproval, OnlyByApproval
<1>4. ASSUME NEW r \in Requests, CompleteRead(r)
      PROVE  NothingBeforeApproval' /\ OnlyByApproval'
  BY <1>4 DEF CompleteRead, NothingBeforeApproval, OnlyByApproval
<1>5. CASE UNCHANGED vars
  BY <1>5 DEF vars, NothingBeforeApproval, OnlyByApproval
<1> QED
  BY <1>1, <1>2, <1>3, <1>4, <1>5 DEF Next

\* No byte of a session is noted, in flight or stored before it is approved.
THEOREM ApprovalComesFirst == Spec => []NothingBeforeApproval
<1> DEFINE I == TypeOK /\ NothingBeforeApproval /\ OnlyByApproval
<1>1. Init => I
  BY InitType, InitApproval
<1>2. I /\ [Next]_vars => I'
  BY StepType, StepApproval
<1>3. I => NothingBeforeApproval
  OBVIOUS
<1> QED
  BY <1>1, <1>2, <1>3, PTL DEF Spec

\* A terminal state is never left: every handler checks the state under the
\* lock under which it acts.
THEOREM NoTerminalIsLeft == Spec => TerminalIsFinal
<1>1. [Next]_vars => [(session \in Terminal) => session' = session]_vars
  BY DEF Next, vars, Terminal, Prepare, Confirm, Deny, Tick, Sweep, Stale, UploadGate,
         UploadOpen, UploadWrite, GiveUp, CompleteRead, CompleteOk, CompleteErr, MayComplete
<1> QED
  BY <1>1, PTL DEF Spec, TerminalIsFinal

-----------------------------------------------------------------------------
(***************************************************************************)
(* What was judged stays stored.                                           *)
(***************************************************************************)
\* Appending leaves what the sequence began with.
LEMMA PrefixKept ==
  ASSUME NEW s \in Seq(Nat), NEW p \in Nat, NEW n \in 0..Len(s)
  PROVE  /\ Append(s, p) \in Seq(Nat) /\ Len(Append(s, p)) = Len(s) + 1
         /\ SubSeq(Append(s, p), 1, n) = SubSeq(s, 1, n)
OBVIOUS

\* A file on the disk stays as it is or grows by one part.
LEMMA DiskGrows ==
  ASSUME TypeOK, [Next]_vars, NEW f \in Files
  PROVE  \/ disk'[f] = disk[f]
         \/ \E p \in Nat : disk'[f] = Append(disk[f], p)
<1>1. ASSUME NEW r \in Requests, UploadWrite(r)
      PROVE  disk'[f] = disk[f] \/ \E p \in Nat : disk'[f] = Append(disk[f], p)
  <2>1. request[r] \in Request
    BY DEF TypeOK
  <2>2. request[r].file \in Files /\ request[r].part \in Nat
    BY <1>1, <2>1, RequestFields DEF UploadWrite
  <2>3. disk' = [disk EXCEPT ![request[r].file] = Append(disk[request[r].file], request[r].part)]
    BY <1>1 DEF UploadWrite, Appended
  <2> QED
    BY <2>2, <2>3 DEF TypeOK
<1>2. CASE UNCHANGED disk
  BY <1>2
<1> QED
  BY <1>1, <1>2 DEF Next, vars, Prepare, Confirm, Deny, Tick, Sweep, UploadGate,
                    UploadOpen, GiveUp, CompleteRead, CompleteOk, CompleteErr

\* A prefix of a file stays a prefix of it.
LEMMA PrefixStays ==
  ASSUME TypeOK, [Next]_vars, NEW f \in Files, NEW n \in 0..Len(disk[f])
  PROVE  n \in 0..Len(disk'[f]) /\ SubSeq(disk'[f], 1, n) = SubSeq(disk[f], 1, n)
<1>1. disk[f] \in Seq(Nat)
  BY DEF TypeOK
<1>2. CASE disk'[f] = disk[f]
  BY <1>2
<1>3. ASSUME NEW p \in Nat, disk'[f] = Append(disk[f], p)
      PROVE  n \in 0..Len(disk'[f]) /\ SubSeq(disk'[f], 1, n) = SubSeq(disk[f], 1, n)
  BY <1>1, <1>3, PrefixKept
<1> QED
  BY <1>2, <1>3, DiskGrows

\* The files created stay, and a request to judge is new or as it was.
LEMMA JudgedBefore ==
  ASSUME TypeOK, [Next]_vars, NEW r \in Requests, request'[r].at = "judge"
  PROVE  /\ created \subseteq created'
         /\ \/ request'[r] = request[r]
            \/ disk' = disk /\ \E f \in created : request'[r] = Completing(f, disk[f])
<1>1. ASSUME NEW q \in Requests, UploadGate(q)
      PROVE  created' = created /\ request'[r] = request[r]
  BY <1>1 DEF UploadGate, Uploading, TypeOK
<1>2. ASSUME NEW q \in Requests, UploadOpen(q)
      PROVE  created \subseteq created' /\ request'[r] = request[r]
  <2>1. request[q] \in Request /\ request'[q] = [request[q] EXCEPT !.at = "write"]
    BY <1>2 DEF UploadOpen, TypeOK
  <2>2. request[q].at = "open"
    BY <1>2 DEF UploadOpen
  <2>3. request'[q].at = "write"
    BY <2>1, <2>2 DEF Request, NoRequest
  <2> QED
    BY <1>2, <2>3 DEF UploadOpen, TypeOK
<1>3. ASSUME NEW q \in Requests,
             UploadWrite(q) \/ GiveUp(q) \/ CompleteOk(q) \/ CompleteErr(q)
      PROVE  created' = created /\ request'[r] = request[r]
  BY <1>3 DEF UploadWrite, GiveUp, CompleteOk, CompleteErr, NoRequest, TypeOK
<1>4. ASSUME NEW q \in Requests, CompleteRead(q)
      PROVE  /\ created' = created /\ disk' = disk
             /\ \/ request'[r] = request[r]
                \/ \E f \in created : request'[r] = Completing(f, disk[f])
  BY <1>4 DEF CompleteRead, TypeOK
<1>5. CASE UNCHANGED <<created, request>>
  BY <1>5
<1> QED
  BY <1>1, <1>2, <1>3, <1>4, <1>5 DEF Next, vars, Prepare, Confirm, Deny, Tick, Sweep

\* What the server has read stays how the file begins.
LEMMA StepPrefix ==
  ASSUME TypeOK, ReadIsPrefix, [Next]_vars
  PROVE  ReadIsPrefix'
<1> SUFFICES ASSUME NEW r \in Requests, request'[r].at = "judge"
             PROVE  /\ request'[r].file \in created'
                    /\ Len(request'[r].bytes) <= Len(disk'[request'[r].file])
                    /\ SubSeq(disk'[request'[r].file], 1, Len(request'[r].bytes))
                         = request'[r].bytes
  BY DEF ReadIsPrefix
<1>1. CASE request'[r] = request[r]
  <2>1. request[r] \in Request /\ request[r].at = "judge"
    BY <1>1 DEF TypeOK
  <2>2. request[r].file \in Files /\ request[r].bytes \in Seq(Nat)
    BY <2>1, RequestFields
  <2> DEFINE f == request[r].file
             n == Len(request[r].bytes)
  <2>3. f \in created /\ n <= Len(disk[f]) /\ SubSeq(disk[f], 1, n) = request[r].bytes
    BY <2>1 DEF ReadIsPrefix
  <2>4. disk[f] \in Seq(Nat)
    BY <2>2 DEF TypeOK
  <2>5. n \in 0..Len(disk[f])
    BY <2>2, <2>3, <2>4
  <2>6. n \in 0..Len(disk'[f]) /\ SubSeq(disk'[f], 1, n) = SubSeq(disk[f], 1, n)
    BY <2>2, <2>5, PrefixStays
  <2>7. Len(disk'[f]) \in Nat
    BY <2>2, StepType DEF TypeOK
  <2>8. n <= Len(disk'[f])
    BY <2>6, <2>7
  <2> QED
    BY <1>1, <2>3, <2>6, <2>8, JudgedBefore
<1>2. ASSUME disk' = disk, NEW f \in created, request'[r] = Completing(f, disk[f])
      PROVE  /\ request'[r].file \in created'
             /\ Len(request'[r].bytes) <= Len(disk'[request'[r].file])
             /\ SubSeq(disk'[request'[r].file], 1, Len(request'[r].bytes)) = request'[r].bytes
  <2>1. request'[r].file = f /\ request'[r].bytes = disk[f]
    BY <1>2 DEF Completing
  <2>2. disk[f] \in Seq(Nat)
    BY <1>2 DEF TypeOK
  <2>3. SubSeq(disk[f], 1, Len(disk[f])) = disk[f]
    BY <2>2, SubSeqFull
  <2>4. Len(disk[f]) <= Len(disk[f])
    BY <2>2
  <2> QED
    BY <1>2, <2>1, <2>3, <2>4, JudgedBefore
<1> QED
  BY <1>1, <1>2, JudgedBefore

\* Closing a file checks what was read of it, and what was read is stored.
LEMMA StepClosed ==
  ASSUME TypeOK, ReadIsPrefix, ClosedIsStored, [Next]_vars
  PROVE  ClosedIsStored'
<1> USE SizeAssumption, FilesAssumption
<1> DEFINE Stored(f) == Len(disk[f]) >= Size[f] /\ SubSeq(disk[f], 1, Size[f]) = Content(f)
<1>1. ASSUME NEW f \in Files, Stored(f) PROVE Stored(f)'
  <2>1. disk[f] \in Seq(Nat) /\ Size[f] \in Nat
    BY DEF TypeOK
  <2>2. Size[f] \in 0..Len(disk[f])
    BY <1>1, <2>1
  <2>3. Size[f] \in 0..Len(disk'[f]) /\ SubSeq(disk'[f], 1, Size[f]) = SubSeq(disk[f], 1, Size[f])
    BY <2>2, PrefixStays
  <2>4. Len(disk'[f]) \in Nat
    BY StepType DEF TypeOK
  <2>5. Len(disk'[f]) >= Size[f]
    BY <2>1, <2>3, <2>4
  <2> QED
    BY <1>1, <2>3, <2>5 DEF Content
<1>2. ASSUME NEW r \in Requests, CompleteOk(r) PROVE ClosedIsStored'
  <2> DEFINE f == request[r].file
  <2>1. request[r] \in Request /\ request[r].at = "judge"
    BY <1>2 DEF CompleteOk, TypeOK
  <2>2. f \in Files /\ request[r].bytes \in Seq(Nat)
    BY <2>1, RequestFields
  <2>3. closed' = closed \cup {f} /\ disk' = disk
    BY <1>2 DEF CompleteOk
  <2>4. f \in Checked => Stored(f)
    <3>1. SUFFICES ASSUME f \in Checked PROVE Stored(f)
      OBVIOUS
    <3>2. request[r].bytes = Content(f)
      BY <1>2, <3>1 DEF CompleteOk, ChecksumMatches
    <3>3. Size[f] \in Nat /\ Len(Content(f)) = Size[f]
      BY <2>2 DEF Content
    <3>4. /\ Len(request[r].bytes) <= Len(disk[f])
          /\ SubSeq(disk[f], 1, Len(request[r].bytes)) = request[r].bytes
      BY <2>1 DEF ReadIsPrefix
    <3>5. disk[f] \in Seq(Nat)
      BY <2>2 DEF TypeOK
    <3> QED
      BY <3>2, <3>3, <3>4, <3>5
  <2> HIDE DEF f
  <2>5. \A g \in closed' \cap Checked : Stored(g)
    BY <2>3, <2>4 DEF ClosedIsStored
  <2> QED
    BY <2>3, <2>5 DEF ClosedIsStored, Content
<1>3. ASSUME closed' = closed PROVE ClosedIsStored'
  <2>1. \A f \in closed \cap Checked : Stored(f)
    BY DEF ClosedIsStored
  <2>2. \A f \in closed' \cap Checked : Stored(f)'
    BY <1>1, <1>3, <2>1
  <2> QED
    BY <2>2 DEF ClosedIsStored
<1> QED
  BY <1>2, <1>3 DEF Next, vars, Prepare, Confirm, Deny, Tick, Sweep, UploadGate,
                    UploadOpen, UploadWrite, GiveUp, CompleteRead, CompleteErr

\* A file closed with a checksum is stored, whole and in order, and stays so.
THEOREM ClosedFilesAreStored == Spec => []ClosedIsStored
<1> DEFINE I == TypeOK /\ ReadIsPrefix /\ ClosedIsStored
<1>1. Init => I
  BY InitType DEF Init, ReadIsPrefix, ClosedIsStored, NoRequest
<1>2. I /\ [Next]_vars => I'
  BY StepType, StepPrefix, StepClosed
<1>3. I => ClosedIsStored
  OBVIOUS
<1> QED
  BY <1>1, <1>2, <1>3, PTL DEF Spec

-----------------------------------------------------------------------------
(***************************************************************************)
(* Completion.                                                             *)
(***************************************************************************)
\* Only complete makes a session Completed, and after that nothing is noted.
LEMMA StepEarned ==
  ASSUME TypeOK, OnlyByApproval, CompletedIsEarned, [Next]_vars
  PROVE  CompletedIsEarned'
<1>1. CASE Prepare \/ Confirm \/ Deny \/ Tick \/ Sweep
  <2>1. session' = "Completed" => session = "Completed"
    BY <1>1 DEF Prepare, Confirm, Deny, Tick, Sweep
  <2>2. received' = received /\ closed' = closed /\ announced \subseteq announced'
    BY <1>1 DEF Prepare, Confirm, Deny, Tick, Sweep
  <2> QED
    BY <2>1, <2>2 DEF CompletedIsEarned, AllConfirmed
<1>2. ASSUME NEW r \in Requests, UploadGate(r) PROVE CompletedIsEarned'
  BY <1>2 DEF UploadGate, MayNote, CompletedIsEarned
<1>3. ASSUME NEW r \in Requests,
             UploadOpen(r) \/ UploadWrite(r) \/ GiveUp(r) \/ CompleteRead(r)
      PROVE  CompletedIsEarned'
  BY <1>3 DEF UploadOpen, UploadWrite, GiveUp, CompleteRead, CompletedIsEarned, AllConfirmed
<1>4. ASSUME NEW r \in Requests, CompleteErr(r) PROVE CompletedIsEarned'
  BY <1>4 DEF CompleteErr, CompletedIsEarned, AllConfirmed
<1>5. ASSUME NEW r \in Requests, CompleteOk(r) PROVE CompletedIsEarned'
  <2>1. "Transferring" \in announced'
    BY <1>5 DEF CompleteOk, MayComplete, OnlyByApproval
  <2>2. closed' # {}
    BY <1>5 DEF CompleteOk
  <2>3. session' = "Completed" => AllConfirmed(received')
    BY <1>5 DEF CompleteOk, MayComplete
  <2> QED
    BY <2>1, <2>2, <2>3 DEF CompletedIsEarned, AllConfirmed
<1>6. CASE UNCHANGED vars
  BY <1>6 DEF vars, CompletedIsEarned, AllConfirmed
<1> QED
  BY <1>1, <1>2, <1>3, <1>4, <1>5, <1>6 DEF Next

\* A Completed session was approved, some file of it was closed, and all the
\* bytes of the others were noted.
THEOREM CompletionIsEarned == Spec => []CompletedIsEarned
<1> DEFINE I == TypeOK /\ NothingBeforeApproval /\ OnlyByApproval /\ CompletedIsEarned
<1>1. Init => I
  BY InitType, InitApproval DEF Init, CompletedIsEarned
<1>2. I /\ [Next]_vars => I'
  BY StepType, StepApproval, StepEarned
<1>3. I => CompletedIsEarned
  OBVIOUS
<1> QED
  BY <1>1, <1>2, <1>3, PTL DEF Spec

-----------------------------------------------------------------------------
(***************************************************************************)
(* Every byte is accounted for.                                            *)
(***************************************************************************)
\* There are finitely many parts on their way to a file, and their number
\* does not grow when some of them go.
LEMMA PendingCount ==
  ASSUME NEW f
  PROVE  /\ IsFiniteSet(Pending(f)) /\ Cardinality(Pending(f)) \in Nat
         /\ \A T \in SUBSET Pending(f) :
              Cardinality(T) \in Nat /\ Cardinality(T) <= Cardinality(Pending(f))
<1>1. Pending(f) \in SUBSET Requests
  BY DEF Pending
<1>2. IsFiniteSet(Pending(f))
  BY <1>1, RequestsAssumption, FS_Subset
<1>3. \A T \in SUBSET Pending(f) :
        IsFiniteSet(T) /\ Cardinality(T) <= Cardinality(Pending(f))
  BY <1>2, FS_Subset
<1> QED
  BY <1>2, <1>3, FS_CardinalityType

\* The inequality of BytesAccounted, of one file.
Accounted(f) == Len(disk[f]) + Cardinality(Pending(f)) <= received[f]

\* A step that leaves the file and its count alone, and starts no upload.
LEMMA FewerPending ==
  ASSUME TypeOK, NEW f \in Files, Accounted(f),
         disk'[f] = disk[f], received'[f] = received[f], Pending(f)' \subseteq Pending(f)
  PROVE  Accounted(f)'
<1>1. Cardinality(Pending(f)') \in Nat /\ Cardinality(Pending(f)') <= Cardinality(Pending(f))
  BY PendingCount
<1>2. Len(disk[f]) \in Nat /\ received[f] \in Nat /\ Cardinality(Pending(f)) \in Nat
  BY PendingCount DEF TypeOK
<1> QED
  BY <1>1, <1>2 DEF Accounted

\* A body is noted before it is written, and written once at most.
LEMMA StepAccounted ==
  ASSUME TypeOK, BytesAccounted, [Next]_vars
  PROVE  BytesAccounted'
<1> SUFFICES ASSUME NEW f \in Files, f \notin closed' PROVE Accounted(f)'
  BY DEF BytesAccounted, Accounted
<1>a. closed \subseteq closed'
  BY DEF Next, vars, Prepare, Confirm, Deny, Tick, Sweep, UploadGate, UploadOpen,
         UploadWrite, GiveUp, CompleteRead, CompleteOk, CompleteErr
<1>b. Accounted(f)
  BY <1>a DEF BytesAccounted, Accounted
<1>c. /\ Len(disk[f]) \in Nat /\ received[f] \in Nat
      /\ Cardinality(Pending(f)) \in Nat /\ IsFiniteSet(Pending(f))
  BY PendingCount DEF TypeOK
<1>1. ASSUME NEW r \in Requests, UploadGate(r) PROVE Accounted(f)'
  <2>1. PICK g \in Files : \E p \in 1..Size[g] :
          /\ received' = Noted(g)
          /\ request' = [request EXCEPT ![r] = Uploading("open", g, p)]
    BY <1>1 DEF UploadGate
  <2>2. PICK p \in 1..Size[g] :
          /\ received' = Noted(g)
          /\ request' = [request EXCEPT ![r] = Uploading("open", g, p)]
    BY <2>1
  <2>3. request[r] = NoRequest /\ disk' = disk
    BY <1>1 DEF UploadGate
  <2>4. request'[r].at = "open" /\ request'[r].file = g
    BY <2>2 DEF Uploading, TypeOK
  <2>5. \A q \in Requests : q # r => request'[q] = request[q]
    BY <2>2 DEF TypeOK
  <2>6. CASE f = g
    <3>1. r \notin Pending(f)
      BY <2>3 DEF Pending, NoRequest
    <3>2. Pending(f)' = Pending(f) \cup {r}
      BY <2>4, <2>5, <2>6, <3>1 DEF Pending
    <3>3. Cardinality(Pending(f)') = Cardinality(Pending(f)) + 1
      BY <1>c, <3>1, <3>2, FS_AddElement
    <3>4. received'[f] = received[f] + 1
      BY <2>2, <2>6 DEF Noted, TypeOK
    <3> QED
      BY <1>b, <1>c, <2>3, <3>3, <3>4 DEF Accounted
  <2>7. CASE f # g
    <3>1. Pending(f)' \subseteq Pending(f)
      BY <2>4, <2>5, <2>7 DEF Pending
    <3>2. received'[f] = received[f]
      BY <2>2, <2>7 DEF Noted, TypeOK
    <3> QED
      BY <1>b, <2>3, <3>1, <3>2, FewerPending
  <2> QED
    BY <2>6, <2>7
<1>2. ASSUME NEW r \in Requests, UploadOpen(r) PROVE Accounted(f)'
  <2>1. /\ request[r] \in Request /\ request[r].at = "open"
        /\ request' = [request EXCEPT ![r].at = "write"]
        /\ disk' = disk /\ received' = received
    BY <1>2 DEF UploadOpen, TypeOK
  <2>2. request'[r].at = "write" /\ request'[r].file = request[r].file
    BY <2>1 DEF TypeOK, Request, NoRequest
  <2>3. \A q \in Requests : q # r => request'[q] = request[q]
    BY <2>1 DEF TypeOK
  <2>4. Pending(f)' \subseteq Pending(f)
    BY <2>1, <2>2, <2>3 DEF Pending
  <2> QED
    BY <1>b, <2>1, <2>4, FewerPending
<1>3. ASSUME NEW r \in Requests, UploadWrite(r) PROVE Accounted(f)'
  <2>1. /\ request[r] \in Request /\ request[r].at = "write"
        /\ request' = [request EXCEPT ![r] = NoRequest]
        /\ received' = received
    BY <1>3 DEF UploadWrite, TypeOK
  <2>2. request[r].file \in Files /\ request[r].part \in Nat
    BY <2>1, RequestFields
  <2>3. disk' = [disk EXCEPT ![request[r].file] = Append(disk[request[r].file], request[r].part)]
    BY <1>3 DEF UploadWrite, Appended
  <2>4. \A q \in Requests : q # r => request'[q] = request[q]
    BY <2>1 DEF TypeOK
  <2>5. request'[r] = NoRequest
    BY <2>1 DEF TypeOK
  <2>6. CASE f = request[r].file
    <3>1. r \in Pending(f)
      BY <2>1, <2>6 DEF Pending
    <3>2. Pending(f)' = Pending(f) \ {r}
      BY <2>4, <2>5 DEF Pending, NoRequest
    <3>3. Cardinality(Pending(f)') = Cardinality(Pending(f)) - 1
      BY <1>c, <3>1, <3>2, FS_RemoveElement
    <3>4. disk[f] \in Seq(Nat) /\ disk'[f] = Append(disk[f], request[r].part)
      BY <2>3, <2>6 DEF TypeOK
    <3>5. Len(disk'[f]) = Len(disk[f]) + 1
      BY <2>2, <3>4
    <3> QED
      BY <1>b, <1>c, <2>1, <3>3, <3>5 DEF Accounted
  <2>7. CASE f # request[r].file
    <3>1. disk'[f] = disk[f]
      BY <2>3, <2>7 DEF TypeOK
    <3>2. Pending(f)' \subseteq Pending(f)
      BY <2>4, <2>5 DEF Pending, NoRequest
    <3> QED
      BY <1>b, <2>1, <3>1, <3>2, FewerPending
  <2> QED
    BY <2>6, <2>7
<1>4. ASSUME NEW r \in Requests, GiveUp(r) \/ CompleteErr(r) PROVE Accounted(f)'
  <2>1. disk' = disk /\ received' = received /\ request' = [request EXCEPT ![r] = NoRequest]
    BY <1>4 DEF GiveUp, CompleteErr
  <2>2. Pending(f)' \subseteq Pending(f)
    BY <2>1 DEF Pending, NoRequest, TypeOK
  <2> QED
    BY <1>b, <2>1, <2>2, FewerPending
<1>5. ASSUME NEW r \in Requests, CompleteRead(r) PROVE Accounted(f)'
  <2>1. PICK g \in created : request' = [request EXCEPT ![r] = Completing(g, disk[g])]
    BY <1>5 DEF CompleteRead
  <2>2. Pending(f)' \subseteq Pending(f)
    BY <2>1 DEF Pending, Completing, TypeOK
  <2> QED
    BY <1>5, <1>b, <2>2, FewerPending DEF CompleteRead
<1>6. ASSUME NEW r \in Requests, CompleteOk(r) PROVE Accounted(f)'
  <2>1. /\ request' = [request EXCEPT ![r] = NoRequest] /\ disk' = disk
        /\ received' = [received EXCEPT ![request[r].file] = Size[request[r].file]]
        /\ request[r].file \in closed'
    BY <1>6 DEF CompleteOk
  <2>2. received'[f] = received[f]
    BY <2>1 DEF TypeOK
  <2>3. Pending(f)' \subseteq Pending(f)
    BY <2>1 DEF Pending, NoRequest, TypeOK
  <2> QED
    BY <1>b, <2>1, <2>2, <2>3, FewerPending
<1>7. CASE UNCHANGED <<disk, received, request>>
  BY <1>7, <1>b, FewerPending DEF Pending
<1> QED
  BY <1>1, <1>2, <1>3, <1>4, <1>5, <1>6, <1>7
     DEF Next, vars, Prepare, Confirm, Deny, Tick, Sweep

\* No body reaches the disk that was not noted first, however the handlers
\* interleave and fail.
THEOREM EveryByteIsAccounted == Spec => []BytesAccounted
<1> DEFINE I == TypeOK /\ BytesAccounted
<1>1. Init => I
  <2> SUFFICES ASSUME Init PROVE BytesAccounted
    BY InitType
  <2>1. \A f \in Files : Pending(f) = {}
    BY DEF Init, Pending, NoRequest
  <2>2. \A f \in Files : Cardinality(Pending(f)) = 0
    BY <2>1, FS_EmptySet
  <2>3. \A f \in Files : Len(disk[f]) = 0 /\ received[f] = 0
    BY DEF Init
  <2> QED
    BY <2>2, <2>3 DEF BytesAccounted
<1>2. I /\ [Next]_vars => I'
  BY StepType, StepAccounted
<1>3. I => BytesAccounted
  OBVIOUS
<1> QED
  BY <1>1, <1>2, <1>3, PTL DEF Spec

-----------------------------------------------------------------------------
(***************************************************************************)
(* Field.                                                                  *)
(***************************************************************************)
\* One sweep is under way at most, and what it found it found after the last
\* merge: so it may overwrite whatever the registry holds.
SweepsAreFresh ==
  /\ \A v, w \in Sweeps : sweep[v].at = "sweeping" /\ sweep[w].at = "sweeping" => v = w
  /\ \A w \in Sweeps : sweep[w].at = "sweeping" => scanning
  /\ \A w \in Sweeps : sweep[w].at = "idle" => sweep[w] = Idle
  /\ \A w \in Sweeps, d \in Devices : sweep[w].found[d] # Unseen =>
       newest[d] <= sweep[w].found[d] /\ sweep[w].found[d] <= now
  /\ \A d \in Devices : newest[d] <= now

\* Until it subscribes, the timeline has the seed's lines alone.
SeededFirst == reader = Closed => \A i \in DOMAIN items : ~FromBus(items[i])

FieldInv ==
  /\ FieldTypeOK
  /\ SweepsAreFresh /\ RegistryIsLatest
  /\ SeededFirst /\ TimelineHasNoHole

Time == {Unseen} \cup 0..MaxTime
SweepRecord == [at : {"idle", "sweeping"}, todo : SUBSET Hosts, flying : SUBSET Hosts,
                found : [Devices -> Time]]
Line == [from : {"telemetry", "bus"}, n : 1..MaxEvents]

(***************************************************************************)
(* Sweeps.                                                                 *)
(***************************************************************************)
LEMMA Caps ==
  /\ ItemCap \in Nat /\ ItemCap > 0 /\ KeepCap \in Nat /\ Timeout \in Nat
  /\ SeedCap \in Nat /\ SeedCap <= ItemCap
<1>1. ItemCap \in Nat \ {0} /\ KeepCap \in Nat \ {0} /\ Timeout \in Nat \ {0}
  BY CapAssumption
<1> QED BY <1>1, CapAssumption

LEMMA FieldTypes ==
  ASSUME FieldTypeOK
  PROVE  /\ now \in 0..MaxTime /\ now \in Nat
         /\ sweep \in [Sweeps -> SweepRecord]
         /\ seen \in [Devices -> Time] /\ newest \in [Devices -> Time]
         /\ sent \in 1..MaxEvents /\ recorded \in 1..MaxEvents /\ MaxEvents \in Nat
         /\ items \in Seq(Line) /\ Len(items) <= ItemCap
<1>1. now \in 0..MaxTime /\ now \in Nat
  <2>1. now \in 0..MaxTime
    BY DEF FieldTypeOK
  <2> QED BY <2>1, BoundAssumption
<1>2. sent \in 1..MaxEvents /\ recorded \in 1..MaxEvents /\ MaxEvents \in Nat
  BY BoundAssumption DEF FieldTypeOK
<1>3. sweep \in [Sweeps -> SweepRecord]
  BY DEF FieldTypeOK, SweepRecord, Time
<1>4. seen \in [Devices -> Time] /\ newest \in [Devices -> Time]
  BY DEF FieldTypeOK, Time
<1>5. items \in Seq(Line) /\ Len(items) <= ItemCap
  BY DEF FieldTypeOK, Line
<1> QED BY <1>1, <1>2, <1>3, <1>4, <1>5

LEMMA SweepType == FieldTypeOK => sweep \in [Sweeps -> SweepRecord] /\ \A w \in Sweeps : sweep[w] \in SweepRecord
BY DEF FieldTypeOK, SweepRecord, Time

LEMMA IdleType == Idle \in SweepRecord /\ Idle.at = "idle" /\ \A d \in Devices : Idle.found[d] = Unseen
BY DEF Idle, SweepRecord, Time, Empty

LEMMA LaunchedFacts ==
  ASSUME NEW s \in SweepRecord, NEW h \in Hosts
  PROVE  /\ Launched(s, h) \in SweepRecord
         /\ Launched(s, h).at = s.at /\ Launched(s, h).found = s.found
BY DEF Launched, SweepRecord

LEMMA FailedFacts ==
  ASSUME NEW s \in SweepRecord, NEW h \in Hosts
  PROVE  /\ Failed(s, h) \in SweepRecord
         /\ Failed(s, h).at = s.at /\ Failed(s, h).found = s.found
BY DEF Failed, SweepRecord

LEMMA AnsweredFacts ==
  ASSUME NEW s \in SweepRecord, NEW h \in Hosts, now \in 0..MaxTime
  PROVE  /\ Answered(s, h) \in SweepRecord /\ Answered(s, h).at = s.at
         /\ Answered(s, h).found = [s.found EXCEPT ![Of[h]] = now]
<1> DEFINE f == Failed(s, h)
<1>1. f \in SweepRecord /\ f.at = s.at /\ f.found = s.found
  BY FailedFacts
<1>2. Of[h] \in Devices /\ now \in Time
  BY HostAssumption DEF Time
<1>3. Answered(s, h) = [f EXCEPT !.found = [f.found EXCEPT ![Of[h]] = now]]
  BY <1>1 DEF Answered, SweepRecord
<1> HIDE DEF f
<1>4. f.found \in [Devices -> Time]
  BY <1>1 DEF SweepRecord
<1>5. [f.found EXCEPT ![Of[h]] = now] \in [Devices -> Time]
  BY <1>2, <1>4
<1> QED BY <1>1, <1>3, <1>5 DEF SweepRecord

LEMMA PrunedType ==
  ASSUME NEW r \in [Devices -> Time] PROVE Pruned(r) \in [Devices -> Time]
BY DEF Pruned, Time

LEMMA MergedType ==
  ASSUME FieldTypeOK, NEW f \in [Devices -> Time] PROVE Merged(f) \in [Devices -> Time]
<1>1. [d \in Devices |-> IF f[d] # Unseen THEN f[d] ELSE seen[d]] \in [Devices -> Time]
  BY DEF FieldTypeOK, Time
<1> QED BY <1>1, PrunedType DEF Merged

(***************************************************************************)
(* The timeline's lines.                                                   *)
(***************************************************************************)
LEMMA RecentLines ==
  ASSUME FieldTypeOK
  PROVE  /\ Recent(SeedCap) \in Seq(Line) /\ Len(Recent(SeedCap)) <= ItemCap
         /\ \A i \in DOMAIN Recent(SeedCap) : ~FromBus(Recent(SeedCap)[i])
<1> DEFINE k == MinOf(SeedCap, MinOf(recorded, KeepCap))
<1>1. /\ SeedCap \in Nat /\ ItemCap \in Nat /\ SeedCap <= ItemCap /\ KeepCap \in Nat
      /\ recorded \in 1..MaxEvents
  BY Caps, FieldTypes
<1>2. k \in Nat /\ k <= SeedCap /\ k <= recorded
  BY <1>1, BoundAssumption DEF MinOf
<1>3. Recent(SeedCap) = [i \in 1..k |-> Entry(recorded - i + 1)]
  BY DEF Recent
<1> HIDE DEF k
<1>4. \A i \in 1..k : recorded - i + 1 \in 1..MaxEvents
  BY <1>1, <1>2, BoundAssumption
<1>5. \A i \in 1..k : Entry(recorded - i + 1) \in Line /\ ~FromBus(Entry(recorded - i + 1))
  BY <1>4 DEF Entry, Line, FromBus
<1>6. Recent(SeedCap) \in Seq(Line) /\ Len(Recent(SeedCap)) = k
  BY <1>2, <1>3, <1>5
<1> QED BY <1>1, <1>2, <1>3, <1>5, <1>6

\* What is kept is the end of what there was.
LEMMA KeptLines ==
  ASSUME NEW s \in Seq(Line)
  PROVE  \E k \in Nat :
           /\ Kept(s) \in Seq(Line) /\ Len(Kept(s)) = Len(s) - k /\ Len(Kept(s)) <= ItemCap
           /\ s # <<>> => Len(Kept(s)) > 0
           /\ \A i \in 1..Len(Kept(s)) : Kept(s)[i] = s[i + k]
<1>0. ItemCap \in Nat /\ ItemCap > 0 /\ Len(s) \in Nat
  BY CapAssumption
<1>1. CASE Len(s) > ItemCap
  <2> DEFINE m == Len(s) - ItemCap + 1
  <2>1. /\ Kept(s) = SubSeq(s, m, Len(s)) /\ m \in Int /\ m >= 1 /\ m <= Len(s)
        /\ Len(s) - m + 1 = ItemCap
    BY <1>0, <1>1 DEF Kept
  <2>2. \A i \in m..Len(s) : s[i] \in Line
    BY <1>0, <2>1
  <2> HIDE DEF m
  <2>3. /\ Kept(s) \in Seq(Line) /\ Len(Kept(s)) = ItemCap
        /\ \A i \in 1..ItemCap : Kept(s)[i] = s[m + i - 1]
    BY <1>0, <2>1, <2>2, SubSeqProperties
  <2>4. m - 1 \in Nat /\ Len(s) - (m - 1) = ItemCap /\ \A i \in 1..ItemCap : m + i - 1 = i + (m - 1)
    BY <1>0, <2>1
  <2>5. /\ m - 1 \in Nat /\ Len(Kept(s)) = Len(s) - (m - 1) /\ Len(Kept(s)) <= ItemCap
        /\ Len(Kept(s)) > 0
        /\ \A i \in 1..Len(Kept(s)) : Kept(s)[i] = s[i + (m - 1)]
    BY <1>0, <2>3, <2>4
  <2> QED BY <2>3, <2>5
<1>2. CASE ~(Len(s) > ItemCap)
  <2>1. Kept(s) = s
    BY <1>2 DEF Kept
  <2>2. /\ Kept(s) \in Seq(Line) /\ Len(Kept(s)) = Len(s) - 0 /\ Len(Kept(s)) <= ItemCap
        /\ s # <<>> => Len(Kept(s)) > 0
        /\ \A i \in 1..Len(Kept(s)) : Kept(s)[i] = s[i + 0]
    BY <1>0, <1>2, <2>1
  <2> QED BY <2>2
<1> QED BY <1>1, <1>2

(***************************************************************************)
(* The invariant.                                                          *)
(***************************************************************************)
LEMMA FieldInitInv == FieldInit => FieldInv
<1> SUFFICES ASSUME FieldInit PROVE FieldInv
  OBVIOUS
<1>0. Empty \in [Devices -> Time] /\ (\A d \in Devices : Empty[d] = Unseen) /\ Idle \in SweepRecord
  BY IdleType DEF Empty, Time
<1>1. FieldTypeOK
  <2>1. sweep \in [Sweeps -> SweepRecord] /\ seen \in [Devices -> Time] /\ newest \in [Devices -> Time]
    BY <1>0 DEF FieldInit
  <2>2. 0 \in 0..MaxTime /\ 1 \in 1..MaxEvents /\ Closed \in Fallen..(MaxEvents + 1)
    BY BoundAssumption DEF Closed, Fallen
  <2>3. items \in Seq([from : {"telemetry", "bus"}, n : 1..MaxEvents]) /\ Len(items) <= ItemCap
    BY Caps DEF FieldInit
  <2> QED BY <2>1, <2>2, <2>3 DEF FieldInit, FieldTypeOK, Panel, SweepRecord, Time
<1>2. SweepsAreFresh
  BY <1>0, IdleType DEF FieldInit, SweepsAreFresh, Unseen
<1>3. RegistryIsLatest
  BY <1>0 DEF FieldInit, RegistryIsLatest
<1>4. SeededFirst /\ TimelineHasNoHole
  BY DEF FieldInit, SeededFirst, TimelineHasNoHole
<1> QED BY <1>1, <1>2, <1>3, <1>4 DEF FieldInv

\* A sweep's records change, the clock and what was merged do not.
LEMMA SweepChanges ==
  ASSUME FieldInv, NEW w \in Sweeps, NEW r \in SweepRecord,
         sweep' = [sweep EXCEPT ![w] = r], UNCHANGED <<now, newest, seen, scanning>>,
         r.at = "sweeping", sweep[w].at = "sweeping",
         \A d \in Devices : r.found[d] = sweep[w].found[d] \/ r.found[d] = now
  PROVE  SweepsAreFresh' /\ RegistryIsLatest'
<1>1. /\ sweep'[w] = r /\ \A v \in Sweeps : v # w => sweep'[v] = sweep[v]
      /\ now \in Nat /\ \A d \in Devices : newest[d] \in Time
  BY FieldTypes DEF FieldInv
<1>2. \A d \in Devices : newest[d] <= now
  BY DEF FieldInv, SweepsAreFresh
<1>3. \A d \in Devices : r.found[d] # Unseen => newest[d] <= r.found[d] /\ r.found[d] <= now
  BY <1>1, <1>2 DEF FieldInv, SweepsAreFresh
<1>4. SweepsAreFresh'
  BY <1>1, <1>3 DEF FieldInv, SweepsAreFresh
<1>5. RegistryIsLatest'
  BY DEF FieldInv, RegistryIsLatest
<1> QED BY <1>4, <1>5

LEMMA SweptSteps ==
  ASSUME FieldInv, NEW w \in Sweeps, Scan(w) \/ Probe(w) \/ ProbeEnds(w) \/ ScanEnds(w)
  PROVE  /\ sweep' \in [Sweeps -> SweepRecord] /\ seen' \in [Devices -> Time]
         /\ newest' \in [Devices -> Time] /\ scanning' \in BOOLEAN
         /\ SweepsAreFresh' /\ RegistryIsLatest'
<1>1. /\ sweep \in [Sweeps -> SweepRecord] /\ sweep[w] \in SweepRecord /\ now \in 0..MaxTime /\ now \in Nat
      /\ seen \in [Devices -> Time] /\ newest \in [Devices -> Time] /\ scanning \in BOOLEAN
      /\ sweep[w].found \in [Devices -> Time]
      /\ sweep[w].todo \subseteq Hosts /\ sweep[w].flying \subseteq Hosts
      /\ sweep[w].at \in {"idle", "sweeping"}
  <2>1. sweep[w] \in SweepRecord
    BY SweepType DEF FieldInv
  <2>2. scanning \in BOOLEAN
    BY DEF FieldInv, FieldTypeOK
  <2> QED BY <2>1, <2>2, FieldTypes DEF FieldInv, SweepRecord
<1>2. \A h : h \in sweep[w].todo \cup sweep[w].flying => sweep[w].at = "sweeping" /\ h \in Hosts
  <2>1. sweep[w].at = "idle" => sweep[w].todo = {} /\ sweep[w].flying = {}
    BY DEF FieldInv, SweepsAreFresh, Idle
  <2> QED BY <1>1, <2>1
<1>3. CASE Scan(w)
  <2> DEFINE r == [at |-> "sweeping", todo |-> Targets, flying |-> {}, found |-> Empty]
  <2>1. r \in SweepRecord /\ \A d \in Devices : r.found[d] = Unseen
    BY DEF SweepRecord, Targets, Empty, Time
  <2>2. /\ sweep' = [sweep EXCEPT ![w] = r] /\ scanning' = TRUE /\ ~scanning
        /\ UNCHANGED <<now, seen, newest>>
    BY <1>3 DEF Scan, MayScan
  <2> HIDE DEF r
  <2>3. \A v \in Sweeps : sweep[v].at # "sweeping"
    BY <2>2 DEF FieldInv, SweepsAreFresh
  <2>4. sweep'[w] = r /\ \A v \in Sweeps : v # w => sweep'[v] = sweep[v]
    BY <1>1, <2>2
  <2>5. r.at = "sweeping"
    BY DEF r
  <2>6. SweepsAreFresh'
    BY <2>1, <2>2, <2>3, <2>4, <2>5 DEF FieldInv, SweepsAreFresh
  <2>7. RegistryIsLatest'
    BY <2>2 DEF FieldInv, RegistryIsLatest
  <2> QED BY <1>1, <2>1, <2>2, <2>6, <2>7
<1>4. CASE Probe(w)
  <2>1. PICK h \in sweep[w].todo : sweep' = [sweep EXCEPT ![w] = Launched(sweep[w], h)]
    BY <1>4 DEF Probe
  <2>2. /\ Launched(sweep[w], h) \in SweepRecord /\ Launched(sweep[w], h).at = "sweeping"
        /\ Launched(sweep[w], h).found = sweep[w].found /\ sweep[w].at = "sweeping"
    BY <1>1, <1>2, LaunchedFacts
  <2>3. UNCHANGED <<now, newest, seen, scanning>>
    BY <1>4 DEF Probe
  <2>4. SweepsAreFresh' /\ RegistryIsLatest'
    BY <2>1, <2>2, <2>3, SweepChanges
  <2> QED BY <1>1, <2>1, <2>2, <2>3, <2>4
<1>5. CASE ProbeEnds(w)
  <2>1. PICK h \in sweep[w].flying : \/ sweep' = [sweep EXCEPT ![w] = Answered(sweep[w], h)]
                                     \/ sweep' = [sweep EXCEPT ![w] = Failed(sweep[w], h)]
    BY <1>5 DEF ProbeEnds
  <2>2. h \in Hosts /\ sweep[w].at = "sweeping"
    BY <1>2
  <2>3. UNCHANGED <<now, newest, seen, scanning>>
    BY <1>5 DEF ProbeEnds
  <2>4. CASE sweep' = [sweep EXCEPT ![w] = Answered(sweep[w], h)]
    <3>1. /\ Answered(sweep[w], h) \in SweepRecord /\ Answered(sweep[w], h).at = "sweeping"
          /\ Answered(sweep[w], h).found = [sweep[w].found EXCEPT ![Of[h]] = now]
      BY <1>1, <2>2, AnsweredFacts
    <3>2. \A d \in Devices : \/ Answered(sweep[w], h).found[d] = sweep[w].found[d]
                             \/ Answered(sweep[w], h).found[d] = now
      BY <1>1, <3>1
    <3>3. SweepsAreFresh' /\ RegistryIsLatest'
      BY <2>2, <2>3, <2>4, <3>1, <3>2, SweepChanges
    <3> QED BY <1>1, <2>3, <2>4, <3>1, <3>3
  <2>5. CASE sweep' = [sweep EXCEPT ![w] = Failed(sweep[w], h)]
    <3>1. /\ Failed(sweep[w], h) \in SweepRecord /\ Failed(sweep[w], h).at = "sweeping"
          /\ Failed(sweep[w], h).found = sweep[w].found
      BY <1>1, <2>2, FailedFacts
    <3>3. SweepsAreFresh' /\ RegistryIsLatest'
      BY <2>2, <2>3, <2>5, <3>1, SweepChanges
    <3> QED BY <1>1, <2>3, <2>5, <3>1, <3>3
  <2> QED BY <2>1, <2>4, <2>5
<1>6. CASE ScanEnds(w)
  <2> DEFINE fresh == Pruned(sweep[w].found)
  <2>1. /\ sweep[w].at = "sweeping" /\ seen' = Merged(fresh)
        /\ newest' = [d \in Devices |-> IF fresh[d] > newest[d] THEN fresh[d] ELSE newest[d]]
        /\ sweep' = [sweep EXCEPT ![w] = Idle] /\ scanning' = FALSE /\ now' = now
    BY <1>6 DEF ScanEnds, Swept
  <2>2. fresh \in [Devices -> Time]
    BY <1>1, PrunedType
  <2>3. /\ sweep' \in [Sweeps -> SweepRecord] /\ seen' \in [Devices -> Time]
        /\ newest' \in [Devices -> Time]
    <3>1. seen' \in [Devices -> Time]
      BY <2>1, <2>2, MergedType DEF FieldInv
    <3>2. newest' \in [Devices -> Time]
      BY <1>1, <2>1, <2>2
    <3> QED BY <1>1, <2>1, <3>1, <3>2, IdleType
  <2>4. sweep'[w] = Idle /\ \A v \in Sweeps : v # w => sweep'[v] = sweep[v]
    BY <1>1, <2>1
  <2>5. \A v \in Sweeps : sweep'[v] = Idle
    <3>1. \A v \in Sweeps : v # w => sweep[v].at = "idle"
      BY <2>1, SweepType DEF FieldInv, SweepsAreFresh, SweepRecord
    <3> QED BY <2>4, <3>1 DEF FieldInv, SweepsAreFresh
  <2>6. \A d \in Devices :
          /\ fresh[d] # Unseen => /\ fresh[d] = sweep[w].found[d] /\ now - fresh[d] < Timeout
                                 /\ newest[d] <= fresh[d] /\ fresh[d] <= now
          /\ newest[d] \in Time /\ newest[d] <= now /\ fresh[d] \in Time
    BY <1>1, <2>2 DEF FieldInv, SweepsAreFresh, Pruned
  <2>7. \A d \in Devices :
          Merged(fresh)[d] = LET x == IF fresh[d] # Unseen THEN fresh[d] ELSE seen[d]
                             IN  IF x # Unseen /\ now - x < Timeout THEN x ELSE Unseen
    BY DEF Merged, Pruned
  <2> HIDE DEF fresh
  <2>8. \A d \in Devices : newest'[d] = IF fresh[d] # Unseen THEN fresh[d] ELSE newest[d]
    BY <1>1, <2>1, <2>6, BoundAssumption DEF Time, Unseen
  <2>9. SweepsAreFresh'
    <3>1. \A d \in Devices : newest'[d] <= now'
      BY <2>1, <2>6, <2>8
    <3> QED BY <2>5, <3>1, IdleType DEF SweepsAreFresh
  <2>10. RegistryIsLatest'
    <3> SUFFICES ASSUME NEW d \in Devices, newest'[d] # Unseen, now - newest'[d] < Timeout
                 PROVE  seen'[d] = newest'[d]
      BY <2>1 DEF RegistryIsLatest
    <3>1. CASE fresh[d] # Unseen
      BY <2>1, <2>7, <2>8, <3>1
    <3>2. CASE fresh[d] = Unseen
      BY <2>1, <2>7, <2>8, <3>2 DEF FieldInv, RegistryIsLatest
    <3> QED BY <3>1, <3>2
  <2> QED BY <2>1, <2>3, <2>9, <2>10
<1> QED BY <1>3, <1>4, <1>5, <1>6

(***************************************************************************)
(* The timeline: the bus's lines come last, one after another.             *)
(***************************************************************************)
LEMMA ReceiveKeeps ==
  ASSUME FieldInv, Receive
  PROVE  /\ items' \in Seq(Line) /\ Len(items') <= ItemCap
         /\ reader' \in Fallen..(MaxEvents + 1) /\ reader' # Closed
         /\ TimelineHasNoHole'
<1> DEFINE s == Append(items, Event(reader))
           L == Len(items)
<1>1. /\ items' = Kept(s) /\ reader' = reader + 1 /\ reader > Closed /\ reader <= sent
  BY DEF Receive, Streaming
<1>2. /\ items \in Seq(Line) /\ L \in Nat /\ sent \in 1..MaxEvents /\ MaxEvents \in Nat
      /\ reader \in Fallen..(MaxEvents + 1)
  <2>1. reader \in Fallen..(MaxEvents + 1)
    BY DEF FieldInv, FieldTypeOK
  <2>2. items \in Seq(Line) /\ sent \in 1..MaxEvents /\ MaxEvents \in Nat
    BY FieldTypes DEF FieldInv
  <2> QED BY <2>1, <2>2
<1>3. reader \in 1..MaxEvents /\ reader' \in 1..(MaxEvents + 1)
  BY <1>1, <1>2 DEF Closed, Fallen
<1>4. Event(reader) \in Line /\ Event(reader).n = reader /\ FromBus(Event(reader))
  BY <1>3 DEF Event, Line, FromBus
<1>5. /\ s \in Seq(Line) /\ Len(s) = L + 1 /\ s[L + 1] = Event(reader) /\ s # <<>>
      /\ \A i \in 1..L : s[i] = items[i]
  BY <1>2, <1>4
<1>6. /\ \A i \in 1..(L - 1) :
           FromBus(items[i]) => FromBus(items[i + 1]) /\ items[i + 1].n = items[i].n + 1
      /\ L > 0 /\ FromBus(items[L]) => items[L].n = reader - 1
  BY <1>1, <1>2 DEF FieldInv, TimelineHasNoHole, Closed, Fallen
<1> HIDE DEF s
<1>7. \A i \in 1..L : FromBus(s[i]) => FromBus(s[i + 1]) /\ s[i + 1].n = s[i].n + 1
  <2> SUFFICES ASSUME NEW i \in 1..L, FromBus(s[i])
               PROVE  FromBus(s[i + 1]) /\ s[i + 1].n = s[i].n + 1
    OBVIOUS
  <2>1. CASE i = L
    <3>1. items[L].n = reader - 1
      BY <1>2, <1>5, <1>6, <2>1
    <3> QED BY <1>2, <1>3, <1>4, <1>5, <2>1, <3>1
  <2>2. CASE i # L
    BY <1>2, <1>5, <1>6, <2>2
  <2> QED BY <2>1, <2>2
<1>8. PICK k \in Nat : /\ Kept(s) \in Seq(Line) /\ Len(Kept(s)) = Len(s) - k
                       /\ Len(Kept(s)) <= ItemCap /\ Len(Kept(s)) > 0
                       /\ \A i \in 1..Len(Kept(s)) : Kept(s)[i] = s[i + k]
  BY <1>5, KeptLines
<1>9. \A i \in 1..(Len(items') - 1) :
        FromBus(items'[i]) => FromBus(items'[i + 1]) /\ items'[i + 1].n = items'[i].n + 1
  <2> SUFFICES ASSUME NEW i \in 1..(Len(Kept(s)) - 1)
               PROVE  FromBus(Kept(s)[i]) =>
                        FromBus(Kept(s)[i + 1]) /\ Kept(s)[i + 1].n = Kept(s)[i].n + 1
    BY <1>1
  <2>1. /\ Len(Kept(s)) = L + 1 - k /\ Len(Kept(s)) \in Nat /\ i \in Nat
        /\ i + k \in 1..L /\ (i + 1) + k = (i + k) + 1
    BY <1>2, <1>5, <1>8
  <2>2. Kept(s)[i] = s[i + k] /\ Kept(s)[i + 1] = s[(i + k) + 1]
    BY <1>8, <2>1
  <2> QED BY <1>7, <2>1, <2>2
<1>10. items'[Len(items')].n = reader' - 1
  <2>1. Len(Kept(s)) \in 1..Len(Kept(s)) /\ Len(Kept(s)) + k = L + 1
    BY <1>2, <1>5, <1>8
  <2>2. Kept(s)[Len(Kept(s))] = Event(reader)
    BY <1>5, <1>8, <2>1
  <2> QED BY <1>1, <1>3, <1>4, <2>2
<1>11. TimelineHasNoHole'
  BY <1>9, <1>10 DEF TimelineHasNoHole, FromBus
<1>12. reader' # Closed /\ reader' \in Fallen..(MaxEvents + 1)
  BY <1>2, <1>3 DEF Closed, Fallen
<1> QED BY <1>1, <1>8, <1>11, <1>12

LEMMA NavigateKeeps ==
  ASSUME FieldInv, NEW to \in Panel, Navigate(to)
  PROVE  /\ items' \in Seq(Line) /\ Len(items') <= ItemCap /\ SeededFirst' /\ TimelineHasNoHole'
         /\ SweepsAreFresh' /\ RegistryIsLatest'
<1>1. /\ items' \in Seq(Line) /\ Len(items') <= ItemCap
      /\ \A i \in DOMAIN items' : ~FromBus(items'[i])
  <2>1. CASE to = "Timeline"
    BY <2>1, RecentLines DEF Navigate, FieldInv
  <2>2. CASE to # "Timeline"
    <3>1. items' = <<>>
      BY <2>2 DEF Navigate
    <3> QED BY <3>1, Caps
  <2> QED BY <2>1, <2>2
<1>2. DOMAIN items' = 1..Len(items') /\ Len(items') \in Nat /\ (items' # <<>> => Len(items') > 0)
  BY <1>1
<1>3. SeededFirst' /\ TimelineHasNoHole'
  BY <1>1, <1>2 DEF SeededFirst, TimelineHasNoHole, FromBus
<1>4. /\ \A w \in Sweeps : sweep'[w] = Idle
      /\ UNCHANGED <<now, seen, newest>>
  BY DEF Navigate
<1>5. SweepsAreFresh'
  BY <1>4, IdleType DEF FieldInv, SweepsAreFresh
<1>6. RegistryIsLatest'
  BY <1>4 DEF FieldInv, RegistryIsLatest
<1> QED BY <1>1, <1>3, <1>5, <1>6

LEMMA FieldStepInv == FieldInv /\ [FieldNext]_fieldVars => FieldInv'
<1> SUFFICES ASSUME FieldInv, [FieldNext]_fieldVars PROVE FieldInv'
  OBVIOUS
<1> USE DEF devices, events, timeline, talk
<1>0. FieldTypeOK /\ SweepsAreFresh /\ RegistryIsLatest /\ SeededFirst /\ TimelineHasNoHole
  BY DEF FieldInv
<1>1. ASSUME UNCHANGED <<now, devices>> PROVE SweepsAreFresh' /\ RegistryIsLatest'
  BY <1>0, <1>1 DEF SweepsAreFresh, RegistryIsLatest
<1>2. ASSUME UNCHANGED timeline PROVE SeededFirst' /\ TimelineHasNoHole'
  BY <1>0, <1>2 DEF SeededFirst, TimelineHasNoHole
<1>3. ASSUME ClockTick PROVE FieldInv'
  <2>1. now' = now + 1 /\ now' \in 0..MaxTime /\ now \in Nat
    BY <1>0, <1>3, FieldTypes, BoundAssumption DEF ClockTick
  <2>2. FieldTypeOK'
    BY <1>0, <1>3, <2>1 DEF ClockTick, FieldTypeOK
  <2>3. \A d \in Devices : /\ newest[d] \in Time
                           /\ \A w \in Sweeps : sweep[w].found[d] \in Time
    BY <1>0, FieldTypes DEF SweepRecord
  <2>4. \A t \in Time : t \in Int /\ (t <= now => t <= now')
    BY <2>1, BoundAssumption DEF Time, Unseen
  <2>5. SweepsAreFresh'
    BY <1>0, <1>3, <2>3, <2>4 DEF ClockTick, SweepsAreFresh
  <2>6. RegistryIsLatest'
    <3> SUFFICES ASSUME NEW d \in Devices, newest[d] # Unseen, now' - newest[d] < Timeout
                 PROVE  seen[d] = newest[d]
      BY <1>3 DEF ClockTick, RegistryIsLatest
    <3>1. newest[d] \in Int /\ now - newest[d] < Timeout
      BY <2>1, <2>3, <2>4, Caps
    <3> QED BY <1>0, <3>1 DEF RegistryIsLatest
  <2> QED BY <1>2, <1>3, <2>2, <2>5, <2>6 DEF ClockTick, FieldInv
<1>4. ASSUME Remember \/ Heartbeat PROVE FieldInv'
  <2>1. FieldTypeOK'
    <3>1. sent' \in 1..MaxEvents /\ recorded' \in 1..MaxEvents
      BY <1>0, <1>4, FieldTypes DEF Remember, Heartbeat
    <3> QED BY <1>0, <1>4, <3>1 DEF Remember, Heartbeat, FieldTypeOK
  <2> QED BY <1>1, <1>2, <1>4, <2>1 DEF Remember, Heartbeat, FieldInv
<1>5. ASSUME Subscribe PROVE FieldInv'
  <2>1. reader' = sent + 1 /\ reader = Closed /\ UNCHANGED <<now, panel, devices, events, items, talk>>
    BY <1>5 DEF Subscribe
  <2>2. reader' \in Fallen..(MaxEvents + 1) /\ reader' # Closed
    BY <1>0, <2>1, FieldTypes DEF Closed, Fallen
  <2>3. FieldTypeOK'
    BY <1>0, <2>1, <2>2 DEF FieldTypeOK
  <2>4. items \in Seq(Line) /\ DOMAIN items = 1..Len(items) /\ Len(items) \in Nat
        /\ (items # <<>> => Len(items) > 0)
    BY <1>0, FieldTypes
  <2>5. SeededFirst' /\ TimelineHasNoHole'
    BY <1>0, <2>1, <2>2, <2>4 DEF SeededFirst, TimelineHasNoHole
  <2> QED BY <1>1, <2>1, <2>3, <2>5 DEF FieldInv
<1>6. ASSUME Receive PROVE FieldInv'
  <2>1. UNCHANGED <<now, panel, devices, events, talk>>
    BY <1>6 DEF Receive
  <2>2. FieldTypeOK'
    BY <1>0, <1>6, <2>1, ReceiveKeeps DEF FieldTypeOK, Line
  <2>3. SeededFirst'
    BY <1>6, ReceiveKeeps DEF SeededFirst
  <2> QED BY <1>1, <1>6, <2>1, <2>2, <2>3, ReceiveKeeps DEF FieldInv
<1>7. ASSUME FallBehind PROVE FieldInv'
  <2>1. reader' = Fallen /\ UNCHANGED <<now, panel, devices, events, items, talk>>
    BY <1>7 DEF FallBehind, AfterLag
  <2>2. Fallen \in Fallen..(MaxEvents + 1) /\ Fallen # Closed
    BY BoundAssumption DEF Closed, Fallen
  <2>3. FieldTypeOK'
    BY <1>0, <2>1, <2>2 DEF FieldTypeOK
  <2>4. SeededFirst' /\ TimelineHasNoHole'
    BY <1>0, <2>1, <2>2 DEF SeededFirst, TimelineHasNoHole
  <2> QED BY <1>1, <2>1, <2>3, <2>4 DEF FieldInv
<1>8. ASSUME NEW to \in Panel, Navigate(to) PROVE FieldInv'
  <2>1. UNCHANGED <<now, seen, newest, sent, recorded, busy, mic>> /\ panel' = to
        /\ scanning' = FALSE /\ reader' = Closed /\ sweep' = [w \in Sweeps |-> Idle]
    BY <1>8 DEF Navigate
  <2>2. sweep' \in [Sweeps -> SweepRecord]
    BY <2>1, IdleType
  <2>3. Closed \in Fallen..(MaxEvents + 1)
    BY BoundAssumption DEF Closed, Fallen
  <2>4. FieldTypeOK'
    BY <1>0, <1>8, <2>1, <2>2, <2>3, NavigateKeeps DEF FieldTypeOK, SweepRecord, Time, Line
  <2> QED BY <1>8, <2>4, NavigateKeeps DEF FieldInv
<1>9. ASSUME NEW w \in Sweeps, Scan(w) \/ Probe(w) \/ ProbeEnds(w) \/ ScanEnds(w) PROVE FieldInv'
  <2>1. UNCHANGED <<now, panel, events, timeline, talk>>
    BY <1>9 DEF Scan, Probe, ProbeEnds, ScanEnds
  <2>2. FieldTypeOK'
    BY <1>0, <1>9, <2>1, SweptSteps DEF FieldTypeOK, SweepRecord, Time
  <2> QED BY <1>2, <1>9, <2>1, <2>2, SweptSteps DEF FieldInv
<1>10. ASSUME Talk \/ CaptureEnds \/ TalkEnds PROVE FieldInv'
  <2>1. FieldTypeOK'
    BY <1>0, <1>10 DEF Talk, CaptureEnds, TalkEnds, BusyAfter, FieldTypeOK
  <2> QED BY <1>1, <1>2, <1>10, <2>1 DEF Talk, CaptureEnds, TalkEnds, FieldInv
<1>11. CASE UNCHANGED fieldVars
  <2>1. FieldTypeOK'
    BY <1>0, <1>11 DEF fieldVars, FieldTypeOK
  <2> QED BY <1>1, <1>2, <1>11, <2>1 DEF fieldVars, FieldInv
<1> QED
  BY <1>3, <1>4, <1>5, <1>6, <1>7, <1>8, <1>9, <1>10, <1>11 DEF FieldNext

LEMMA FieldInductive == FieldSpec => []FieldInv
BY FieldInitInv, FieldStepInv, PTL DEF FieldSpec

-----------------------------------------------------------------------------
\* Every variable of the shell keeps its type.
THEOREM FieldTypeCorrect == FieldSpec => []FieldTypeOK
<1>1. FieldInv => FieldTypeOK
  BY DEF FieldInv
<1> QED BY <1>1, FieldInductive, PTL

\* For any hosts, permits and number of sweeps, no merge takes back a later
\* sighting.
THEOREM RegistryStaysLatest == FieldSpec => []RegistryIsLatest
<1>1. FieldInv => RegistryIsLatest
  BY DEF FieldInv
<1> QED BY <1>1, FieldInductive, PTL

\* For any capacities of the bus and of the panel, the timeline stops rather
\* than skip an event.
THEOREM TimelineNeverSkips == FieldSpec => []TimelineHasNoHole
<1>1. FieldInv => TimelineHasNoHole
  BY DEF FieldInv
<1> QED BY <1>1, FieldInductive, PTL
=============================================================================
