------------------------------ MODULE Transfer ------------------------------
(***************************************************************************)
(* A file-transfer session of igris-device: SessionManager (transfer.rs)   *)
(* and the HTTP handlers that call it (server.rs).  A handler takes the    *)
(* manager's mutex for each call (and emits its event before it lets go),  *)
(* and awaits the disk without it: there handlers interleave, fail, or are *)
(* dropped when the peer hangs up.                                         *)
(*                                                                         *)
(* One session with several files is modelled (sessions share nothing but  *)
(* the mutex).  A file is a sequence of parts, each one unit long; a body  *)
(* carries one part, possibly again, possibly out of order: retries and    *)
(* concurrent requests are the peer's business.  A request with a wrong    *)
(* token or in the wrong state changes nothing and is not a step.          *)
(***************************************************************************)
EXTENDS Integers, Sequences, FiniteSets

CONSTANTS
  Files,       \* the files offered
  Size,        \* Size[f]: f.spec.size, in units
  Checked,     \* the files offered with a checksum
  Requests,    \* the requests the server may have in hand at once
  MaxBodies    \* bound on the parts noted or stored for a file

\* An empty file has one chunk, confirmed by the first (empty) body; leaving
\* that out, a file's chunks are all confirmed as soon as its bytes are.
ASSUME SizeAssumption == Size \in [Files -> Nat \ {0}]
ASSUME FilesAssumption == Files # {} /\ Checked \subseteq Files
ASSUME BodiesAssumption == MaxBodies \in Nat
ASSUME RequestsAssumption == IsFiniteSet(Requests)

VARIABLES
  session,    \* TransferSession.state, "Absent" before prepare
  age,        \* how old the session is: 0 within PENDING_TTL, 1 within
              \* SESSION_TTL, 2 beyond
  received,   \* received[f]: FileProgress.received_bytes
  created,    \* the files f whose f.part exists
  disk,       \* disk[f]: the parts in f.part, in the order they were appended
  request,    \* request[r]: what the server is doing for request r
  announced,  \* the "state" values emitted for the session on progress_tx
  closed      \* history: the files for which `complete` returned Ok

vars == <<session, age, received, created, disk, request, announced, closed>>

\* SessionState::Preparing is never stored.
Terminal == {"Completed", "Denied", "Expired", "Failed"}
SessionState == {"Absent", "AwaitingApproval", "Transferring"} \cup Terminal

\* The file the checksum of the offer was taken of.
Content(f) == [i \in 1..Size[f] |-> i]

NoRequest == [at |-> "idle"]
Uploading(at, f, p) == [at |-> at, file |-> f, part |-> p]
Completing(f, bytes) == [at |-> "judge", file |-> f, bytes |-> bytes]

Request ==
  {NoRequest}
    \cup [at : {"open", "write"}, file : Files, part : Nat]
    \cup [at : {"judge"}, file : Files, bytes : Seq(Nat)]

(***************************************************************************)
(* Faulty variants of definitions below: each is a plausible slip in the   *)
(* code, and shows that some property would notice it.                     *)
(***************************************************************************)
NoteWhileOpen == session \notin Terminal \cup {"Absent"}
NothingNoted(f) == received
LengthMatches(f, bytes) == f \in Checked => Len(bytes) = Size[f]

(***************************************************************************)
(* SessionManager.                                                         *)
(***************************************************************************)
\* note_bytes accepts a body: the session is in the state it asks for.
MayNote == session = "Transferring"
Noted(f) == [received EXCEPT ![f] = @ + 1]

\* complete goes on to the checksum.
MayComplete == session = "Transferring"
ChecksumMatches(f, bytes) == f \in Checked => bytes = Content(f)

\* missing_chunks is empty for every file.
AllConfirmed(rcvd) == \A f \in Files : rcvd[f] >= Size[f]

\* sweep_expired reaps the session.
Stale == \/ session = "AwaitingApproval" /\ age >= 1
         \/ session = "Transferring" /\ age >= 2

\* What an append of the part p leaves in f.part.
Appended(f, p) == Append(disk[f], p)

-----------------------------------------------------------------------------
Init ==
  /\ session = "Absent"
  /\ age = 0
  /\ received = [f \in Files |-> 0]
  /\ created = {}
  /\ disk = [f \in Files |-> <<>>]
  /\ request = [r \in Requests |-> NoRequest]
  /\ announced = {}
  /\ closed = {}

Prepare ==
  /\ session = "Absent"
  /\ session' = "AwaitingApproval"
  /\ UNCHANGED <<age, received, created, disk, request, announced, closed>>

\* Approval does not look at the age: a session past its TTL that nobody has
\* swept is still approved.
Confirm ==
  /\ session = "AwaitingApproval"
  /\ session' = "Transferring"
  /\ announced' = announced \cup {"Transferring"}
  /\ UNCHANGED <<age, received, created, disk, request, closed>>

Deny ==
  /\ session = "AwaitingApproval"
  /\ session' = "Denied"
  /\ announced' = announced \cup {"Denied"}
  /\ UNCHANGED <<age, received, created, disk, request, closed>>

(***************************************************************************)
(* upload: note the body under the lock, then create the directory and     *)
(* open the file, then write.  The write goes to tokio's blocking pool,    *)
(* which may carry it out, or fail to, after the reply has been sent       *)
(* (tokio::fs::File::write_all without flush returns when the write is     *)
(* handed over).                                                           *)
(***************************************************************************)
UploadGate(r) ==
  /\ request[r] = NoRequest
  /\ MayNote
  /\ \E f \in Files : \E p \in 1..Size[f] :
       /\ received[f] < MaxBodies /\ Len(disk[f]) < MaxBodies
       /\ received' = Noted(f)
       /\ request' = [request EXCEPT ![r] = Uploading("open", f, p)]
  /\ UNCHANGED <<session, age, created, disk, announced, closed>>

UploadOpen(r) ==
  /\ request[r].at = "open"
  /\ created' = created \cup {request[r].file}
  /\ request' = [request EXCEPT ![r].at = "write"]
  /\ UNCHANGED <<session, age, received, disk, announced, closed>>

UploadWrite(r) ==
  /\ request[r].at = "write"
  /\ disk' = [disk EXCEPT ![request[r].file] = Appended(request[r].file, request[r].part)]
  /\ request' = [request EXCEPT ![r] = NoRequest]
  /\ UNCHANGED <<session, age, received, created, announced, closed>>

\* The directory or the file cannot be opened, the write fails, or the peer
\* hangs up and the handler is dropped at an await.
GiveUp(r) ==
  /\ request[r].at \in {"open", "write", "judge"}
  /\ request' = [request EXCEPT ![r] = NoRequest]
  /\ UNCHANGED <<session, age, received, created, disk, announced, closed>>

(***************************************************************************)
(* complete: read the file without the lock, then judge what was read.     *)
(***************************************************************************)
CompleteRead(r) ==
  /\ request[r] = NoRequest
  /\ \E f \in created :
       request' = [request EXCEPT ![r] = Completing(f, disk[f])]
  /\ UNCHANGED <<session, age, received, created, disk, announced, closed>>

CompleteOk(r) ==
  LET f == request[r].file IN
  /\ request[r].at = "judge"
  /\ MayComplete /\ ChecksumMatches(f, request[r].bytes)
  /\ received' = [received EXCEPT ![f] = Size[f]]
  /\ session' = IF AllConfirmed(received') THEN "Completed" ELSE session
  /\ closed' = closed \cup {f}
  /\ announced' = announced \cup {"Completed"}
  /\ request' = [request EXCEPT ![r] = NoRequest]
  /\ UNCHANGED <<age, created, disk>>

\* Whatever the error, "Failed" is emitted; only a mismatch fails the session.
CompleteErr(r) ==
  /\ request[r].at = "judge"
  /\ \/ ~MayComplete /\ UNCHANGED session
     \/ MayComplete /\ ~ChecksumMatches(request[r].file, request[r].bytes)
        /\ session' = "Failed"
  /\ announced' = announced \cup {"Failed"}
  /\ request' = [request EXCEPT ![r] = NoRequest]
  /\ UNCHANGED <<age, received, created, disk, closed>>

(***************************************************************************)
(* Time, and the host calling sweep_expired when it likes (the repository  *)
(* calls it only from tests).                                              *)
(***************************************************************************)
Tick ==
  /\ session # "Absent" /\ age < 2
  /\ age' = age + 1
  /\ UNCHANGED <<session, received, created, disk, request, announced, closed>>

Sweep ==
  /\ Stale
  /\ session' = "Expired"
  /\ UNCHANGED <<age, received, created, disk, request, announced, closed>>

Next ==
  \/ Prepare \/ Confirm \/ Deny \/ Tick \/ Sweep
  \/ \E r \in Requests :
       \/ UploadGate(r) \/ UploadOpen(r) \/ UploadWrite(r)
       \/ CompleteRead(r) \/ CompleteOk(r) \/ CompleteErr(r)
       \/ GiveUp(r)

Spec == Init /\ [][Next]_vars

-----------------------------------------------------------------------------
(***************************************************************************)
(* Properties.                                                             *)
(***************************************************************************)
\* Every variable has its type.
TypeOK ==
  /\ session \in SessionState
  /\ age \in 0..2
  /\ received \in [Files -> Nat]
  /\ created \in SUBSET Files
  /\ disk \in [Files -> Seq(Nat)]
  /\ request \in [Requests -> Request]
  /\ announced \in SUBSET {"Transferring", "Denied", "Completed", "Failed"}
  /\ closed \in SUBSET Files

\* Until the operator has approved the session (and for ever, if it is denied
\* or expires first) no byte of it is noted, in flight or on the disk: the
\* gate is checked before the awaits, and the write comes after them.
NothingBeforeApproval ==
  "Transferring" \notin announced =>
    /\ created = {} /\ closed = {}
    /\ \A f \in Files : received[f] = 0 /\ disk[f] = <<>>
    /\ \A r \in Requests : request[r] = NoRequest

\* The parts of f that are on their way to the disk.
Pending(f) == {r \in Requests : request[r].at \in {"open", "write"} /\ request[r].file = f}

\* Of a file not yet closed, what is stored and what is about to be never
\* exceeds what was noted: no body reaches the disk unaccounted, whatever
\* the handlers' interleaving and failures.
BytesAccounted ==
  \A f \in Files \ closed : Len(disk[f]) + Cardinality(Pending(f)) <= received[f]

\* A file offered with a checksum and closed is on the disk, complete and in
\* order; what late or repeated bodies append comes after it.
ClosedIsStored ==
  \A f \in closed \cap Checked :
    Len(disk[f]) >= Size[f] /\ SubSeq(disk[f], 1, Size[f]) = Content(f)

\* A session reads Completed only if it was approved, some file was closed
\* and the bytes of every other were all noted.
CompletedIsEarned ==
  session = "Completed" =>
    "Transferring" \in announced /\ closed # {} /\ \A f \in Files : received[f] >= Size[f]

\* The session never leaves a terminal state, although confirm, complete and
\* the sweep race, and complete reads the disk before it looks at the state.
TerminalIsFinal == [][(session \in Terminal) => session' = session]_vars
=============================================================================
