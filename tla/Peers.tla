------------------------------- MODULE Peers -------------------------------
(***************************************************************************)
(* Who a device is and whom it trusts: the one-time codes of OtpManager,   *)
(* the pins of TrustStore, and DeviceStore, which keeps the identity and   *)
(* the pins in files, across crashes of the process at any point.          *)
(*                                                                         *)
(* The two do not know of each other: a code that was accepted pins        *)
(* nothing, and require_pin, the gate before a connection, pins whatever   *)
(* device it has no pin of, at any time.  The pins are saved whenever the  *)
(* caller likes.  One process uses the directory.  A file is written in    *)
(* three steps: the temporary file is begun, completed, and renamed; what  *)
(* was renamed stays (the machine itself does not lose power).             *)
(***************************************************************************)
EXTENDS Integers, Sequences

CONSTANTS
  Devices,     \* the peers' device ids
  Prints,      \* their fingerprints
  Codes,       \* the codes a user may read or mistype
  Ttl,         \* OTP_TTL
  MaxAttempts, \* OTP_MAX_ATTEMPTS
  NoPrint,     \* the fingerprint of a device without a pin
  MaxTime,     \* bound on the clock
  MaxIssues,   \* bound on the codes issued
  MaxFailures  \* bound on the crashes and the writes that fail

ASSUME NoPrintAssumption == NoPrint \notin Prints
ASSUME OtpAssumption == Ttl \in Nat /\ MaxAttempts \in Nat \ {0}
ASSUME BoundAssumption == MaxTime \in Nat /\ MaxIssues \in Nat /\ MaxFailures \in Nat

VARIABLES
  now,        \* the monotonic clock
  issues,     \* the codes issued, in order, with what became of them
  pending,    \* OtpManager.pending: an issue and its attempts, per device
  pins,       \* TrustStore.pins
  exported,   \* the export of pins the user keeps, if any
  phase,      \* how far the process is
  me,         \* the Identity in memory
  fresh,      \* how many identities were generated
  job,        \* the file being written, or "none"
  tmp,        \* tmp[f]: how much of the temporary file of f there is
  disk,       \* disk[f]: how much of f there is
  idOnDisk,   \* the identity in identity.json
  pinsOnDisk, \* the pins in trusted_devices.json
  failures,   \* how often the process died or a write failed
  usedIds,    \* history: the identities the process has gone by
  decided,    \* history: the fingerprint last decided on for d, or NoPrint
  standing    \* history: whether that decision is saved, or was lost

otp == <<issues, pending>>
history == <<decided, standing>>
files == <<job, tmp, disk, idOnDisk, pinsOnDisk>>
peersVars == <<now, otp, pins, exported, phase, me, fresh, files, failures, usedIds, history>>

NoId == 0
File == {"identity", "trust"}
Extent == {"absent", "half", "whole"}
Standing == {"open", "unsaved", "saved"}
NoPins == [d \in Devices |-> NoPrint]
NotPending == [issue |-> 0, attempts |-> 0]

Issue == [device : Devices, code : Codes, at : Nat, wrong : Nat, accepted : Nat, acceptedAt : Nat,
          superseded : BOOLEAN]

(***************************************************************************)
(* Faulty variants of definitions below: each is a plausible slip in the   *)
(* code, and shows that some property would notice it.                     *)
(***************************************************************************)
StillPending(d) == pending[d]
HalfWritten(f) == job = f /\ tmp[f] # "absent"
NewPinsOnly == [d \in Devices |-> IF pins[d] = NoPrint THEN pinsOnDisk[d] ELSE pins[d]]

(***************************************************************************)
(* One-time codes.                                                         *)
(***************************************************************************)
Up == phase = "up"
IsPending(d) == pending[d].issue # 0
Expired(d) == now > issues[pending[d].issue].at + Ttl

\* OtpManager::issue: a new code takes the place of the old.
IssueCode(d, code) ==
  /\ Up /\ Len(issues) < MaxIssues
  /\ issues' = Append(IF IsPending(d) THEN [issues EXCEPT ![pending[d].issue].superseded = TRUE] ELSE issues,
                      [device |-> d, code |-> code, at |-> now, wrong |-> 0, accepted |-> 0,
                       acceptedAt |-> 0, superseded |-> FALSE])
  /\ pending' = [pending EXCEPT ![d] = [issue |-> Len(issues) + 1, attempts |-> 0]]
  /\ UNCHANGED <<now, pins, exported, phase, me, fresh, files, failures, usedIds, history>>

\* What is left of a code after it was accepted.
AfterAcceptance(d) == NotPending

\* What is left of it after a wrong guess.
AfterWrongGuess(d) ==
  IF pending[d].attempts + 1 >= MaxAttempts THEN NotPending
  ELSE [pending[d] EXCEPT !.attempts = @ + 1]

Accepted(issue) == [issue EXCEPT !.accepted = @ + 1, !.acceptedAt = now]
WrongGuess(issue) == [issue EXCEPT !.wrong = @ + 1]

\* OtpManager::verify, of a code that is pending.
Verify(d, code) ==
  LET k == pending[d].issue
  IN  /\ Up /\ IsPending(d)
      /\ \/ /\ Expired(d)
            /\ pending' = [pending EXCEPT ![d] = NotPending]
            /\ UNCHANGED issues
         \/ /\ ~Expired(d) /\ code = issues[k].code
            /\ pending' = [pending EXCEPT ![d] = AfterAcceptance(d)]
            /\ issues' = [issues EXCEPT ![k] = Accepted(@)]
         \/ /\ ~Expired(d) /\ code # issues[k].code
            /\ pending' = [pending EXCEPT ![d] = AfterWrongGuess(d)]
            /\ issues' = [issues EXCEPT ![k] = WrongGuess(@)]
      /\ UNCHANGED <<now, pins, exported, phase, me, fresh, files, failures, usedIds, history>>

\* OtpManager::sweep_expired
SweepExpired ==
  /\ Up
  /\ pending' = [d \in Devices |-> IF IsPending(d) /\ Expired(d) THEN NotPending ELSE pending[d]]
  /\ UNCHANGED <<now, issues, pins, exported, phase, me, fresh, files, failures, usedIds, history>>

(***************************************************************************)
(* Pins.  A save borrows the TrustStore, so that no pin changes during it. *)
(***************************************************************************)
MayPin == Up /\ job = "none"

\* A decision about a device: a first sighting, a revocation, an import.
Decide(d, fp) ==
  /\ decided' = [decided EXCEPT ![d] = fp]
  /\ standing' = [standing EXCEPT ![d] = "unsaved"]

\* verify_or_pin: a first sighting pins; a fingerprint that is not the one
\* pinned is refused, and the pin stays.
PinnedFor(d, fp) == IF pins[d] = NoPrint THEN fp ELSE pins[d]

\* require_pin, before a connection: no pairing is asked for.
RequirePin(d, fp) ==
  /\ MayPin
  /\ pins' = [pins EXCEPT ![d] = PinnedFor(d, fp)]
  /\ IF pins[d] = NoPrint THEN Decide(d, fp) ELSE UNCHANGED history
  /\ UNCHANGED <<now, otp, exported, phase, me, fresh, files, failures, usedIds>>

\* TrustStore::revoke
Revoke(d) ==
  /\ MayPin /\ pins[d] # NoPrint
  /\ pins' = [pins EXCEPT ![d] = NoPrint]
  /\ Decide(d, NoPrint)
  /\ UNCHANGED <<now, otp, exported, phase, me, fresh, files, failures, usedIds>>

\* TrustStore::export_json
Export ==
  /\ MayPin
  /\ exported' = {pins}
  /\ UNCHANGED <<now, otp, pins, phase, me, fresh, files, failures, usedIds, history>>

\* TrustStore::import_json: the pins are replaced, revocations undone.
Import ==
  /\ MayPin
  /\ pins' \in exported
  /\ decided' = pins' /\ standing' = [d \in Devices |-> "unsaved"]
  /\ UNCHANGED <<now, otp, exported, phase, me, fresh, files, failures, usedIds>>

(***************************************************************************)
(* Files: write_atomic.                                                    *)
(***************************************************************************)
\* save_trust
SaveTrust ==
  /\ MayPin
  /\ job' = "trust"
  /\ UNCHANGED <<now, otp, pins, exported, phase, me, fresh, tmp, disk, idOnDisk, pinsOnDisk,
                 failures, usedIds, history>>

\* fs::write makes the file, or empties the one there is.
BeginWrite ==
  /\ job # "none" /\ tmp[job] # "half"
  /\ tmp' = [tmp EXCEPT ![job] = "half"]
  /\ UNCHANGED <<now, otp, pins, exported, phase, me, fresh, job, disk, idOnDisk, pinsOnDisk,
                 failures, usedIds, history>>

EndWrite ==
  /\ job # "none" /\ tmp[job] = "half"
  /\ tmp' = [tmp EXCEPT ![job] = "whole"]
  /\ UNCHANGED <<now, otp, pins, exported, phase, me, fresh, job, disk, idOnDisk, pinsOnDisk,
                 failures, usedIds, history>>

\* fs::write returned Ok.
Written(f) == job = f /\ tmp[f] = "whole"

\* What export_json gives to write.
PinsWritten == pins

Rename ==
  /\ job \in File /\ Written(job)
  /\ disk' = [disk EXCEPT ![job] = tmp[job]]
  /\ tmp' = [tmp EXCEPT ![job] = "absent"]
  /\ job' = "none"
  /\ \/ /\ job = "identity"
        /\ idOnDisk' = me
        /\ phase' = "trust"
        /\ usedIds' = usedIds \cup {me}
        /\ UNCHANGED <<pinsOnDisk, standing>>
     \/ /\ job = "trust"
        /\ pinsOnDisk' = PinsWritten
        /\ standing' = [d \in Devices |-> IF standing[d] = "unsaved" THEN "saved" ELSE standing[d]]
        /\ UNCHANGED <<idOnDisk, phase, usedIds>>
  /\ UNCHANGED <<now, otp, pins, exported, me, fresh, failures, decided>>

\* A step of write_atomic fails; without an identity there is no process.
IoError ==
  /\ job # "none" /\ failures < MaxFailures
  /\ failures' = failures + 1
  /\ job' = "none"
  /\ phase' = IF job = "identity" THEN "down" ELSE phase
  /\ me' = IF job = "identity" THEN NoId ELSE me
  /\ UNCHANGED <<now, otp, pins, exported, fresh, tmp, disk, idOnDisk, pinsOnDisk, usedIds, history>>

(***************************************************************************)
(* The process.                                                            *)
(***************************************************************************)
\* identity_or_create
Boot ==
  /\ phase = "down" /\ job = "none"
  /\ \/ /\ disk["identity"] = "whole"
        /\ me' = idOnDisk
        /\ usedIds' = usedIds \cup {idOnDisk}
        /\ phase' = "trust"
        /\ UNCHANGED <<fresh, job>>
     \/ /\ disk["identity"] = "absent"
        /\ fresh' = fresh + 1
        /\ me' = fresh + 1
        /\ job' = "identity"
        /\ phase' = "identity"
        /\ UNCHANGED usedIds
  /\ UNCHANGED <<now, otp, pins, exported, tmp, disk, idOnDisk, pinsOnDisk, failures, history>>

\* load_trust
LoadTrust ==
  /\ phase = "trust"
  /\ \/ disk["trust"] = "absent" /\ pins' = NoPins
     \/ disk["trust"] = "whole" /\ pins' = pinsOnDisk
  /\ phase' = "up"
  /\ UNCHANGED <<now, otp, exported, me, fresh, files, failures, usedIds, history>>

\* What was in memory is gone: codes, and decisions that were not saved.
Crash ==
  /\ phase # "down" /\ failures < MaxFailures
  /\ failures' = failures + 1
  /\ phase' = "down" /\ job' = "none"
  /\ me' = NoId /\ pins' = NoPins
  /\ pending' = [d \in Devices |-> NotPending]
  /\ decided' = [d \in Devices |-> IF standing[d] = "saved" THEN decided[d] ELSE NoPrint]
  /\ standing' = [d \in Devices |-> IF standing[d] = "saved" THEN "saved" ELSE "open"]
  /\ UNCHANGED <<now, issues, exported, fresh, tmp, disk, idOnDisk, pinsOnDisk, usedIds>>

Tick ==
  /\ now < MaxTime
  /\ now' = now + 1
  /\ UNCHANGED <<otp, pins, exported, phase, me, fresh, files, failures, usedIds, history>>

PeersInit ==
  /\ now = 0 /\ issues = <<>> /\ pending = [d \in Devices |-> NotPending]
  /\ pins = NoPins /\ exported = {} /\ phase = "down" /\ me = NoId /\ fresh = 0
  /\ job = "none" /\ tmp = [f \in File |-> "absent"] /\ disk = [f \in File |-> "absent"]
  /\ idOnDisk = NoId /\ pinsOnDisk = NoPins
  /\ failures = 0 /\ usedIds = {}
  /\ decided = NoPins /\ standing = [d \in Devices |-> "open"]

PeersNext ==
  \/ \E d \in Devices, code \in Codes : IssueCode(d, code) \/ Verify(d, code)
  \/ \E d \in Devices, fp \in Prints : RequirePin(d, fp)
  \/ \E d \in Devices : Revoke(d)
  \/ SweepExpired \/ Export \/ Import
  \/ SaveTrust \/ BeginWrite \/ EndWrite \/ Rename \/ IoError
  \/ Boot \/ LoadTrust \/ Crash \/ Tick

PeersSpec == PeersInit /\ [][PeersNext]_peersVars

-----------------------------------------------------------------------------
(***************************************************************************)
(* Properties.                                                             *)
(***************************************************************************)
PeersTypeOK ==
  /\ now \in 0..MaxTime
  /\ issues \in Seq(Issue)
  /\ pending \in [Devices -> [issue : Nat, attempts : Nat]]
  /\ pins \in [Devices -> Prints \cup {NoPrint}]
  /\ exported \subseteq [Devices -> Prints \cup {NoPrint}]
  /\ phase \in {"down", "identity", "trust", "up"}
  /\ fresh \in Nat /\ me \in 0..fresh /\ idOnDisk \in 0..fresh
  /\ job \in File \cup {"none"}
  /\ tmp \in [File -> Extent] /\ disk \in [File -> Extent]
  /\ pinsOnDisk \in [Devices -> Prints \cup {NoPrint}]
  /\ failures \in 0..MaxFailures
  /\ usedIds \subseteq 0..fresh
  /\ decided \in [Devices -> Prints \cup {NoPrint}]
  /\ standing \in [Devices -> Standing]

\* "6-digit codes, 120s expiry, 3 attempts": a code is accepted once at most,
\* in time, after fewer than MaxAttempts wrong guesses, and never after a
\* newer one was issued for the device, however guesses, sweeps, the clock and
\* crashes fall.
CodesAreEarned ==
  \A k \in DOMAIN issues :
    LET i == issues[k]
    IN  /\ i.accepted + i.wrong <= MaxAttempts
        /\ i.accepted <= 1
        /\ i.accepted = 1 => i.acceptedAt <= i.at + Ttl
        /\ IsPending(i.device) /\ (i.superseded \/ i.accepted = 1) => pending[i.device].issue > k

\* "A crash never leaves half a file", "stable identity across restarts": the
\* process never boots on a torn file and never goes by two identities,
\* wherever it died and whichever write failed.
StateSurvives ==
  /\ \A f \in File : disk[f] # "half"
  /\ \A i \in usedIds : i = idOnDisk
  /\ me # NoId /\ phase # "identity" => me = idOnDisk

\* verify_or_pin, revoke, import_json and save_trust together: what was last
\* decided about a device stands until the next decision.  The sighting of
\* another fingerprint is none and never replaces a pin; and once the decision
\* was saved, no crash, failed write or old temporary file takes it back, be it
\* a pin or a revocation.  (After a revocation the next sighting is a first
\* one, and a new decision: require_pin asks for no new pairing.)
DecisionsStand ==
  \A d \in Devices :
    /\ standing[d] = "saved" => pinsOnDisk[d] = decided[d]
    /\ standing[d] # "open" /\ Up => pins[d] = decided[d]
=============================================================================
