------------------------------ MODULE MCVoice ------------------------------
(* A handful of transcripts, one for each way through the rules, and a peer *)
(* that codes, for TLC.                                                    *)
EXTENDS Work

Wake == INSTANCE Wake

Said(wake, phrases) == [wake |-> wake, says |-> phrases]

\* A transfer, a transfer without a target, two risky texts that are also
\* transfers, questions, a text for the planner, and one without wake phrase.
TranscriptsUsed ==
  {Said(TRUE, {"send", "build", "laptop"}), Said(TRUE, {"send", "file"}),
   Said(TRUE, {"send", "delete", "file", "phone"}),
   Said(TRUE, {"send email", "send", "file", "server"}),
   Said(TRUE, {"battery", "status"}), Said(TRUE, {"recall"}),
   Said(TRUE, {"remind me", "remind"}), Said(TRUE, {"run"}), Said(TRUE, {"calendar"}),
   Said(TRUE, {}), Said(FALSE, {"battery"})}

ASSUME \A t \in TranscriptsUsed : Closed(t.says) /\ Decide(t.says) \in Decision

Words == UNION {[1..n -> {"x", "y"}] : n \in 0..6}
ASSUME \A phrase \in {<<"x", "y", "y", "x">>, <<"x", "x", "y">>, <<"x">>} :
  Wake!ToleratesTwoSlips(phrase, Words, {"x", "y"})
=============================================================================
