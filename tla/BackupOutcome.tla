--------------------------- MODULE BackupOutcome ---------------------------
(***************************************************************************)
(* What a backup object promises whoever reads its status, without the    *)
(* passes, jobs and volumes behind it: a backup that was asked for is     *)
(* pending until it is reported Succeeded or Failed, a report is final    *)
(* for as long as the object exists, and success is reported only of a    *)
(* backup whose upload is complete.                                       *)
(***************************************************************************)
CONSTANT Backups

VARIABLES
    outcome,    \* outcome[b]: what the object says
    uploaded    \* the backups with a complete upload

vars == <<outcome, uploaded>>

Outcomes == {"absent", "pending", "Succeeded", "Failed"}

TypeOK ==
    /\ outcome \in [Backups -> Outcomes]
    /\ uploaded \subseteq Backups

Init ==
    /\ outcome = [b \in Backups |-> "absent"]
    /\ uploaded = {}

Request(b) ==
    /\ outcome[b] = "absent"
    /\ outcome' = [outcome EXCEPT ![b] = "pending"]
    /\ UNCHANGED uploaded

\* The upload may end after the object is gone, or after it was called Failed.
Upload(b) ==
    /\ uploaded' = uploaded \cup {b}
    /\ UNCHANGED outcome

ReportSuccess(b) ==
    /\ outcome[b] = "pending"
    /\ b \in uploaded
    /\ outcome' = [outcome EXCEPT ![b] = "Succeeded"]
    /\ UNCHANGED uploaded

ReportFailure(b) ==
    /\ outcome[b] = "pending"
    /\ outcome' = [outcome EXCEPT ![b] = "Failed"]
    /\ UNCHANGED uploaded

Withdraw(b) ==
    /\ outcome[b] # "absent"
    /\ outcome' = [outcome EXCEPT ![b] = "absent"]
    /\ UNCHANGED uploaded

\* Data on a volume goes with the object that owns the volume.
LoseVolume(b) ==
    /\ uploaded' = uploaded \ {b}
    /\ outcome[b] # "Succeeded"
    /\ UNCHANGED outcome

Next ==
    \E b \in Backups :
        \/ Request(b)
        \/ Upload(b)
        \/ ReportSuccess(b)
        \/ ReportFailure(b)
        \/ Withdraw(b)
        \/ LoseVolume(b)

Spec == Init /\ [][Next]_vars
=============================================================================
