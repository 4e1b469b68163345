---------------------------- MODULE CommandContract ---------------------------
(***************************************************************************)
(* What the gates of scripts/quality count on when they await runCmd of     *)
(* exec.mjs: one verdict, "passed" only for a command that ended with code  *)
(* 0 within its time, and never another one.                               *)
(***************************************************************************)
CONSTANTS Pending, Codes, Success

VARIABLES
    code,      \* how the command ended, Pending before it has
    overdue,   \* its time was up before the verdict
    verdict    \* Pending, or TRUE or FALSE

ContractInit == code = Pending /\ overdue = FALSE /\ verdict = Pending

\* The command ends, or its time is up: both only while they are awaited.
Ends == code = Pending /\ code' \in Codes /\ UNCHANGED <<overdue, verdict>>

TimeIsUp ==
    /\ verdict = Pending
    /\ overdue' = TRUE
    /\ code' = IF code = Pending THEN "killed" ELSE code
    /\ UNCHANGED verdict

Passes ==
    /\ verdict = Pending /\ code = Success /\ ~overdue
    /\ verdict' = TRUE
    /\ UNCHANGED <<code, overdue>>

Fails ==
    /\ verdict = Pending /\ (code # Success \/ overdue)
    /\ verdict' = FALSE
    /\ UNCHANGED <<code, overdue>>

ContractSpec ==
    ContractInit /\ [][Ends \/ TimeIsUp \/ Passes \/ Fails]_<<code, overdue, verdict>>

================================================================================
