--------------------------- MODULE PlanLifecycle ---------------------------
(***************************************************************************)
(* What the transfer list promises about one plan, without the channels    *)
(* and tasks in between: the state the list shows for the plan, and what   *)
(* really happened to the files of the plan. TransferRows implements it.   *)
(***************************************************************************)
EXTENDS Naturals, FiniteSets

CONSTANT Job            \* the files a plan may hold

VARIABLES
    plan,       \* the state the list shows
    member,     \* the files the planner has published
    work,       \* what happened to each file
    failures,   \* files an attempt of which has failed
    asked       \* the user asked for a cancel

vars == <<plan, member, work, failures, asked>>

Ended == {"completed", "skipped", "failed"}

PlanStates == {"absent", "planning", "queued",
               "completed", "cancelled", "failed", "gone"}

TypeOK ==
    /\ plan \in PlanStates
    /\ member \subseteq Job
    /\ work \in [Job -> {"none", "live"} \cup Ended]
    /\ failures \subseteq Job
    /\ asked \in BOOLEAN

Init ==
    /\ plan = "absent"
    /\ member = {}
    /\ work = [j \in Job |-> "none"]
    /\ failures = {}
    /\ asked = FALSE

Begin ==
    /\ plan = "absent"
    /\ plan' = "planning"
    /\ UNCHANGED <<member, work, failures, asked>>

\* The planner may publish files as long as none has been handed over.
Publish ==
    /\ \A j \in Job : work[j] = "none"
    /\ member \subseteq member'
    /\ member' \subseteq Job
    /\ UNCHANGED <<plan, work, failures, asked>>

Ready ==
    /\ plan = "planning"
    /\ plan' = "queued"
    /\ UNCHANGED <<member, work, failures, asked>>

\* A file starts, ends, or never gets to start; only a failed one starts again.
LegalMove(j) ==
    \/ work'[j] = work[j]
    \/ work[j] = "none" /\ work'[j] \in {"live", "skipped", "failed"}
    \/ work[j] = "live" /\ work'[j] \in Ended
    \/ work[j] = "failed" /\ work'[j] = "live"

JobsMove ==
    /\ work' \in [Job -> {"none", "live"} \cup Ended]
    /\ \A j \in Job : LegalMove(j) /\ (work'[j] # "none" => j \in member)
    /\ failures' = failures \cup {j \in Job : work'[j] = "failed"}
    /\ UNCHANGED <<plan, member, asked>>

Ask ==
    /\ asked' = TRUE
    /\ UNCHANGED <<plan, member, work, failures>>

\* The list reports success only when every file arrived or was left out.
Complete ==
    /\ plan \in {"planning", "queued"}
    /\ \A j \in member : work[j] \in {"completed", "skipped"}
    /\ plan' = "completed"
    /\ UNCHANGED <<member, work, failures, asked>>

\* Preparing failed before any file was touched, or every file had its turn
\* and one of them failed.
Fail ==
    /\ \/ plan = "planning" /\ \A j \in Job : work[j] = "none"
       \/ plan = "queued" /\ failures # {} /\ \A j \in member : work[j] # "none"
    /\ plan' = "failed"
    /\ UNCHANGED <<member, work, failures, asked>>

Cancel ==
    /\ plan \in {"planning", "queued"}
    /\ asked
    /\ plan' = "cancelled"
    /\ UNCHANGED <<member, work, failures, asked>>

\* A finished plan may leave the list; nothing else happens to it.
Remove ==
    /\ plan \in {"completed", "cancelled", "failed"}
    /\ plan' = "gone"
    /\ UNCHANGED <<member, work, failures, asked>>

Next ==
    \/ Begin \/ Publish \/ Ready \/ JobsMove \/ Ask
    \/ Complete \/ Fail \/ Cancel \/ Remove

Spec == Init /\ [][Next]_vars
=============================================================================
