---------------------------- MODULE TransferRows ----------------------------
(***************************************************************************)
(* One transfer plan from the user's click to the rows of the transfer     *)
(* list: the planner that publishes the files while it walks the tree, the *)
(* handoff task that gives them to the transfer manager and its planning   *)
(* guard, the manager and its job tasks, and the store that folds the      *)
(* events of all of them into rows. They talk through two queues: requests *)
(* to the manager and events to the user interface.                        *)
(*                                                                         *)
(* The manager appears with the choices that the rows can tell apart; its  *)
(* scheduling, counters and sessions are in TransferManager. Commands of   *)
(* the user reach the runtime in the step that issues them: the store      *)
(* influences the runtime only through the user, so a command that travels *)
(* is the same as a store that lags behind, which `events' allows.         *)
(***************************************************************************)
EXTENDS Naturals, Sequences, FiniteSets, Functions

CONSTANTS
    Files,      \* how many files the planner may find
    Batch,      \* PLAN_PROGRESS_BATCH_SIZE
    Capacity,   \* event_channel_capacity
    MaxAsks     \* bound: cancels and retries the user asks for

ASSUME RowsAssumption ==
    /\ Files \in Nat \ {0} /\ Batch \in Nat \ {0} /\ MaxAsks \in Nat
    /\ Capacity \in Nat /\ Capacity >= Files

Job  == 1 .. Files
Root == 0               \* root_job_id, a row that is never a job
Rows == Job \cup {Root}
First == 1              \* jobs.first(), the manager's plan root

Final == {"completed", "skipped", "failed", "failedFinal"}
RowStates == {"absent", "planning", "queued", "running", "waiting",
              "cancelling"} \cup Final
TerminalPlan == {"completed", "cancelled", "failed"}
JobStates == {"none", "queued", "opening", "asking", "answered", "working",
              "ended", "done"}

VARIABLES
    pc,         \* where planner and handoff task are
    emitted,    \* files the planner has found
    published,  \* files it has sent in a PlanProgress
    guard,      \* planning_cancellations holds the root's token
    token,      \* the planning token is cancelled
    requests,   \* the manager's request channel
    recorded,   \* cancelled_before_enqueue
    rootKnown,  \* plan_root_jobs holds the plan
    routes,     \* retry_routes
    job,        \* state of each job in the manager
    stop,       \* running jobs whose token is cancelled
    events,     \* the event channel to the user interface
    plan,       \* the plan's state in the store
    kids,       \* its child_jobs
    rows,       \* the rows of the store
    conflicts,  \* jobs with a pending conflict in the store
    out,        \* what the last attempt of each job came to
    failures,   \* jobs an attempt of which failed
    asks,       \* cancels and retries asked for
    cancelled,  \* the user asked for a cancel
    cleared,    \* the user cleared finished rows
    dropped     \* the planning request died with its session

planner == <<pc, emitted, published, guard, token>>
manager == <<recorded, rootKnown, routes, job, stop, out, failures>>
store   == <<plan, kids, rows, conflicts>>
user    == <<asks, cancelled, cleared>>
vars == <<planner, manager, store, user, requests, events, dropped>>

PlanEvents == {"planCompleted", "planCancelled", "planFailed", "planFailedFinal"}
JobEvents  == {"running", "conflict", "moved"} \cup Final

\* An event of a job names that job.
EventRecords ==
    [type : {"started"}, ids : {{Root}}] \cup [type : {"progress"}, ids : SUBSET Job]
    \cup [type : PlanEvents, ids : {{}}] \cup [type : JobEvents, ids : {{j} : j \in Job}]

RequestRecords ==
    [type : {"enqueue", "cancel", "cancelPlan", "forget", "retry"}, id : Rows]

TypeOK ==
    /\ pc \in {"idle", "planning", "finishing", "none", "planned", "sent", "over"}
    /\ emitted \in 0 .. Files
    /\ published \in 0 .. emitted
    /\ guard \in BOOLEAN /\ token \in BOOLEAN
    /\ requests \in Seq(RequestRecords)
    /\ recorded \subseteq Rows
    /\ rootKnown \in BOOLEAN
    /\ routes \subseteq Job
    /\ job \in [Job -> JobStates]
    /\ stop \subseteq Job
    /\ events \in Seq(EventRecords)
    /\ plan \in {"absent", "planning", "queued", "gone"} \cup TerminalPlan
    /\ kids \subseteq Job
    /\ rows \in [Rows -> RowStates]
    /\ conflicts \subseteq Job
    /\ out \in [Job -> {"none"} \cup Final]
    /\ failures \subseteq Job
    /\ asks \in 0 .. MaxAsks
    /\ {cancelled, cleared, dropped} \subseteq BOOLEAN

Init ==
    /\ pc = "idle" /\ emitted = 0 /\ published = 0
    /\ guard = FALSE /\ token = FALSE
    /\ requests = <<>> /\ events = <<>>
    /\ recorded = {} /\ rootKnown = FALSE /\ routes = {}
    /\ job = [j \in Job |-> "none"] /\ stop = {}
    /\ plan = "absent" /\ kids = {}
    /\ rows = [r \in Rows |-> "absent"] /\ conflicts = {}
    /\ out = [j \in Job |-> "none"] /\ failures = {}
    /\ asks = 0 /\ cancelled = FALSE /\ cleared = FALSE /\ dropped = FALSE

Event(t, S)   == [type |-> t, ids |-> S]
Request(t, i) == [type |-> t, id |-> i]

\* The event channel is bounded: a sender waits for room.
EmitSeq(es) ==
    /\ Len(events) + Len(es) <= Capacity
    /\ events' = events \o es

Emit(t, S)    == EmitSeq(<<Event(t, S)>>)

\* One event for each of the jobs, in their order.
EmitAll(t, S) ==
    \E order \in [1 .. Cardinality(S) -> S] :
        /\ Range(order) = S
        /\ \A i, k \in DOMAIN order : i < k => order[i] < order[k]
        /\ EmitSeq([i \in DOMAIN order |-> Event(t, {order[i]})])

Send(t, i)    == requests' = Append(requests, Request(t, i))

-----------------------------------------------------------------------------
\* The planner.

\* StartTransfer: the guard is in place before the first event.
StartTransfer ==
    /\ pc = "idle"
    /\ pc' = "planning"
    /\ guard' = TRUE
    /\ Emit("started", {Root})
    /\ UNCHANGED <<emitted, published, token, requests, dropped>>
    /\ UNCHANGED <<manager, store, user>>

Unpublished(n) == (published + 1) .. n

\* emit_child and queue_progress: the first file is sent at once, the others
\* in batches.
EmitChild ==
    /\ pc = "planning" /\ ~token
    /\ emitted < Files
    /\ emitted' = emitted + 1
    /\ IF emitted' = 1 \/ emitted' - published >= Batch
       THEN published' = emitted' /\ Emit("progress", Unpublished(emitted'))
       ELSE UNCHANGED <<published, events>>
    /\ UNCHANGED <<pc, guard, token, requests, dropped>>
    /\ UNCHANGED <<manager, store, user>>

\* finish_error with a cancelled error, and both checks of finish.
PlannerCancelled ==
    /\ pc \in {"planning", "finishing"} /\ token
    /\ pc' = "none"
    /\ Emit("planCancelled", {})
    /\ UNCHANGED <<emitted, published, guard, token, requests, dropped>>
    /\ UNCHANGED <<manager, store, user>>

\* fail: the walk met an error, or the session could not open a channel.
PlannerFails ==
    /\ pc = "planning"
    /\ pc' = "none"
    /\ \E t \in {"planFailed", "planFailedFinal"} : Emit(t, {})
    /\ UNCHANGED <<emitted, published, guard, token, requests, dropped>>
    /\ UNCHANGED <<manager, store, user>>

\* The session closes with the planning request still in its mailbox: the
\* responder is dropped, and nobody reports anything.
PlanningDropped ==
    /\ pc = "planning" /\ emitted = 0
    /\ pc' = "none"
    /\ dropped' = TRUE
    /\ UNCHANGED <<emitted, published, guard, token, requests, events>>
    /\ UNCHANGED <<manager, store, user>>

\* finish, up to its second check.
FinishFlush ==
    /\ pc = "planning" /\ ~token
    /\ pc' = "finishing"
    /\ published' = emitted
    /\ IF published < emitted THEN Emit("progress", Unpublished(emitted))
                              ELSE UNCHANGED events
    /\ UNCHANGED <<emitted, guard, token, requests, dropped>>
    /\ UNCHANGED <<manager, store, user>>

FinishComplete ==
    /\ pc = "finishing" /\ ~token
    /\ pc' = "planned"
    /\ Emit("planCompleted", {})
    /\ UNCHANGED <<emitted, published, guard, token, requests, dropped>>
    /\ UNCHANGED <<manager, store, user>>

-----------------------------------------------------------------------------
\* The handoff task.

\* No jobs came out of planning: take_planning_guard, emit_plan_cancelled if
\* the user asked, forget_plan_cancellations.
NothingPlanned ==
    /\ pc = "none"
    /\ pc' = "over"
    /\ guard' = FALSE
    /\ IF token THEN Emit("planCancelled", {}) ELSE UNCHANGED events
    /\ Send("forget", Root)
    /\ UNCHANGED <<emitted, published, token, dropped>>
    /\ UNCHANGED <<manager, store, user>>

\* A cancel that is seen before the jobs were sent.
HandoffCancelled ==
    /\ pc = "planned" /\ token
    /\ pc' = "over"
    /\ guard' = FALSE
    /\ Emit("planCancelled", {})
    /\ Send("forget", Root)
    /\ UNCHANGED <<emitted, published, token, dropped>>
    /\ UNCHANGED <<manager, store, user>>

\* No connection for the transfer: fail_planned_jobs, one event for each job.
HandoffFails ==
    /\ pc = "planned" /\ ~token
    /\ pc' = "over"
    /\ guard' = FALSE
    /\ EmitAll("failedFinal", 1 .. emitted)
    /\ out' = [j \in Job |-> IF j <= emitted THEN "failedFinal" ELSE out[j]]
    /\ job' = [j \in Job |-> IF j <= emitted THEN "done" ELSE job[j]]
    /\ failures' = failures \cup (1 .. emitted)
    /\ Send("forget", Root)
    /\ UNCHANGED <<emitted, published, token, dropped, recorded, rootKnown>>
    /\ UNCHANGED <<routes, stop, store, user>>

\* The token may be cancelled between the check and the send: `select!' takes
\* either branch.
SendEnqueue ==
    /\ pc = "planned"
    /\ pc' = "sent"
    /\ Send("enqueue", Root)
    /\ UNCHANGED <<emitted, published, guard, token, events, dropped>>
    /\ UNCHANGED <<manager, store, user>>

\* Mutant: the guard is released without looking at the token again.
TakePlanningGuardMut ==
    /\ pc = "sent"
    /\ pc' = "over"
    /\ guard' = FALSE
    /\ UNCHANGED <<emitted, published, token, requests, events, dropped>>
    /\ UNCHANGED <<manager, store, user>>

\* take_planning_guard after the send: one locked step releases the guard and
\* reads the token.
TakePlanningGuard ==
    /\ pc = "sent"
    /\ pc' = "over"
    /\ guard' = FALSE
    /\ IF token THEN Send("cancelPlan", Root) ELSE UNCHANGED requests
    /\ UNCHANGED <<emitted, published, token, events, dropped>>
    /\ UNCHANGED <<manager, store, user>>

-----------------------------------------------------------------------------
\* The transfer manager.

Running == {j \in Job : job[j] \notin {"none", "queued", "done"}}
Queued  == {j \in Job : job[j] = "queued"}

Head1 == Head(requests)
Handles(t) ==
    /\ requests # <<>>
    /\ Head1.type = t
    /\ requests' = Tail(requests)
    /\ UNCHANGED <<planner, store, user, dropped>>

\* cleanup_plan_if_idle, given what the step leaves behind.
CleanupPlanIfIdle(jobs, rts, known, recs) ==
    LET idle == rts = {} /\ \A j \in Job : jobs[j] \in {"none", "done"}
    IN  /\ rootKnown' = (known /\ ~idle)
        /\ recorded' = IF idle THEN {} ELSE recs

\* The first job was cancelled before the enqueue: so is the plan.
EnqueueCancelled ==
    /\ Handles("enqueue")
    /\ emitted > 0 /\ First \in recorded
    /\ recorded' = {}
    /\ Emit("planCancelled", {})
    /\ job' = [j \in Job |-> IF j <= emitted THEN "done" ELSE job[j]]
    /\ out' = [j \in Job |-> IF j <= emitted THEN "skipped" ELSE out[j]]
    /\ UNCHANGED <<rootKnown, routes, stop, failures>>

\* Mutant: a job that was cancelled before the enqueue is dropped in silence.
EnqueueMut ==
    /\ Handles("enqueue")
    /\ First \notin recorded
    /\ LET skipped == recorded \cap 1 .. emitted
           jobs == [j \in Job |-> IF j \in skipped THEN "done"
                                  ELSE IF j <= emitted THEN "queued" ELSE job[j]]
       IN  /\ job' = jobs
           /\ out' = [j \in Job |-> IF j \in skipped THEN "skipped" ELSE out[j]]
           /\ rootKnown' = (emitted > 0)
           /\ recorded' = {}
    /\ UNCHANGED <<events, routes, stop, failures>>

\* enqueue: the jobs whose cancel came first are skipped, the others queued.
Enqueue ==
    /\ Handles("enqueue")
    /\ First \notin recorded
    /\ LET skipped == recorded \cap 1 .. emitted
           jobs == [j \in Job |-> IF j \in skipped THEN "done"
                                  ELSE IF j <= emitted THEN "queued" ELSE job[j]]
       IN  /\ job' = jobs
           /\ out' = [j \in Job |-> IF j \in skipped THEN "skipped" ELSE out[j]]
           /\ EmitAll("skipped", skipped)
           /\ rootKnown' = (emitted > 0)
           /\ recorded' = {}
    /\ UNCHANGED <<routes, stop, failures>>

\* forget_cancellations_for_plan
ForgetPlan ==
    /\ Handles("forget")
    /\ recorded' = {}
    /\ UNCHANGED <<rootKnown, routes, job, stop, events, out, failures>>

\* A queued job that a plan cancel drops keeps the outcome of an earlier try.
Dropped(j) == IF out[j] = "none" THEN "skipped" ELSE out[j]

\* Mutant: the manager stops the jobs but does not report the plan.
DoCancelPlanMut ==
    /\ recorded' = {}
    /\ job' = [j \in Job |-> IF j \in Queued THEN "done" ELSE job[j]]
    /\ out' = [j \in Job |-> IF j \in Queued THEN Dropped(j) ELSE out[j]]
    /\ stop' = stop \cup Running
    /\ rootKnown' = (rootKnown /\ Queued \cup Running = {})
    /\ UNCHANGED <<events, routes, failures>>

\* cancel_plan: one event covers the jobs it drops and the ones it stops.
DoCancelPlan ==
    /\ recorded' = {}
    /\ job' = [j \in Job |-> IF j \in Queued THEN "done" ELSE job[j]]
    /\ out' = [j \in Job |-> IF j \in Queued THEN Dropped(j) ELSE out[j]]
    /\ stop' = stop \cup Running
    /\ IF Queued \cup Running # {}
       THEN Emit("planCancelled", {}) /\ rootKnown' = FALSE
       ELSE UNCHANGED <<events, rootKnown>>
    /\ UNCHANGED <<routes, failures>>

CancelPlan == Handles("cancelPlan") /\ DoCancelPlan

\* Cancel, aimed at the job the manager takes for the plan's root.
CancelRoot ==
    /\ Handles("cancel")
    /\ rootKnown /\ Head1.id = First
    /\ DoCancelPlan

IsPlanRoot(id) == rootKnown /\ id = First

CancelQueued ==
    /\ Handles("cancel")
    /\ ~IsPlanRoot(Head1.id) /\ Head1.id \in Queued
    /\ job' = [job EXCEPT ![Head1.id] = "done"]
    /\ out' = [out EXCEPT ![Head1.id] = "skipped"]
    /\ Emit("skipped", {Head1.id})
    /\ CleanupPlanIfIdle(job', routes, rootKnown, recorded)
    /\ UNCHANGED <<routes, stop, failures>>

CancelRunning ==
    /\ Handles("cancel")
    /\ ~IsPlanRoot(Head1.id) /\ Head1.id \in Running
    /\ stop' = stop \cup {Head1.id}
    /\ UNCHANGED <<recorded, rootKnown, routes, job, events, out, failures>>

\* record_pending_cancel: not here yet, or already finished.
CancelUnknown ==
    /\ Handles("cancel")
    /\ ~IsPlanRoot(Head1.id) /\ Head1.id \notin Queued \cup Running
    /\ recorded' = recorded \cup {Head1.id}
    /\ UNCHANGED <<rootKnown, routes, job, stop, events, out, failures>>

\* Retry with a usable connection: the job is queued again.
Retry ==
    /\ Handles("retry")
    /\ Head1.id \in routes
    /\ routes' = routes \ {Head1.id}
    /\ job' = [job EXCEPT ![Head1.id] = "queued"]
    /\ recorded' = {}
    /\ UNCHANGED <<rootKnown, stop, events, out, failures>>

\* Retry without one: the failure is reported again and the route kept.
RetryWithoutConnection ==
    /\ Handles("retry")
    /\ Head1.id \in routes
    /\ recorded' = recorded \ {Head1.id}
    /\ Emit("failed", {Head1.id})
    /\ UNCHANGED <<rootKnown, routes, job, stop, out, failures>>

\* The route is not there (yet): the request is dropped.
RetryUnknown ==
    /\ Handles("retry")
    /\ Head1.id \notin routes
    /\ UNCHANGED <<recorded, rootKnown, routes, job, stop, events, out, failures>>

HandleRequest ==
    \/ EnqueueCancelled \/ Enqueue \/ ForgetPlan \/ CancelPlan \/ CancelRoot
    \/ CancelQueued \/ CancelRunning \/ CancelUnknown
    \/ Retry \/ RetryWithoutConnection \/ RetryUnknown

-----------------------------------------------------------------------------
\* The job tasks.

JobTask(j) ==
    UNCHANGED <<planner, store, user, requests, dropped, recorded, rootKnown, routes>>

StartJob(j) ==
    /\ job[j] = "queued"
    /\ job' = [job EXCEPT ![j] = "opening"]
    /\ stop' = stop \ {j}
    /\ UNCHANGED <<events, out, failures>>
    /\ JobTask(j)

\* resolve_transfer_conflict: the destination exists and the policy is to ask.
AskConflict(j) ==
    /\ job[j] = "opening"
    /\ job' = [job EXCEPT ![j] = "asking"]
    /\ Emit("conflict", {j})
    /\ UNCHANGED <<stop, out, failures>>
    /\ JobTask(j)

\* emit_transfer_running
BeginWork(j) ==
    /\ job[j] \in {"opening", "answered"}
    /\ job' = [job EXCEPT ![j] = "working"]
    /\ Emit("running", {j})
    /\ UNCHANGED <<stop, out, failures>>
    /\ JobTask(j)

\* emit_transfer_progress
MakeProgress(j) ==
    /\ job[j] = "working"
    /\ Emit("moved", {j})
    /\ UNCHANGED <<job, stop, out, failures>>
    /\ JobTask(j)

\* What an attempt may come to at this point: a job is skipped by its policy,
\* by the answer to its conflict, or because its token was cancelled.
Outcomes(j) ==
    CASE job[j] = "opening" -> {"skipped", "failed", "failedFinal"}
      [] job[j] = "asking" -> IF j \in stop THEN {"skipped"} ELSE {}
      [] job[j] = "answered" -> {"skipped", "failed", "failedFinal"}
      [] job[j] = "working" ->
            {"completed", "failed", "failedFinal"}
                \cup IF j \in stop THEN {"skipped"} ELSE {}
      [] OTHER -> {}

\* The terminal event of run_transfer_job.
EndAttempt(j) ==
    \E r \in Outcomes(j) :
        /\ job' = [job EXCEPT ![j] = "ended"]
        /\ out' = [out EXCEPT ![j] = r]
        /\ failures' = IF r \in {"failed", "failedFinal"} THEN failures \cup {j}
                                                          ELSE failures
        /\ Emit(r, {j})
        /\ UNCHANGED <<stop>>
        /\ JobTask(j)

\* handle_completed
HandleCompleted(j) ==
    /\ job[j] = "ended"
    /\ job' = [job EXCEPT ![j] = "done"]
    /\ routes' = IF out[j] = "failed" THEN routes \cup {j} ELSE routes \ {j}
    /\ stop' = stop \ {j}
    /\ CleanupPlanIfIdle(job', routes', rootKnown, recorded)
    /\ UNCHANGED <<planner, store, user, requests, events, dropped>>
    /\ UNCHANGED <<out, failures>>

JobStep(j) ==
    \/ StartJob(j) \/ AskConflict(j) \/ BeginWork(j)
    \/ EndAttempt(j) \/ HandleCompleted(j)

-----------------------------------------------------------------------------
\* The store: TransferStore::apply_event.

PlanFound == plan \notin {"absent", "gone"}
PlanOver  == plan \in TerminalPlan
Present(r) == rows[r] # "absent"

ApplyStarted ==
    /\ plan' = IF plan = "absent" THEN "planning" ELSE plan
    /\ rows' = IF Present(Root) THEN rows ELSE [rows EXCEPT ![Root] = "planning"]
    /\ UNCHANGED <<kids, conflicts>>

\* A finished plan is not extended, and gets no rows either.
ApplyProgress(ids) ==
    /\ IF PlanFound /\ PlanOver
       THEN UNCHANGED <<kids, rows>>
       ELSE /\ kids' = IF PlanFound THEN kids \cup ids ELSE kids
            /\ rows' = [r \in Rows |->
                           IF r \in ids /\ ~Present(r) THEN "queued" ELSE rows[r]]
    /\ UNCHANGED <<plan, conflicts>>

ApplyPlanCompleted ==
    /\ IF ~PlanFound \/ PlanOver
       THEN UNCHANGED <<plan, rows>>
       ELSE LET s == IF kids = {} THEN "completed" ELSE "queued"
            IN  /\ plan' = s
                /\ rows' = IF Present(Root) THEN [rows EXCEPT ![Root] = s] ELSE rows
    /\ UNCHANGED <<kids, conflicts>>

\* Mutant: a plan cancel also rewrites the rows that had finished.
SetPlanCancelledMut ==
    LET unfinished == {r \in kids \cup {Root} : Present(r) /\ rows[r] \notin Final}
    IN  /\ IF PlanFound /\ plan \notin {"cancelled", "failed"} /\ unfinished # {}
           THEN /\ plan' = "cancelled"
                /\ rows' = [r \in Rows |-> IF Present(r) THEN "skipped" ELSE rows[r]]
           ELSE UNCHANGED <<plan, rows>>
        /\ UNCHANGED <<kids, conflicts>>

\* set_plan_cancelled: only rows that have not finished are touched, and the
\* plan is cancelled only if there was one.
SetPlanCancelled ==
    LET unfinished == {r \in kids \cup {Root} : Present(r) /\ rows[r] \notin Final}
    IN  /\ IF PlanFound /\ plan \notin {"cancelled", "failed"} /\ unfinished # {}
           THEN /\ plan' = "cancelled"
                /\ rows' = [r \in Rows |->
                               IF r \in unfinished THEN "skipped" ELSE rows[r]]
           ELSE UNCHANGED <<plan, rows>>
        /\ UNCHANGED <<kids, conflicts>>

\* set_plan_terminal_state with a failure: every row of the plan takes it.
SetPlanFailed(s) ==
    /\ IF PlanFound
       THEN /\ plan' = "failed"
            /\ rows' = [r \in Rows |->
                           IF r \in kids \cup {Root} /\ Present(r) THEN s ELSE rows[r]]
       ELSE UNCHANGED <<plan, rows>>
    /\ UNCHANGED <<kids, conflicts>>

\* Running: upsert_job puts the row back if it was cleared.
ApplyRunning(j) ==
    /\ rows' = [rows EXCEPT ![j] = "running"]
    /\ UNCHANGED <<plan, kids, conflicts>>

ApplyConflict(j) ==
    /\ rows' = IF Present(j) THEN [rows EXCEPT ![j] = "waiting"] ELSE rows
    /\ conflicts' = conflicts \cup {j}
    /\ UNCHANGED <<plan, kids>>

\* Progress does not undo a cancel or an outcome.
ApplyMoved(j) ==
    /\ rows' = IF Present(j) /\ rows[j] \notin Final \cup {"cancelling"}
               THEN [rows EXCEPT ![j] = "running"] ELSE rows
    /\ UNCHANGED <<plan, kids, conflicts>>

\* Mutant: the plan is finished when the rows that are left have finished.
AllFinishedMut(rs) == \E k \in kids : rs[k] \in Final

\* finalize_plan_for_job counts the finished rows against child_jobs: a row
\* that was cleared keeps the plan open.
AllFinished(rs) == \A k \in kids : rs[k] \in Final

FinalizePlanForJob(j, rs) ==
    IF PlanFound /\ j \in kids /\ ~PlanOver /\ AllFinished(rs)
    THEN LET s == IF \E k \in kids : rs[k] \in {"failed", "failedFinal"}
                  THEN "failed" ELSE "completed"
         IN  /\ plan' = s
             /\ rows' = IF Present(Root) THEN [rs EXCEPT ![Root] = s] ELSE rs
    ELSE rows' = rs /\ plan' = plan

\* Mutant: an ended job leaves its conflict on the screen.
SetTransferTerminalMut(j, s) ==
    /\ UNCHANGED <<kids, conflicts>>
    /\ FinalizePlanForJob(j, IF Present(j) THEN [rows EXCEPT ![j] = s] ELSE rows)

SetTransferTerminal(j, s) ==
    /\ conflicts' = conflicts \ {j}
    /\ UNCHANGED kids
    /\ FinalizePlanForJob(j, IF Present(j) THEN [rows EXCEPT ![j] = s] ELSE rows)

Reduce(e) ==
    \/ e.type = "started" /\ ApplyStarted
    \/ e.type = "progress" /\ ApplyProgress(e.ids)
    \/ e.type = "planCompleted" /\ ApplyPlanCompleted
    \/ e.type = "planCancelled" /\ SetPlanCancelled
    \/ e.type = "planFailed" /\ SetPlanFailed("failed")
    \/ e.type = "planFailedFinal" /\ SetPlanFailed("failedFinal")
    \/ e.type = "running" /\ \E j \in e.ids : ApplyRunning(j)
    \/ e.type = "conflict" /\ \E j \in e.ids : ApplyConflict(j)
    \/ e.type = "moved" /\ \E j \in e.ids : ApplyMoved(j)
    \/ e.type \in Final /\ \E j \in e.ids : SetTransferTerminal(j, e.type)

ApplyEvent ==
    /\ events # <<>>
    /\ Reduce(Head(events))
    /\ events' = Tail(events)
    /\ UNCHANGED <<planner, manager, user, requests, dropped>>

-----------------------------------------------------------------------------
\* The user, at the rows of the list.

\* visible_transfer_jobs: the list shows the root or the files, never both.
Visible(r) ==
    LET showRoot ==
            \/ kids = {} \/ plan \in {"planning", "cancelled"}
            \/ plan = "failed" /\ ~AllFinished(rows)
    IN  PlanFound => IF r = Root THEN showRoot ELSE ~(showRoot /\ r \in kids)

\* A cancel control is on the root while it reads "Preparing", and on a queued
\* or running job; "Cancel all" also reaches a job that waits for an answer.
CancelControl(r) ==
    /\ Visible(r)
    /\ \/ rows[r] = "planning"
       \/ r # Root /\ rows[r] \in {"queued", "running", "waiting"}

MarkCancelling(r) ==
    rows' = IF rows[r] \in {"queued", "running"}
            THEN [rows EXCEPT ![r] = "cancelling"] ELSE rows

\* CancelTransfer: with the guard in place the token takes the cancel, under
\* the lock; afterwards the manager does.
CancelTransfer(r) ==
    /\ asks < MaxAsks
    /\ CancelControl(r)
    /\ asks' = asks + 1
    /\ cancelled' = TRUE
    /\ MarkCancelling(r)
    /\ IF r = Root /\ guard
       THEN token' = TRUE /\ UNCHANGED requests
       ELSE Send("cancel", r) /\ UNCHANGED token
    /\ UNCHANGED <<pc, emitted, published, guard, manager>>
    /\ UNCHANGED <<plan, kids, conflicts, events, cleared, dropped>>

\* RetryTransfer of a job. (Retrying the root of a plan that failed starts
\* another plan with rows of its own.)
RetryTransfer(j) ==
    /\ asks < MaxAsks
    /\ Visible(j) /\ rows[j] = "failed"
    /\ asks' = asks + 1
    /\ Send("retry", j)
    /\ UNCHANGED <<planner, manager, store, events, cancelled, cleared, dropped>>

\* The answer goes to the job if it still waits; with "apply to all" also to
\* the others that wait. The dialog is taken down either way.
ResolveConflict(j, all) ==
    /\ j \in conflicts
    /\ conflicts' = conflicts \ {j}
    /\ job' = [k \in Job |-> IF job[k] = "asking" /\ (k = j \/ (all /\ job[j] = "asking"))
                             THEN "answered" ELSE job[k]]
    /\ UNCHANGED <<planner, user, requests, events, dropped, plan, kids, rows>>
    /\ UNCHANGED <<recorded, rootKnown, routes, stop, out, failures>>

\* clear_terminal: finished rows go, and the plan when none of its rows is left.
ClearTerminal ==
    LET left == {r \in Rows : Present(r) /\ rows[r] \notin Final}
    IN  /\ \E r \in Rows : rows[r] \in Final
        /\ rows' = [r \in Rows |-> IF r \in left THEN rows[r] ELSE "absent"]
        /\ plan' = IF PlanFound /\ (kids \cup {Root}) \cap left = {} THEN "gone" ELSE plan
        /\ cleared' = TRUE
        /\ UNCHANGED <<planner, manager, requests, events, dropped>>
        /\ UNCHANGED <<kids, conflicts, asks, cancelled>>

-----------------------------------------------------------------------------
PlannerStep ==
    \/ EmitChild \/ PlannerCancelled \/ PlannerFails \/ PlanningDropped
    \/ FinishFlush \/ FinishComplete
    \/ NothingPlanned \/ HandoffCancelled \/ HandoffFails \/ SendEnqueue
    \/ TakePlanningGuard

UserStep ==
    \/ \E r \in Rows : CancelTransfer(r)
    \/ \E j \in Job : RetryTransfer(j)
    \/ \E j \in Job, all \in BOOLEAN : ResolveConflict(j, all)
    \/ ClearTerminal

Next ==
    \/ StartTransfer
    \/ PlannerStep
    \/ HandleRequest
    \/ \E j \in Job : JobStep(j) \/ MakeProgress(j)
    \/ ApplyEvent
    \/ UserStep

Spec == Init /\ [][Next]_vars

\* Tasks and channels make progress; the user need not do anything. A sender
\* that waits for room in the event channel is served in its turn, and a file
\* has an end: progress reports hold nobody up for ever.
Fairness ==
    /\ SF_vars(PlannerStep)
    /\ SF_vars(HandleRequest)
    /\ WF_vars(ApplyEvent)
    /\ \A j \in Job : SF_vars(JobStep(j))

FairSpec == Spec /\ Fairness

-----------------------------------------------------------------------------
\* Safety

\* Once the event channel is empty, the row of a job whose attempt is over
\* shows what that attempt came to: no plan cancel, late progress report or
\* repeated event has rewritten it (apply_event).
RowsTellTheOutcome ==
    events = <<>> =>
        \A j \in Job : job[j] \in {"ended", "done"} /\ Present(j) => rows[j] = out[j]

\* No dialog stays for a job that is over once the events are applied, though
\* a plan cancel does not take dialogs down (set_transfer_terminal).
ConflictsAreLive ==
    events = <<>> => conflicts \subseteq Running

\* A cancel that the planning token took leaves no job of the plan waiting for
\* its first attempt: the guard is released and the token read in one step, so
\* the manager gets a plan cancel behind the enqueue (take_planning_guard).
PlanningCancelWins ==
    pc = "over" /\ token /\ requests = <<>> =>
        \A j \in Queued : out[j] # "none"

-----------------------------------------------------------------------------
\* The list as an implementation of its promise.

WorkOf(j) ==
    CASE job[j] = "none" -> "none"
      [] job[j] \in {"ended", "done"} ->
            IF out[j] = "failedFinal" THEN "failed" ELSE out[j]
      [] OTHER -> "live"

Lifecycle == INSTANCE PlanLifecycle WITH
    member <- 1 .. published,
    work   <- [j \in Job |-> WorkOf(j)],
    asked  <- cancelled

\* Planner, handoff, manager, jobs and store together implement PlanLifecycle:
\* a plan reads completed only when every published file arrived or was left
\* out, cancelled only when the user asked, and a finished plan never changes.
ImplementsLifecycle == Lifecycle!Spec

-----------------------------------------------------------------------------
\* Liveness

\* If the conflicts are answered in the end, a plan reaches its end, unless the
\* user clears rows while it runs or its planning request died unanswered.
PlanEnds ==
    <>[](\A j \in Job : job[j] # "asking") =>
        (plan \in {"planning", "queued"} ~> (PlanOver \/ plan = "gone" \/ cleared \/ dropped))

\* A row that reads "Cancelling" does not do so for ever.
CancellingSettles ==
    \A j \in Job : rows[j] = "cancelling" ~> rows[j] # "cancelling"

-----------------------------------------------------------------------------
(* The inductive invariant behind PlanningCancelWins and ConflictsAreLive. *)

\* The guard is in place from the start to the end of planning and handoff.
GuardInPlace == guard <=> pc \in {"planning", "finishing", "none", "planned", "sent"}

Asked(t) == \E i \in 1 .. Len(requests) : requests[i].type = t

NoJobs == \A j \in Job : job[j] = "none"

OneEnqueue ==
    \A i, k \in 1 .. Len(requests) :
        requests[i].type = "enqueue" /\ requests[k].type = "enqueue" => i = k

\* The jobs are handed over once, and exist from then on; no plan cancel is asked
\* for before.
HandedOverOnce ==
    /\ pc \notin {"sent", "over"} => ~Asked("enqueue") /\ NoJobs
    /\ pc # "over" => ~Asked("cancelPlan")
    /\ Asked("enqueue") => NoJobs
    /\ OneEnqueue

\* The jobs are in the manager's channel with a plan cancel behind them.
CancelBehindJobs ==
    \A i \in 1 .. Len(requests) : requests[i].type = "enqueue" =>
        \E k \in 1 .. Len(requests) : k > i /\ requests[k].type = "cancelPlan"

\* Jobs that wait for their first attempt.
Untried == {j \in Job : job[j] = "queued" /\ out[j] = "none"}

\* A plan cancel follows the jobs into the manager's channel.
CancelFollows ==
    pc = "over" /\ token => CancelBehindJobs /\ (Untried # {} => Asked("cancelPlan"))

\* A job that can be retried has failed.
RetriesHaveFailed == \A j \in routes : job[j] = "done" /\ out[j] = "failed"

HandoffInv == TypeOK /\ GuardInPlace /\ HandedOverOnce /\ CancelFollows /\ RetriesHaveFailed

\* The event that ends an attempt of the job is on its way.
EndsAt(k, j) == events[k].type \in Final /\ events[k].ids = {j}

Busy == {j \in Job : job[j] \in {"opening", "asking", "answered", "working"}}

\* The dialog of the job, shown or on its way to the window, is followed by the end
\* of the attempt.
DialogEnds(j) ==
    /\ j \in conflicts => \E k \in 1 .. Len(events) : EndsAt(k, j)
    /\ \A i \in 1 .. Len(events) : events[i].type = "conflict" /\ events[i].ids = {j} =>
            \E k \in 1 .. Len(events) : k > i /\ EndsAt(k, j)

DialogsEnd == \A j \in Job \ Busy : DialogEnds(j)

-----------------------------------------------------------------------------
(* The inductive invariant behind RowsTellTheOutcome. *)

Reports(e, j) == e.type \in JobEvents /\ e.ids = {j}

InQueue(T) == \E i \in 1 .. Len(events) : events[i].type \in T

\* The jobs are not in the manager yet, and may still get there.
Fresh == pc \in {"idle", "planning", "finishing", "planned"} \/ Asked("enqueue")

\* Every job was published before it was handed over, and has no outcome before.
JobsArePublished ==
    /\ pc \in {"finishing", "planned", "sent"} \/ Asked("enqueue") => published = emitted
    /\ \A j \in Job : IF job[j] = "none" THEN out[j] = "none" ELSE j <= published

\* The events of planning come first, and the store is still in that phase then.
PlanningComesFirst ==
    /\ \A i \in 1 .. Len(events) : events[i].type = "progress" =>
            \A k \in 1 .. i : events[k].type \in {"started", "progress"}
    /\ \A i \in 1 .. Len(events) : events[i].type = "started" => i = 1 /\ plan = "absent"
    /\ pc = "idle" => plan = "absent" /\ events = <<>>
    /\ plan = "absent" /\ pc # "idle" => Len(events) > 0 /\ events[1].type = "started"
    /\ InQueue({"progress"}) => plan \in {"absent", "planning"}
    /\ pc \in {"planning", "finishing"} =>
            /\ plan \in {"absent", "planning"}
            /\ \A i \in 1 .. Len(events) : events[i].type \in {"started", "progress"}

\* The store knows the published files, or will hear of them; only they have rows.
Announced(j) ==
    \E i \in 1 .. Len(events) : events[i].type = "progress" /\ j \in events[i].ids

FilesAreAnnounced ==
    /\ \A j \in Job : j <= published <=> j \in kids \/ Announced(j)
    /\ \A j \in Job : Present(j) => j \in kids
    /\ plan = "absent" => rows[Root] = "absent"
    /\ plan \in {"planning", "queued"} => rows[Root] \in {"planning", "queued"}

\* A job reports only after it was handed over; a plan that fails to prepare hands
\* nothing over; when a cancel of the plan is reported, no job waits to be tried.
ReportsFollow ==
    /\ \A i \in 1 .. Len(events) : \A j \in Job :
            Reports(events[i], j) => job[j] # "none"
    /\ InQueue({"planFailed", "planFailedFinal"}) => ~Fresh /\ NoJobs
    /\ InQueue({"planCancelled"}) => ~Fresh /\ Untried = {}

\* Neither the row nor the plan has heard of the job.
Pristine(j) ==
    /\ plan \in {"absent", "planning", "queued"}
    /\ rows[j] \in {"absent", "queued", "cancelling"}
    /\ \A i \in 1 .. Len(events) : ~Reports(events[i], j)

WaitingIsPristine == \A j \in 1 .. published : Fresh \/ j \in Untried => Pristine(j)

\* The reports of the job that are still to come, from place n on, say the same.
Agree(j, n) ==
    \A i \in 1 .. Len(events) : i >= n =>
        /\ events[i].type # "progress"
        /\ Reports(events[i], j) => events[i].type = out[j]

\* The outcome is in the row, on its way to it, or in a plan cancel that will be the
\* first thing the store hears of the job.
InTheRow(j)    == rows[j] \in {"absent", out[j]} /\ Agree(j, 1)
OnItsWay(j)    == \E k \in 1 .. Len(events) : events[k] = Event(out[j], {j}) /\ Agree(j, k)
WithThePlan(j) == out[j] = "skipped" /\ Pristine(j) /\ InQueue({"planCancelled"})

Told(j) == out[j] \in Final /\ (InTheRow(j) \/ OnItsWay(j) \/ WithThePlan(j))

Tried(j) == job[j] \in {"ended", "done"} \/ (job[j] = "queued" /\ out[j] # "none")

OutcomesAreTold == \A j \in Job : Tried(j) => Told(j)

RowsInv ==
    /\ HandoffInv /\ JobsArePublished /\ PlanningComesFirst /\ FilesAreAnnounced
    /\ ReportsFollow /\ WaitingIsPristine /\ OutcomesAreTold
-----------------------------------------------------------------------------
(* The inductive invariant behind ImplementsLifecycle. *)

Good == {"completed", "skipped"}
Bad  == {"failed", "failedFinal"}

\* An outcome that no retry replaces.
Settled(j) == job[j] \in {"ended", "done"} /\ out[j] \in Good

\* From place n on, the store hears nothing else of the job.
Echoes(j, n) ==
    \A i \in 1 .. Len(events) : i >= n /\ Reports(events[i], j) => events[i].type = out[j]

\* Every trace of a cancel goes back to the user.
CancelsWereAsked ==
    \/ token \/ recorded # {} \/ Asked("cancel") \/ Asked("cancelPlan")
    \/ InQueue({"planCancelled"})
    => cancelled

\* A report of success is the last word on the job.
LastWord ==
    \A i \in 1 .. Len(events) : \A j \in Job :
        Reports(events[i], j) /\ events[i].type \in Good =>
            Settled(j) /\ out[j] = events[i].type /\ Echoes(j, i)

\* So is a row that shows success, and failures are on record, until the plan as a
\* whole is cancelled or has failed.
RowIsTrue(j) ==
    /\ rows[j] \in Good => Settled(j) /\ Echoes(j, 1)
    /\ rows[j] \in Bad  => j \in failures /\ job[j] # "none"

FailuresAreKnown ==
    \A j \in Job :
        /\ out[j] \in Bad => j \in failures
        /\ \A i \in 1 .. Len(events) :
                Reports(events[i], j) /\ events[i].type \in Bad => j \in failures

RowsAreTrue ==
    plan \in {"absent", "planning", "queued", "completed"} => \A j \in Job : RowIsTrue(j)

\* Nothing can happen any more to the rows of a completed plan.
CompletedIsSettled ==
    plan = "completed" =>
        /\ rows[Root] \in Final \cup {"absent"}
        /\ \A j \in kids :
                Settled(j) /\ Echoes(j, 1) /\ rows[j] \in Final \cup {"absent"}

\* The store hears that preparing failed while it shows the plan in preparation.
PlanFailsFirst ==
    \A i \in 1 .. Len(events) : events[i].type \in {"planFailed", "planFailedFinal"} =>
        /\ plan \in {"absent", "planning"}
        /\ \A k \in 1 .. (i - 1) : events[k].type \in {"started", "progress"}

\* The planner has said that the plan is ready, or its jobs are with the manager.
Ready == pc \in {"planned", "sent"} \/ Asked("enqueue") \/ ~NoJobs

\* The store hears that the plan is ready before it hears of its jobs.
ReadyComesFirst ==
    plan \in {"absent", "planning"} =>
        /\ Ready => InQueue({"planCompleted"})
        /\ \A i \in 1 .. Len(events) : \A j \in Job : Reports(events[i], j) =>
                \E k \in 1 .. (i - 1) : events[k].type = "planCompleted"

LifecycleInv ==
    /\ RowsInv /\ CancelsWereAsked /\ FailuresAreKnown /\ LastWord /\ RowsAreTrue
    /\ CompletedIsSettled /\ PlanFailsFirst /\ ReadyComesFirst
=============================================================================
