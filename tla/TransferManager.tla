-------------------------- MODULE TransferManager --------------------------
(***************************************************************************)
(* The process-wide transfer scheduler: crates/sftp/src/transfer_manager.rs *)
(* together with the job tasks it spawns (the control of run_transfer_job   *)
(* and resolve_transfer_conflict in transfer_job.rs).                       *)
(*                                                                         *)
(* One task runs the manager.  It receives a request or a completion        *)
(* (mgr = "select"), applies it, and then starts queued jobs one at a time  *)
(* (mgr = "start") until nothing more may start.  The jobs it has spawned,  *)
(* the browsing sessions and the SSH connection move in between, and they   *)
(* share with it the per-connection channel counters, the per-plan conflict *)
(* policies, the conflict waiters and the cancellation tokens.              *)
(*                                                                         *)
(* A VecDeque is a function from its elements to the set of elements ahead  *)
(* of them, which gives each queue content one representation.             *)
(***************************************************************************)
EXTENDS Integers, Sequences, FiniteSets

CONSTANTS
  Plan,              \* TransferPlanIds
  Id,                \* TransferIds: the planned jobs and the plans' own rows
  PlanOf,            \* [Id -> Plan]
  Row,               \* [Plan -> Id]: root_job_id, the row shown while planning
  First,             \* [Plan -> Id]: the first job the planner emitted
  Download,          \* the plans that download
  InitPolicy,        \* [Plan -> Policy]: the policy the plan was started with
  MaxConcurrent,     \* MAX_CONCURRENT_TRANSFERS
  MaxPerPlan,        \* MAX_CONCURRENT_PER_PLAN
  MaxChannels,       \* MAX_CHANNELS_PER_CONNECTION
  MaxIdle,           \* MAX_IDLE_SESSIONS_PER_PLAN
  MaxPendingCancels, \* MAX_PENDING_CANCELS
  MaxConn,           \* bound: physical connections over the run
  MaxBrowse,         \* bound: browsing sessions at a time, over all connections
  MaxRetries,        \* bound: accepted retries over the run
  MaxCancels         \* bound: cancel requests of single ids over the run

Policy   == {"Ask", "OverwriteAll", "SkipAll", "RenameAll"}
Decision == {"Overwrite", "OverwriteAll", "Skip", "SkipAll",
             "Rename", "RenameAll", "CancelJob"}
Job      == Id \ {Row[p] : p \in Plan}
Conn     == 1 .. MaxConn
JobsOf(p) == {j \in Job : PlanOf[j] = p}

NoId   == -1         \* plan_root_jobs has no entry
NoPlan == "none"     \* a cancel that named no plan
Unset  == "unset"    \* plan_policies has no entry
NoSession == 0

\* Transfer ids come from one ascending counter, so the order of ids is the
\* order in which a planner emitted its jobs.
ASSUME IdAssumption ==
  /\ IsFiniteSet(Plan) /\ NoPlan \notin Plan
  /\ IsFiniteSet(Id) /\ Id \subseteq Nat
  /\ PlanOf \in [Id -> Plan]
  /\ Row \in [Plan -> Id] /\ \A p \in Plan : PlanOf[Row[p]] = p
  /\ First \in [Plan -> Id]
  /\ \A p \in Plan : /\ First[p] \in JobsOf(p)
                     /\ \A j \in JobsOf(p) : First[p] <= j
  /\ Download \subseteq Plan
  /\ InitPolicy \in [Plan -> Policy]

ASSUME BoundAssumption ==
  /\ MaxConcurrent \in Nat \ {0} /\ MaxPerPlan \in Nat \ {0}
  /\ MaxChannels \in Nat \ {0} /\ MaxIdle \in Nat
  /\ MaxPendingCancels \in Nat
  /\ MaxConn \in Nat \ {0} /\ MaxBrowse \in Nat /\ MaxRetries \in Nat
  /\ MaxCancels \in Nat

VARIABLES
  mgr,             \* where the manager task is: "select", "start", "stopped"
  \* ---- the manager's maps
  pending,         \* pending: [job -> [ahead, conn]]
  pendingPerPlan,  \* pending_per_plan
  pendingRoots,    \* pending_roots
  runningPerPlan,  \* running_per_plan
  rootJob,         \* plan_root_jobs
  childrenStarted, \* plan_children_started
  tombs,           \* cancelled_before_enqueue and its order: [id -> [ahead, plan]]
  routes,          \* retry_routes: [job -> connection of the failed attempt]
  idle,            \* idle_sessions: [plan -> connections its idle sessions use]
  \* ---- shared with the job tasks
  policies,        \* plan_policies
  waiting,         \* jobs with an entry in conflict_waiters
  decision,        \* what a job's oneshot receiver holds
  cancelled,       \* running jobs whose cancellation token is cancelled
  channels,        \* active_channels of each connection
  \* ---- the job tasks; pc[j] # "idle" is `running.contains_key(j)`
  pc, jobConn, session, policy, mayClear, result,
  \* ---- the runtime and the connection, as the manager sees them
  phase,           \* a plan: "planning", "handed", "forgotten"
  epoch, up,       \* the newest connection of the key and whether it lives
  browse,          \* browsing actors on each connection
  \* ---- observations
  told,            \* the last terminal event sent for a job's current attempt
  asked,           \* ids whose cancel was handled and that were not retried
  planAsked,       \* plans cancelled as a plan by the runtime
  started,         \* jobs that were started at least once
  retries,         \* retries accepted
  cancels          \* cancel requests handled

managerVars == <<pending, pendingPerPlan, pendingRoots, runningPerPlan, rootJob,
                 childrenStarted, tombs, routes, idle>>
taskVars == <<pc, jobConn, session, policy, mayClear, result>>
connVars == <<epoch, up, browse>>
vars == <<mgr, pending, pendingPerPlan, pendingRoots, runningPerPlan, rootJob,
          childrenStarted, tombs, routes, idle, policies, waiting, decision,
          cancelled, channels, pc, jobConn, session, policy, mayClear, result,
          phase, epoch, up, browse, told, asked, planAsked, started, retries, cancels>>

----------------------------------------------------------------------------
(* Queues.                                                                 *)

Without(q, S) ==
  [k \in DOMAIN q \ S |-> [q[k] EXCEPT !.ahead = @ \ S]]

Running == {j \in Job : pc[j] # "idle"}
RunningIn(p) == {j \in Running : PlanOf[j] = p}
PendingIn(p) == {j \in DOMAIN pending : PlanOf[j] = p}

IsQueue(q) ==
  /\ DOMAIN q \subseteq Job
  /\ q \in [DOMAIN q -> [ahead : SUBSET Job, conn : Conn]]
IsRecord(q) ==
  /\ DOMAIN q \subseteq Id
  /\ q \in [DOMAIN q -> [ahead : SUBSET Id, plan : Plan \cup {NoPlan}]]

QueueShape ==
  /\ IsQueue(pending)
  /\ pendingRoots \subseteq Job
  /\ rootJob \in [Plan -> Job \cup {NoId}]
  /\ childrenStarted \subseteq Plan
  /\ IsRecord(tombs)
  /\ DOMAIN routes \subseteq Job
  /\ routes \in [DOMAIN routes -> Conn]
  /\ idle \in [Plan -> Seq(Conn)]
  /\ policies \in [Plan -> Policy \cup {Unset}]

TaskShape ==
  /\ waiting \subseteq Job
  /\ decision \in [Job -> Decision \cup {"none"}]
  /\ cancelled \subseteq Job
  /\ pc \in [Job -> {"idle", "open", "check", "ask", "xfer", "done"}]
  /\ jobConn \in [Job -> Conn]
  /\ session \in [Job -> Conn \cup {NoSession}]
  /\ policy \in [Job -> Policy]
  /\ mayClear \subseteq Job
  /\ result \in [Job -> {"none", "completed", "skipped", "skippedClean",
                         "failed", "retryable"}]

WorldShape ==
  /\ mgr \in {"select", "start", "stopped"}
  /\ phase \in [Plan -> {"planning", "handed", "forgotten"}]
  /\ epoch \in Conn
  /\ up \in BOOLEAN
  /\ browse \in [Conn -> Nat]
  /\ told \in [Job -> {"none", "completed", "skipped", "failed", "retryable"}]
  /\ asked \subseteq Id
  /\ planAsked \subseteq Plan
  /\ started \subseteq Job
  /\ retries \in Nat
  /\ cancels \in Nat

\* The counters are kept with saturating_sub and fetch_sub: none may be taken
\* below zero.
CountersNatural ==
  /\ pendingPerPlan \in [Plan -> Nat]
  /\ runningPerPlan \in [Plan -> Nat]
  /\ channels \in [Conn -> Nat]

\* Every variable keeps its shape, no idle session is a missing one, and no
\* counter of the manager or of a connection ever underflows.
TypeOK == QueueShape /\ TaskShape /\ WorldShape /\ CountersNatural

\* TransferManager::new; one connection is up and no browsing session counted.
Init ==
  /\ mgr = "select"
  /\ pending = [j \in {} |-> [ahead |-> {}, conn |-> 1]]
  /\ pendingPerPlan = [p \in Plan |-> 0]
  /\ pendingRoots = {}
  /\ runningPerPlan = [p \in Plan |-> 0]
  /\ rootJob = [p \in Plan |-> NoId]
  /\ childrenStarted = {}
  /\ tombs = [j \in {} |-> [ahead |-> {}, plan |-> NoPlan]]
  /\ routes = [j \in {} |-> 1]
  /\ idle = [p \in Plan |-> <<>>]
  /\ policies = [p \in Plan |-> Unset]
  /\ waiting = {}
  /\ decision = [j \in Job |-> "none"]
  /\ cancelled = {}
  /\ channels = [c \in Conn |-> 0]
  /\ pc = [j \in Job |-> "idle"]
  /\ jobConn = [j \in Job |-> 1]
  /\ session = [j \in Job |-> NoSession]
  /\ policy = [j \in Job |-> "Ask"]
  /\ mayClear = {}
  /\ result = [j \in Job |-> "none"]
  /\ phase = [p \in Plan |-> "planning"]
  /\ epoch = 1
  /\ up = TRUE
  /\ browse = [c \in Conn |-> 0]
  /\ told = [j \in Job |-> "none"]
  /\ asked = {}
  /\ planAsked = {}
  /\ started = {}
  /\ retries = 0
  /\ cancels = 0

----------------------------------------------------------------------------
(* Pre-enqueue cancellation records ("tombstones").                        *)

ForgetCancellationsForPlan(q, p) ==
  Without(q, {k \in DOMAIN q : q[k].plan = p})

\* Mutant: a cancel that finds no job is dropped.
RecordPendingCancelMut(q, id, p) == q

\* A record keeps its place when the same id is cancelled again; past the
\* bound the oldest record is dropped.
RecordPendingCancel(q, id, p) ==
  LET recorded == [k \in DOMAIN q \cup {id} |->
                     IF k = id
                     THEN [ahead |-> IF id \in DOMAIN q THEN q[id].ahead ELSE DOMAIN q,
                           plan |-> p]
                     ELSE q[k]]
      oldest == {k \in DOMAIN recorded : recorded[k].ahead = {}}
  IN  IF Cardinality(DOMAIN recorded) > MaxPendingCancels
      THEN Without(recorded, oldest)
      ELSE recorded

----------------------------------------------------------------------------
(* Bookkeeping of a plan.                                                  *)

\* push_pending for a batch: its jobs queue behind everything, in id order.
PushPending(jobs, c) ==
  pending' = [j \in DOMAIN pending \cup jobs |->
                IF j \in jobs
                THEN [ahead |-> DOMAIN pending \cup {k \in jobs : k < j}, conn |-> c]
                ELSE pending[j]]

\* No queued, running or retryable job of p is left after this step.
PlanIdleNext(p) ==
  /\ pendingPerPlan'[p] = 0
  /\ runningPerPlan'[p] = 0
  /\ \A r \in DOMAIN routes' : PlanOf[r] # p

\* Mutant: the plan's decided policy outlives the plan.
CleanupPlanIfIdleMut(p, root, children, sessions, records) ==
  LET gone == PlanIdleNext(p) IN
  /\ rootJob' = IF gone THEN [root EXCEPT ![p] = NoId] ELSE root
  /\ childrenStarted' = IF gone THEN children \ {p} ELSE children
  /\ idle' = IF gone THEN [sessions EXCEPT ![p] = <<>>] ELSE sessions
  /\ tombs' = IF gone THEN ForgetCancellationsForPlan(records, p) ELSE records
  /\ UNCHANGED policies

\* The arguments are the maps as the handler left them before the cleanup.
CleanupPlanIfIdle(p, root, children, sessions, records) ==
  LET gone == PlanIdleNext(p) IN
  /\ rootJob' = IF gone THEN [root EXCEPT ![p] = NoId] ELSE root
  /\ childrenStarted' = IF gone THEN children \ {p} ELSE children
  /\ idle' = IF gone THEN [sessions EXCEPT ![p] = <<>>] ELSE sessions
  /\ policies' = IF gone THEN [policies EXCEPT ![p] = Unset] ELSE policies
  /\ tombs' = IF gone THEN ForgetCancellationsForPlan(records, p) ELSE records

----------------------------------------------------------------------------
(* Requests.  Each one leaves the manager in "start": run() calls           *)
(* start_queued after every request and every completion.                  *)

\* The plan's policy entry is created once and keeps what the user decided.
AdoptPolicy(p) ==
  policies' = IF policies[p] = Unset
              THEN [policies EXCEPT ![p] = InitPolicy[p]] ELSE policies

\* The whole plan is dropped when its first job was cancelled on the way here.
EnqueueCancelledPlan(p) ==
  /\ mgr = "select" /\ phase[p] = "planning"
  /\ First[p] \in DOMAIN tombs
  /\ mgr' = "start"
  /\ phase' = [phase EXCEPT ![p] = "handed"]
  /\ tombs' = ForgetCancellationsForPlan(tombs, p)
  /\ told' = [j \in Job |-> IF PlanOf[j] = p THEN "skipped" ELSE told[j]]
  /\ UNCHANGED <<pending, pendingPerPlan, pendingRoots, runningPerPlan, rootJob,
                 childrenStarted, routes, idle, policies, waiting, decision,
                 cancelled, channels, taskVars, connVars, asked, planAsked,
                 started, retries, cancels>>

\* The lease of the connection was taken when planning began, so it may be an
\* older one.  The first job is queued, hence cleanup_plan_if_idle, which the
\* code calls when some job was skipped, finds work and changes nothing.
Enqueue(p, c) ==
  LET dropped == JobsOf(p) \cap DOMAIN tombs
      kept    == JobsOf(p) \ dropped
  IN
  /\ mgr = "select" /\ phase[p] = "planning" /\ c <= epoch
  /\ First[p] \notin DOMAIN tombs
  /\ mgr' = "start"
  /\ phase' = [phase EXCEPT ![p] = "handed"]
  /\ AdoptPolicy(p)
  /\ rootJob' = [rootJob EXCEPT ![p] = IF @ = NoId THEN First[p] ELSE @]
  /\ PushPending(kept, c)
  /\ pendingPerPlan' = [pendingPerPlan EXCEPT ![p] = @ + Cardinality(kept)]
  /\ pendingRoots' = pendingRoots \cup {First[p]}
  /\ tombs' = ForgetCancellationsForPlan(Without(tombs, dropped), p)
  /\ told' = [j \in Job |-> IF j \in dropped THEN "skipped" ELSE told[j]]
  /\ UNCHANGED <<runningPerPlan, childrenStarted, routes, idle, waiting, decision,
                 cancelled, channels, taskVars, connVars, asked, planAsked,
                 started, retries, cancels>>

\* Planning failed or was cancelled: no enqueue will come.
ForgetPlan(p) ==
  /\ mgr = "select" /\ phase[p] = "planning"
  /\ mgr' = "start"
  /\ phase' = [phase EXCEPT ![p] = "forgotten"]
  /\ tombs' = ForgetCancellationsForPlan(tombs, p)
  /\ UNCHANGED <<pending, pendingPerPlan, pendingRoots, runningPerPlan, rootJob,
                 childrenStarted, routes, idle, policies, waiting, decision,
                 cancelled, channels, taskVars, connVars, told, asked,
                 planAsked, started, retries, cancels>>

\* The jobs whose only terminal event is the TransferPlanCancelled of p.
\* Mutant: the event is taken to settle every job of the plan.
SkippedByPlanCancelMut(p) == JobsOf(p)
SkippedByPlanCancel(p) == PendingIn(p)

\* Mutant: retain_pending_not_plan leaves pending_per_plan alone.
DropPlanMut(p) ==
  /\ pending' = Without(pending, PendingIn(p))
  /\ pendingRoots' = pendingRoots \ {rootJob[p]}
  /\ cancelled' = cancelled \cup RunningIn(p)
  /\ told' = [j \in Job |-> IF j \in PendingIn(p) THEN "skipped" ELSE told[j]]
  /\ UNCHANGED <<pendingPerPlan, runningPerPlan, routes, tombs, rootJob,
                 childrenStarted, idle, policies>>

\* cancel_plan: what is queued is dropped under one plan event, what runs is
\* told to stop; a plan with neither keeps its state.
DropPlan(p) ==
  LET interrupted == PendingIn(p) # {} \/ RunningIn(p) # {}
      records == ForgetCancellationsForPlan(tombs, p)
  IN
  /\ pending' = Without(pending, PendingIn(p))
  /\ pendingPerPlan' = [pendingPerPlan EXCEPT ![p] = 0]
  /\ pendingRoots' = pendingRoots \ {rootJob[p]}
  /\ cancelled' = cancelled \cup RunningIn(p)
  /\ told' = [j \in Job |-> IF j \in SkippedByPlanCancel(p) THEN "skipped" ELSE told[j]]
  /\ UNCHANGED <<runningPerPlan, routes>>
  /\ IF interrupted
     THEN CleanupPlanIfIdle(p, [rootJob EXCEPT ![p] = NoId],
                            childrenStarted \ {p}, idle, records)
     ELSE /\ tombs' = records
          /\ UNCHANGED <<rootJob, childrenStarted, idle, policies>>

\* Sent once by the planning task after its enqueue when a cancel met the
\* handoff.
CancelPlan(p) ==
  /\ mgr = "select" /\ phase[p] = "handed" /\ p \notin planAsked
  /\ mgr' = "start"
  /\ DropPlan(p)
  /\ planAsked' = planAsked \cup {p}
  /\ UNCHANGED <<waiting, decision, channels, taskVars, phase, connVars, asked,
                 started, retries, cancels>>

\* The cancel of a single id, as observed.
Asked(id) ==
  /\ cancels < MaxCancels
  /\ cancels' = cancels + 1
  /\ asked' = asked \cup {id}

\* A cancel aimed at the job recorded as a plan's root cancels the plan.
CancelRoot(id) ==
  /\ mgr = "select"
  /\ \E p \in Plan : rootJob[p] = id /\ DropPlan(p)
  /\ mgr' = "start"
  /\ Asked(id)
  /\ UNCHANGED <<waiting, decision, channels, taskVars, phase, connVars,
                 planAsked, started, retries>>

NotARoot(id) == \A p \in Plan : rootJob[p] # id

CancelPending(j) ==
  /\ mgr = "select" /\ NotARoot(j) /\ j \in DOMAIN pending
  /\ mgr' = "start"
  /\ pending' = Without(pending, {j})
  /\ pendingPerPlan' = [pendingPerPlan EXCEPT ![PlanOf[j]] = @ - 1]
  /\ pendingRoots' = pendingRoots \ {j}
  /\ told' = [told EXCEPT ![j] = "skipped"]
  /\ Asked(j)
  /\ UNCHANGED <<runningPerPlan, routes>>
  /\ CleanupPlanIfIdle(PlanOf[j], rootJob, childrenStarted, idle, tombs)
  /\ UNCHANGED <<waiting, decision, cancelled, channels, taskVars, phase, connVars,
                 planAsked, started, retries>>

CancelRunning(j) ==
  /\ mgr = "select" /\ NotARoot(j) /\ j \in Running
  /\ mgr' = "start"
  /\ cancelled' = cancelled \cup {j}
  /\ Asked(j)
  /\ UNCHANGED <<managerVars, policies, waiting, decision, channels, taskVars,
                 phase, connVars, told, planAsked, started, retries>>

\* Mutant: only the queue is searched.
IsUnknownMut(id) == id \notin DOMAIN pending
IsUnknown(id) == id \notin DOMAIN pending /\ id \notin Running

\* The job is not here: it is still being planned, or it has finished.  A plan
\* row's cancel comes here only once the runtime released the planning guard.
CancelUnknown(id, p) ==
  /\ mgr = "select" /\ NotARoot(id) /\ IsUnknown(id)
  /\ id = Row[PlanOf[id]] => phase[PlanOf[id]] # "planning"
  /\ mgr' = "start"
  /\ tombs' = RecordPendingCancel(tombs, id, p)
  /\ Asked(id)
  /\ UNCHANGED <<pending, pendingPerPlan, pendingRoots, runningPerPlan, rootJob,
                 childrenStarted, routes, idle, policies, waiting, decision,
                 cancelled, channels, taskVars, phase, connVars, told,
                 planAsked, started, retries>>

Cancel(id) ==
  \/ CancelRoot(id)
  \/ CancelPending(id)
  \/ CancelRunning(id)
  \/ \E p \in {PlanOf[id], NoPlan} : CancelUnknown(id, p)

\* The failed attempt's connection if it still lives, else the live connection
\* of the same key: in both cases the newest one, while it is up.
Retry(j) ==
  /\ mgr = "select" /\ j \in DOMAIN routes /\ up /\ retries < MaxRetries
  /\ mgr' = "start"
  /\ routes' = [k \in DOMAIN routes \ {j} |-> routes[k]]
  /\ AdoptPolicy(PlanOf[j])
  /\ PushPending({j}, epoch)
  /\ pendingPerPlan' = [pendingPerPlan EXCEPT ![PlanOf[j]] = @ + 1]
  /\ pendingRoots' = IF rootJob[PlanOf[j]] = j THEN pendingRoots \cup {j}
                                              ELSE pendingRoots
  /\ tombs' = ForgetCancellationsForPlan(Without(tombs, {j}), PlanOf[j])
  /\ told' = [told EXCEPT ![j] = "none"]
  /\ asked' = asked \ {j}
  /\ retries' = retries + 1
  /\ UNCHANGED <<runningPerPlan, rootJob, childrenStarted, idle, waiting, decision,
                 cancelled, channels, taskVars, phase, connVars, planAsked, started,
                 cancels>>

\* No live connection: the route is put back and the failure reported again.
RetryWithoutConnection(j) ==
  /\ mgr = "select" /\ j \in DOMAIN routes /\ ~up
  /\ mgr' = "start"
  /\ tombs' = Without(tombs, {j})
  /\ told' = [told EXCEPT ![j] = "retryable"]
  /\ UNCHANGED <<pending, pendingPerPlan, pendingRoots, runningPerPlan, rootJob,
                 childrenStarted, routes, idle, policies, waiting, decision,
                 cancelled, channels, taskVars, phase, connVars, asked,
                 planAsked, started, retries, cancels>>

\* The waiter is taken out and the decision put into its oneshot channel.
ResolveConflict(j, d) ==
  /\ mgr = "select" /\ j \in waiting
  /\ mgr' = "start"
  /\ waiting' = waiting \ {j}
  /\ decision' = [decision EXCEPT ![j] = d]
  /\ UNCHANGED <<managerVars, policies, cancelled, channels, taskVars, phase,
                 connVars, told, asked, planAsked, started, retries, cancels>>

ReturnIdleSession(q, c) == IF Len(q) < MaxIdle THEN Append(q, c) ELSE q

\* A completion: the task ends and what it left is filed under its plan.
HandleCompleted(j) ==
  LET p == PlanOf[j]
      reusable == result[j] \in {"completed", "skippedClean"}
  IN
  /\ mgr = "select" /\ pc[j] = "done"
  /\ mgr' = "start"
  /\ pc' = [pc EXCEPT ![j] = "idle"]
  /\ jobConn' = [jobConn EXCEPT ![j] = 1]
  /\ session' = [session EXCEPT ![j] = NoSession]
  /\ policy' = [policy EXCEPT ![j] = "Ask"]
  /\ mayClear' = mayClear \ {j}
  /\ result' = [result EXCEPT ![j] = "none"]
  /\ cancelled' = cancelled \ {j}
  /\ runningPerPlan' = [runningPerPlan EXCEPT ![p] = @ - 1]
  /\ routes' = IF result[j] = "retryable"
               THEN [k \in DOMAIN routes \cup {j} |->
                       IF k = j THEN jobConn[j] ELSE routes[k]]
               ELSE [k \in DOMAIN routes \ {j} |-> routes[k]]
  /\ UNCHANGED <<pending, pendingPerPlan, pendingRoots>>
  /\ CleanupPlanIfIdle(p, rootJob, childrenStarted,
                       IF reusable
                       THEN [idle EXCEPT ![p] = ReturnIdleSession(@, session[j])]
                       ELSE idle,
                       tombs)
  /\ UNCHANGED <<waiting, decision, channels, phase, connVars, told, asked,
                 planAsked, started, retries, cancels>>

\* The request channel is closed: running jobs are cancelled, the loop ends.
Stop ==
  /\ mgr = "select"
  /\ mgr' = "stopped"
  /\ cancelled' = cancelled \cup Running
  /\ UNCHANGED <<managerVars, policies, waiting, decision, channels, taskVars,
                 phase, connVars, told, asked, planAsked, started, retries, cancels>>

----------------------------------------------------------------------------
(* start_queued.                                                           *)

\* Mutant: a child only waits for a root that is still queued.
IsEligibleMut(j) ==
  LET p == PlanOf[j]
      root == rootJob[p]
  IN
  /\ runningPerPlan[p] < MaxPerPlan
  /\ channels[pending[j].conn] < MaxChannels
  /\ \/ p \notin Download
     \/ root \in {NoId, j} /\ runningPerPlan[p] = 0
     \/ root \notin {NoId, j} /\ root \notin pendingRoots

\* A download plan's first job may remove the destination tree, so it runs
\* alone and before every other job of the plan.
IsEligible(j) ==
  LET p == PlanOf[j]
      root == rootJob[p]
  IN
  /\ runningPerPlan[p] < MaxPerPlan
  /\ channels[pending[j].conn] < MaxChannels
  /\ \/ p \notin Download
     \/ root \in {NoId, j} /\ runningPerPlan[p] = 0
     \/ root \notin {NoId, j} /\ root \notin pendingRoots /\ root \notin Running

\* The first eligible job of a plan with nothing running, else the first
\* eligible job.
IsNext(j) ==
  LET eligible == {k \in DOMAIN pending : IsEligible(k)}
      fresh    == {k \in eligible : runningPerPlan[PlanOf[k]] = 0}
      chosen   == IF fresh # {} THEN fresh ELSE eligible
  IN  j \in chosen /\ pending[j].ahead \cap chosen = {}

\* Mutant: every attempt of the root may clear.
MayClearDestinationMut(j) == rootJob[PlanOf[j]] = j

MayClearDestination(j) ==
  rootJob[PlanOf[j]] = j /\ PlanOf[j] \notin childrenStarted

\* One round of start_queued up to the spawn of the job's task.
StartNext(j) ==
  LET p == PlanOf[j]
      c == pending[j].conn
  IN
  /\ mgr = "start" /\ Cardinality(Running) < MaxConcurrent
  /\ IsNext(j)
  /\ pending' = Without(pending, {j})
  /\ pendingPerPlan' = [pendingPerPlan EXCEPT ![p] = @ - 1]
  /\ pendingRoots' = pendingRoots \ {j}
  /\ mayClear' = IF MayClearDestination(j) THEN mayClear \cup {j} ELSE mayClear
  /\ childrenStarted' = IF rootJob[p] = j THEN childrenStarted
                                         ELSE childrenStarted \cup {p}
  /\ runningPerPlan' = [runningPerPlan EXCEPT ![p] = @ + 1]
  /\ channels' = [channels EXCEPT ![c] = @ + 1]
  /\ jobConn' = [jobConn EXCEPT ![j] = c]
  /\ policy' = [policy EXCEPT ![j] =
                  IF policies[p] = Unset THEN InitPolicy[p] ELSE policies[p]]
  /\ IF idle[p] = <<>>
     THEN /\ pc' = [pc EXCEPT ![j] = "open"]
          /\ UNCHANGED <<idle, session>>
     ELSE /\ pc' = [pc EXCEPT ![j] = "check"]
          /\ session' = [session EXCEPT ![j] = Head(idle[p])]
          /\ idle' = [idle EXCEPT ![p] = Tail(@)]
  /\ started' = started \cup {j}
  /\ UNCHANGED <<mgr, rootJob, tombs, routes, policies, waiting, decision,
                 cancelled, result, phase, connVars, told, asked, planAsked, retries, cancels>>

StartDone ==
  /\ mgr = "start"
  /\ \/ Cardinality(Running) >= MaxConcurrent
     \/ \A j \in DOMAIN pending : ~IsEligible(j)
  /\ mgr' = "select"
  /\ UNCHANGED <<managerVars, policies, waiting, decision, cancelled, channels,
                 taskVars, phase, connVars, told, asked, planAsked, started, retries, cancels>>

----------------------------------------------------------------------------
(* The task of a running job.                                              *)

SessionLive(j) == session[j] = epoch /\ up

\* Mutant: the channel is never given back.
FinishLeakMut(j, r) ==
  /\ pc' = [pc EXCEPT ![j] = "done"]
  /\ result' = [result EXCEPT ![j] = r]
  /\ told' = [told EXCEPT ![j] = IF r = "skippedClean" THEN "skipped" ELSE r]
  /\ UNCHANGED channels

\* The terminal event, the channel given back and the completion message.
Finish(j, r) ==
  /\ pc' = [pc EXCEPT ![j] = "done"]
  /\ result' = [result EXCEPT ![j] = r]
  /\ told' = [told EXCEPT ![j] = IF r = "skippedClean" THEN "skipped" ELSE r]
  /\ channels' = [channels EXCEPT ![jobConn[j]] = @ - 1]

\* An upload skipped before any file I/O leaves its session clean.
SkipResult(j) == IF PlanOf[j] \in Download THEN "skipped" ELSE "skippedClean"

OpenSession(j) ==
  /\ pc[j] = "open" /\ jobConn[j] = epoch /\ up
  /\ pc' = [pc EXCEPT ![j] = "check"]
  /\ session' = [session EXCEPT ![j] = jobConn[j]]
  /\ UNCHANGED <<mgr, managerVars, policies, waiting, decision, cancelled, channels,
                 jobConn, policy, mayClear, result, phase, connVars, told, asked,
                 planAsked, started, retries, cancels>>

OpenFails(j) ==
  /\ pc[j] = "open"
  /\ Finish(j, "retryable")
  /\ UNCHANGED <<mgr, managerVars, policies, waiting, decision, cancelled, jobConn,
                 session, policy, mayClear, phase, connVars, asked, planAsked,
                 started, retries, cancels>>

\* No conflict: the policy overwrites, the destination is free or a folder to
\* merge into, or the renamed destination is free.
CheckPasses(j) ==
  /\ pc[j] = "check"
  /\ policy[j] = "OverwriteAll" \/ PlanOf[j] \in Download \/ SessionLive(j)
  /\ pc' = [pc EXCEPT ![j] = "xfer"]
  /\ UNCHANGED <<mgr, managerVars, policies, waiting, decision, cancelled, channels,
                 jobConn, session, policy, mayClear, result, phase, connVars, told,
                 asked, planAsked, started, retries, cancels>>

\* The destination exists and the policy settles it, or the check failed.
CheckEnds(j) ==
  /\ pc[j] = "check" /\ policy[j] # "OverwriteAll"
  /\ \/ policy[j] = "SkipAll" /\ Finish(j, SkipResult(j))
     \/ policy[j] = "RenameAll" /\ Finish(j, "failed")
     \/ Finish(j, "retryable")
  /\ UNCHANGED <<mgr, managerVars, policies, waiting, decision, cancelled, jobConn,
                 session, policy, mayClear, phase, connVars, asked, planAsked,
                 started, retries, cancels>>

\* The waiter is registered and the conflict shown.
AskUser(j) ==
  /\ pc[j] = "check" /\ policy[j] = "Ask"
  /\ pc' = [pc EXCEPT ![j] = "ask"]
  /\ waiting' = waiting \cup {j}
  /\ UNCHANGED <<mgr, managerVars, policies, decision, cancelled, channels, jobConn,
                 session, policy, mayClear, result, phase, connVars, told, asked,
                 planAsked, started, retries, cancels>>

\* Mutant: the wait for a decision ignores the token.
AnswerMut(j, d) == pc[j] = "ask" /\ d # "none" /\ d = decision[j]

\* The select over the token and the oneshot receiver: either may win.
Answer(j, d) ==
  /\ pc[j] = "ask"
  /\ d # "none"
  /\ \/ d = decision[j]
     \/ d = "CancelJob" /\ j \in cancelled

\* The waiters of the plan that an apply-to-all decision answers.
Peers(j, d) ==
  IF d \in {"OverwriteAll", "SkipAll"}
  THEN {k \in waiting \ {j} : PlanOf[k] = PlanOf[j]} ELSE {}

\* Mutant: the job does not take its own waiter out.
TakeDecisionMut(j, d) ==
  /\ waiting' = waiting \ Peers(j, d)
  /\ decision' = [k \in Job |->
                    IF k = j THEN "none"
                    ELSE IF k \in Peers(j, d)
                         THEN (IF d = "SkipAll" THEN "Skip" ELSE "Overwrite")
                         ELSE decision[k]]

\* decision taken by j; its peers get the same decision for themselves alone.
TakeDecision(j, d) ==
  /\ waiting' = waiting \ ({j} \cup Peers(j, d))
  /\ decision' = [k \in Job |->
                    IF k = j THEN "none"
                    ELSE IF k \in Peers(j, d)
                         THEN (IF d = "SkipAll" THEN "Skip" ELSE "Overwrite")
                         ELSE decision[k]]

DecideOverwrite(j, d) ==
  /\ Answer(j, d) /\ d \in {"Overwrite", "OverwriteAll"}
  /\ TakeDecision(j, d)
  /\ policies' = IF d = "OverwriteAll"
                 THEN [policies EXCEPT ![PlanOf[j]] = "OverwriteAll"] ELSE policies
  /\ policy' = [policy EXCEPT ![j] = "OverwriteAll"]
  /\ pc' = [pc EXCEPT ![j] = "xfer"]
  /\ UNCHANGED <<mgr, managerVars, cancelled, channels, jobConn, session, mayClear,
                 result, phase, connVars, told, asked, planAsked, started, retries, cancels>>

DecideSkip(j, d) ==
  /\ Answer(j, d) /\ d \in {"Skip", "SkipAll", "CancelJob"}
  /\ TakeDecision(j, d)
  /\ policies' = IF d = "SkipAll"
                 THEN [policies EXCEPT ![PlanOf[j]] = "SkipAll"] ELSE policies
  /\ Finish(j, SkipResult(j))
  /\ UNCHANGED <<mgr, managerVars, cancelled, jobConn, session, policy, mayClear,
                 phase, connVars, asked, planAsked, started, retries, cancels>>

\* The new name is free, or taken, or could not be checked.  Only a rename
\* that worked becomes the plan's policy, and it answers no other waiter.
DecideRename(j, d) ==
  /\ Answer(j, d) /\ d \in {"Rename", "RenameAll"}
  /\ TakeDecision(j, d)
  /\ \/ /\ pc' = [pc EXCEPT ![j] = "xfer"]
        /\ policies' = IF d = "RenameAll"
                       THEN [policies EXCEPT ![PlanOf[j]] = "RenameAll"] ELSE policies
        /\ UNCHANGED <<result, told, channels>>
     \/ Finish(j, "failed") /\ UNCHANGED policies
     \/ Finish(j, "retryable") /\ UNCHANGED policies
  /\ UNCHANGED <<mgr, managerVars, cancelled, jobConn, session, policy, mayClear,
                 phase, connVars, asked, planAsked, started, retries, cancels>>

\* The transfer ends; a cancelled token is noticed at the next chunk, but the
\* last chunk may already be through.
TransferEnds(j) ==
  /\ pc[j] = "xfer"
  /\ \/ SessionLive(j) /\ Finish(j, "completed")
     \/ j \in cancelled /\ Finish(j, "skipped")
     \/ Finish(j, "retryable")
     \/ Finish(j, "failed")
  /\ UNCHANGED <<mgr, managerVars, policies, waiting, decision, cancelled, jobConn,
                 session, policy, mayClear, phase, connVars, asked, planAsked,
                 started, retries, cancels>>

----------------------------------------------------------------------------
(* The connection and its browsing sessions.                               *)

ConnectionLost ==
  /\ up /\ up' = FALSE
  /\ UNCHANGED <<mgr, managerVars, policies, waiting, decision, cancelled, channels,
                 taskVars, phase, epoch, browse, told, asked, planAsked, started,
                 retries, cancels>>

Reconnect ==
  /\ ~up /\ epoch < MaxConn
  /\ up' = TRUE /\ epoch' = epoch + 1
  /\ UNCHANGED <<mgr, managerVars, policies, waiting, decision, cancelled, channels,
                 taskVars, phase, browse, told, asked, planAsked, started, retries, cancels>>

\* A browsing actor counts itself in active_channels while it runs, also when
\* its connection was lost before it did.
BrowseOpen ==
  /\ Cardinality(UNION {{<<c, i>> : i \in 1 .. browse[c]} : c \in Conn}) < MaxBrowse
  /\ browse' = [browse EXCEPT ![epoch] = @ + 1]
  /\ channels' = [channels EXCEPT ![epoch] = @ + 1]
  /\ UNCHANGED <<mgr, managerVars, policies, waiting, decision, cancelled, taskVars,
                 phase, epoch, up, told, asked, planAsked, started, retries, cancels>>

BrowseClose(c) ==
  /\ browse[c] > 0
  /\ browse' = [browse EXCEPT ![c] = @ - 1]
  /\ channels' = [channels EXCEPT ![c] = @ - 1]
  /\ UNCHANGED <<mgr, managerVars, policies, waiting, decision, cancelled, taskVars,
                 phase, epoch, up, told, asked, planAsked, started, retries, cancels>>

----------------------------------------------------------------------------
Request ==
  \/ \E p \in Plan : \/ EnqueueCancelledPlan(p)
                     \/ \E c \in Conn : Enqueue(p, c)
                     \/ ForgetPlan(p)
                     \/ CancelPlan(p)
  \/ \E id \in Id : Cancel(id)
  \/ \E j \in Job : \/ Retry(j)
                    \/ RetryWithoutConnection(j)
                    \/ \E d \in Decision : ResolveConflict(j, d)

StartQueued == (\E j \in DOMAIN pending : StartNext(j)) \/ StartDone

JobStep(j) ==
  \/ OpenSession(j) \/ OpenFails(j)
  \/ CheckPasses(j) \/ CheckEnds(j) \/ AskUser(j)
  \/ \E d \in Decision :
        DecideOverwrite(j, d) \/ DecideSkip(j, d) \/ DecideRename(j, d)
  \/ TransferEnds(j)

Environment ==
  \/ ConnectionLost \/ Reconnect \/ BrowseOpen
  \/ \E c \in Conn : BrowseClose(c)

Next ==
  \/ Request
  \/ \E j \in Job : HandleCompleted(j)
  \/ StartQueued
  \/ \E j \in Job : JobStep(j)
  \/ Environment
  \/ Stop

Spec == Init /\ [][Next]_vars

\* The manager's loop and the tasks keep running.  tokio::select! picks among
\* its ready branches at random, so a completion that is ready again and again
\* is taken: strong fairness.  A job waiting for the user has no step of its
\* own, and no fairness is assumed of requests or of the connection.
Fairness ==
  /\ WF_vars(StartQueued)
  /\ \A j \in Job : SF_vars(HandleCompleted(j)) /\ WF_vars(JobStep(j))

FairSpec == Spec /\ Fairness

----------------------------------------------------------------------------
(* Safety.                                                                 *)

\* The tasks that have taken a channel of c and not given it back.
Holding(c) ==
  {j \in Job : pc[j] \in {"open", "check", "ask", "xfer"} /\ jobConn[j] = c}

QueueCounts   == \A p \in Plan : pendingPerPlan[p] = Cardinality(PendingIn(p))
RunningCounts == \A p \in Plan : runningPerPlan[p] = Cardinality(RunningIn(p))
RootsQueued   == pendingRoots = {j \in DOMAIN pending : rootJob[PlanOf[j]] = j}
ChannelCounts ==
  \A c \in Conn : channels[c] = browse[c] + Cardinality(Holding(c))

\* The cached counters and the pending-root set of the manager always agree
\* with the queue and the running jobs they summarise, and active_channels with
\* the tasks and browsing sessions that hold a channel
\* (push_pending, remove_pending, retain_pending_not_plan, handle_completed).
CountersAgree == QueueCounts /\ RunningCounts /\ RootsQueued /\ ChannelCounts

\* The manager owns a job at most once: it is queued, or running, or waiting
\* for a retry, and a recorded cancel never names a job it has queued or
\* running (enqueue and Retry consume the record first).
OwnedOnce ==
  /\ DOMAIN pending \cap Running = {}
  /\ DOMAIN routes \cap (DOMAIN pending \cup Running) = {}
  /\ DOMAIN tombs \cap (DOMAIN pending \cup Running) = {}

\* While the first job of a download plan runs, which may delete and recreate
\* the destination tree, no other job of that plan runs: not after a retry and
\* not after a plan cancel that forgot which job was the root (is_eligible).
RootRunsAlone ==
  \A p \in Download : First[p] \in Running => RunningIn(p) = {First[p]}

\* A job of a download plan that holds the permission to clear the destination
\* is the only job of the plan ever started, so a retried root cannot delete
\* what a child has written (take_destination_clear_permission).
ClearsOnlyUntouchedTree ==
  \A j \in mayClear : PlanOf[j] \in Download =>
      started \cap JobsOf(PlanOf[j]) = {j}

\* A plan without queued, running or retryable jobs leaves nothing behind: no
\* root, no started mark, no decided policy and no open idle session
\* (cleanup_plan_if_idle).
IdlePlanKeepsNothing ==
  \A p \in Plan :
    (PendingIn(p) = {} /\ RunningIn(p) = {} /\ \A r \in DOMAIN routes : PlanOf[r] # p)
    => /\ rootJob[p] = NoId /\ p \notin childrenStarted
       /\ policies[p] = Unset /\ idle[p] = <<>>

\* A conflict waiter belongs to a job that waits for an answer, and a job that
\* waits has either its waiter or its answer: no prompt is left that nobody can
\* answer and no decision reaches a job that is not asking.
WaitersMatchPrompts ==
  /\ \A j \in Job : pc[j] = "ask" <=> (j \in waiting \/ decision[j] # "none")
  /\ \A j \in waiting : decision[j] = "none"

\* Once the cancel of a job was handled, whether the job was queued, running or
\* not here yet, the job does not start again unless the user retries it.
CancelledJobNeverStarts ==
  [][\A j \in Job : j \in asked /\ j \notin Running => j \notin Running']_vars

\* A job's attempt ends with one terminal event: a late cancel or a plan cancel
\* never rewrites the outcome already reported; only a retry opens a new attempt.
OneOutcomePerAttempt ==
  [][\A j \in Job : told[j] # "none" /\ told'[j] # told[j]
                     => told'[j] = "none" /\ j \in DOMAIN routes]_vars

----------------------------------------------------------------------------
(* What the safety properties rest on: with these parts they are inductive. *)

\* A task past the opening of its session has one, and so has a completion
\* that hands its session back.
SessionHeld ==
  \A j \in Job :
    \/ pc[j] \in {"check", "ask", "xfer"}
    \/ pc[j] = "done" /\ result[j] \in {"completed", "skippedClean"}
    => session[j] # NoSession

\* Nothing of a plan is with the manager before its enqueue.
UntouchedBeforeEnqueue ==
  \A p \in Plan : phase[p] # "handed" =>
    /\ JobsOf(p) \cap (DOMAIN pending \cup DOMAIN routes \cup started) = {}
    /\ rootJob[p] = NoId

\* The root of a plan, while it is remembered, is the first job, and until a
\* child has started no other job of the plan has.
RootIsFirst ==
  \A p \in Plan :
    /\ rootJob[p] \in {NoId, First[p]}
    /\ rootJob[p] # NoId /\ p \notin childrenStarted
         => started \cap JobsOf(p) \subseteq {First[p]}

\* What runs has been started, and only a running root may clear.
StartedCovers ==
  /\ Running \subseteq started
  /\ \A j \in mayClear : j \in Running /\ j = First[PlanOf[j]]

\* The terminal event of a job: none while its attempt is ahead or under way, the
\* result once it is over, and a failure that can be retried while it has a route.
OutcomeInStep ==
  \A j \in Job :
    /\ \/ phase[PlanOf[j]] = "planning"
       \/ j \in DOMAIN pending
       \/ pc[j] \in {"open", "check", "ask", "xfer"}
       => told[j] = "none"
    /\ pc[j] = "done" => told[j] = IF result[j] = "skippedClean" THEN "skipped" ELSE result[j]
    /\ j \in DOMAIN routes => told[j] = "retryable"

IInv == /\ TypeOK /\ CountersAgree /\ OwnedOnce
        /\ SessionHeld /\ UntouchedBeforeEnqueue /\ RootIsFirst /\ StartedCovers
        /\ RootRunsAlone /\ ClearsOnlyUntouchedTree
        /\ WaitersMatchPrompts /\ IdlePlanKeepsNothing /\ OutcomeInStep

\* A recorded cancel names its own plan or none, and there are no more records
\* than cancels.
RecordsFit ==
  /\ \A k \in DOMAIN tombs : tombs[k].plan \in {PlanOf[k], NoPlan}
  /\ Cardinality(DOMAIN tombs) <= cancels
  /\ cancels <= MaxCancels

\* A job whose cancel was handled is not queued, and as long as it has not arrived
\* its cancel is on record.
AskedIsKept ==
  /\ asked \cap DOMAIN pending = {}
  /\ \A j \in asked \cap Job : phase[PlanOf[j]] = "planning" => j \in DOMAIN tombs

\* The strengthening for cancels. It holds while no record is evicted.
CancelInv == RecordsFit /\ AskedIsKept

----------------------------------------------------------------------------
(* Liveness.                                                               *)

\* A round of start_queued can take j, or a completion will bring one: browsing
\* sessions leave a channel of j's connection free, or some job runs.
Awake(j) ==
  \/ mgr = "start" /\ browse[pending[j].conn] < MaxChannels
  \/ Running # {}

\* A round that finds no job running and every channel of j's connection held by
\* a browsing session.
Crowded(j) ==
  mgr = "start" /\ Running = {} /\ browse[pending[j].conn] >= MaxChannels

\* If prompts keep being answered, a job that is queued when the manager looks
\* at the queue, or while a job runs, leaves the queue, by being started or by
\* being cancelled, unless the manager is shut down: no wake-up of start_queued
\* is missed when a job gives back a channel or a slot. The one exception is
\* named: a round that finds only browsing sessions on all the channels of the
\* connection. The end of a browsing session wakes nobody, so such a job waits
\* for the next request or completion, whatever channels become free.
QueuedJobLeaves ==
  []<>(waiting = {}) =>
    \A j \in Job :
      (j \in DOMAIN pending /\ Awake(j))
        ~> (j \notin DOMAIN pending \/ mgr = "stopped" \/ Crowded(j))

\* A running job whose token was cancelled ends and is reported, even when it
\* is waiting for a conflict decision that nobody gives.
CancelledJobEnds ==
  \A j \in Job : (j \in cancelled) ~> (j \notin Running \/ pc[j] = "done")
=============================================================================
