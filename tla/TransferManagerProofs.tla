----------------------- MODULE TransferManagerProofs -----------------------
(***************************************************************************)
(* Proofs about TransferManager, for every number of plans and jobs, every  *)
(* assignment of jobs to plans, and every value of the limits.              *)
(***************************************************************************)
EXTENDS TransferManager, FiniteSetTheorems, TLAPS

----------------------------------------------------------------------------
(* Queues.                                                                 *)

\* Taking elements out of the pending queue leaves a well-formed queue.
LEMMA WithoutQueue ==
  ASSUME NEW q, NEW S, IsQueue(q)
  PROVE  IsQueue(Without(q, S)) /\ DOMAIN Without(q, S) = DOMAIN q \ S
  BY DEF Without, IsQueue

\* Taking records out of the pre-enqueue cancellations leaves a well-formed map.
LEMMA WithoutRecord ==
  ASSUME NEW q, NEW S, IsRecord(q)
  PROVE  IsRecord(Without(q, S)) /\ DOMAIN Without(q, S) = DOMAIN q \ S
  BY DEF Without, IsRecord

\* forget_cancellations_for_plan only takes records out.
LEMMA ForgetRecord ==
  ASSUME NEW q, NEW p, IsRecord(q)
  PROVE  /\ IsRecord(ForgetCancellationsForPlan(q, p))
         /\ DOMAIN ForgetCancellationsForPlan(q, p) \subseteq DOMAIN q
<1> DEFINE S == {k \in DOMAIN q : q[k].plan = p}
<1>1. ForgetCancellationsForPlan(q, p) = Without(q, S)
  BY DEF ForgetCancellationsForPlan
<1> HIDE DEF S
<1>2. IsRecord(Without(q, S)) /\ DOMAIN Without(q, S) = DOMAIN q \ S
  BY WithoutRecord
<1> QED BY <1>1, <1>2

\* record_pending_cancel adds at most the id it was given.
LEMMA RecordRecord ==
  ASSUME NEW q, NEW id \in Id, NEW p \in Plan \cup {NoPlan}, IsRecord(q)
  PROVE  /\ IsRecord(RecordPendingCancel(q, id, p))
         /\ DOMAIN RecordPendingCancel(q, id, p) \subseteq DOMAIN q \cup {id}
<1> DEFINE recorded == [k \in DOMAIN q \cup {id} |->
                     IF k = id
                     THEN [ahead |-> IF id \in DOMAIN q THEN q[id].ahead ELSE DOMAIN q,
                           plan |-> p]
                     ELSE q[k]]
           oldest == {k \in DOMAIN recorded : recorded[k].ahead = {}}
<1>1. IsRecord(recorded) /\ DOMAIN recorded = DOMAIN q \cup {id}
  BY DEF IsRecord
<1>2. RecordPendingCancel(q, id, p) \in {recorded, Without(recorded, oldest)}
  BY DEF RecordPendingCancel
<1> HIDE DEF recorded, oldest
<1>3. /\ IsRecord(Without(recorded, oldest))
      /\ DOMAIN Without(recorded, oldest) = DOMAIN recorded \ oldest
  BY <1>1, WithoutRecord
<1> QED BY <1>1, <1>2, <1>3

\* push_pending adds the jobs it was given.
LEMMA PushQueue ==
  ASSUME NEW jobs, NEW c \in Conn, jobs \subseteq Job, IsQueue(pending),
         PushPending(jobs, c)
  PROVE  IsQueue(pending') /\ DOMAIN pending' = DOMAIN pending \cup jobs
  BY DEF PushPending, IsQueue

----------------------------------------------------------------------------
(* Constants.                                                              *)

\* What the assumption on ids says of jobs and plans.
LEMMA ConstantFacts ==
  /\ Job \subseteq Id /\ NoId \notin Job /\ IsFiniteSet(Job)
  /\ \A j \in Id : PlanOf[j] \in Plan
  /\ \A p \in Plan : First[p] \in Job /\ PlanOf[First[p]] = p
  /\ \A p \in Plan, j \in Job : j \in JobsOf(p) <=> PlanOf[j] = p
  /\ 1 \in Conn /\ Conn \subseteq Nat \ {0} /\ NoSession \notin Conn
<1>1. IsFiniteSet(Job)
  BY IdAssumption, FS_Subset DEF Job
<1> QED
  BY <1>1, IdAssumption, BoundAssumption DEF Job, JobsOf, NoId, NoSession, Conn

----------------------------------------------------------------------------
(* Shapes.                                                                 *)

\* cleanup_plan_if_idle keeps the shape of the maps it may reset.
LEMMA CleanupShape ==
  ASSUME QueueShape, NEW p \in Plan, NEW root \in [Plan -> Job \cup {NoId}],
         NEW children \in SUBSET Plan, NEW sessions \in [Plan -> Seq(Conn)],
         NEW records, IsRecord(records),
         CleanupPlanIfIdle(p, root, children, sessions, records)
  PROVE  /\ rootJob' \in [Plan -> Job \cup {NoId}]
         /\ childrenStarted' \subseteq Plan
         /\ idle' \in [Plan -> Seq(Conn)]
         /\ policies' \in [Plan -> Policy \cup {Unset}]
         /\ IsRecord(tombs')
<1>1. IsRecord(ForgetCancellationsForPlan(records, p))
  BY ForgetRecord
<1>2. rootJob' \in {root, [root EXCEPT ![p] = NoId]}
  BY DEF CleanupPlanIfIdle
<1>3. idle' \in {sessions, [sessions EXCEPT ![p] = <<>>]}
  BY DEF CleanupPlanIfIdle
<1>4. policies' \in {policies, [policies EXCEPT ![p] = Unset]}
  BY DEF CleanupPlanIfIdle
<1>5. tombs' \in {records, ForgetCancellationsForPlan(records, p)}
  BY DEF CleanupPlanIfIdle
<1>6. childrenStarted' \in {children, children \ {p}}
  BY DEF CleanupPlanIfIdle
<1>7. rootJob' \in [Plan -> Job \cup {NoId}]
  BY <1>2
<1>8. idle' \in [Plan -> Seq(Conn)]
  <2>1. <<>> \in Seq(Conn)
    OBVIOUS
  <2> QED BY <1>3, <2>1
<1>9. policies' \in [Plan -> Policy \cup {Unset}]
  BY <1>4 DEF QueueShape
<1>10. childrenStarted' \subseteq Plan
  BY <1>6
<1>11. IsRecord(tombs')
  BY <1>1, <1>5
<1> QED BY <1>7, <1>8, <1>9, <1>10, <1>11

\* cancel_plan keeps the shape of the manager's maps.
LEMMA DropPlanShape ==
  ASSUME QueueShape, NEW p \in Plan, DropPlan(p)
  PROVE  QueueShape'
<1>1. IsQueue(pending')
  BY WithoutQueue DEF DropPlan, QueueShape
<1>2. pendingRoots' \subseteq Job /\ routes' = routes
  BY DEF DropPlan, QueueShape
<1> DEFINE records == ForgetCancellationsForPlan(tombs, p)
<1>3. IsRecord(records)
  BY ForgetRecord DEF QueueShape
<1>4. CASE PendingIn(p) # {} \/ RunningIn(p) # {}
  <2>1. CleanupPlanIfIdle(p, [rootJob EXCEPT ![p] = NoId],
                          childrenStarted \ {p}, idle, records)
    BY <1>4 DEF DropPlan
  <2>2. /\ [rootJob EXCEPT ![p] = NoId] \in [Plan -> Job \cup {NoId}]
        /\ childrenStarted \ {p} \in SUBSET Plan
        /\ idle \in [Plan -> Seq(Conn)]
    BY DEF QueueShape
  <2> QED
    <3> HIDE DEF records
    <3> QED BY <1>1, <1>2, <1>3, <2>1, <2>2, CleanupShape DEF QueueShape
<1>5. CASE ~(PendingIn(p) # {} \/ RunningIn(p) # {})
  BY <1>1, <1>2, <1>3, <1>5 DEF DropPlan, QueueShape
<1> QED BY <1>4, <1>5

\* The actions that leave the manager's maps alone.
QueueQuiet ==
  \/ \E j \in Job : \/ CancelRunning(j) \/ OpenSession(j) \/ OpenFails(j)
                    \/ CheckPasses(j) \/ CheckEnds(j) \/ AskUser(j)
                    \/ TransferEnds(j) \/ \E d \in Decision : ResolveConflict(j, d)
  \/ Stop \/ StartDone \/ ConnectionLost \/ Reconnect \/ BrowseOpen
  \/ \E c \in Conn : BrowseClose(c)
  \/ UNCHANGED vars

\* ... do leave them alone.
LEMMA QuietQueues ==
  QueueQuiet => UNCHANGED <<managerVars, policies>>
  BY DEF QueueQuiet, CancelRunning, OpenSession, OpenFails, CheckPasses, CheckEnds,
         AskUser, TransferEnds, ResolveConflict, Stop, StartDone, ConnectionLost,
         Reconnect, BrowseOpen, BrowseClose, managerVars, vars

\* The actions of Next one by one, the quiet ones taken together.
LEMMA NextActions ==
  ASSUME QueueShape, [Next]_vars
  PROVE  \/ QueueQuiet
         \/ \E p \in Plan : \/ EnqueueCancelledPlan(p)
                            \/ \E c \in Conn : Enqueue(p, c)
                            \/ ForgetPlan(p) \/ CancelPlan(p)
         \/ \E id \in Id : \/ CancelRoot(id)
                           \/ \E p \in {PlanOf[id], NoPlan} : CancelUnknown(id, p)
         \/ \E j \in Job : \/ CancelPending(j)
                           \/ Retry(j) \/ RetryWithoutConnection(j)
                           \/ HandleCompleted(j) \/ StartNext(j)
                           \/ \E d \in Decision : \/ DecideOverwrite(j, d)
                                                  \/ DecideSkip(j, d)
                                                  \/ DecideRename(j, d)
<1>1. CASE UNCHANGED vars
  BY <1>1 DEF QueueQuiet
<1>2. CASE Request
  <2>1. CASE \E id \in Id : Cancel(id)
    <3>1. PICK id \in Id : Cancel(id)
      BY <2>1
    <3>2. CASE CancelPending(id)
      BY <3>2 DEF CancelPending, QueueShape, IsQueue
    <3>3. CASE CancelRunning(id)
      BY <3>3 DEF CancelRunning, Running, QueueQuiet
    <3> QED BY <3>1, <3>2, <3>3 DEF Cancel
  <2> QED BY <1>2, <2>1 DEF Request, QueueQuiet
<1>3. CASE \E j \in Job : HandleCompleted(j)
  BY <1>3
<1>4. CASE StartQueued
  BY <1>4 DEF StartQueued, QueueShape, IsQueue, QueueQuiet
<1>5. CASE \E j \in Job : JobStep(j)
  BY <1>5 DEF JobStep, QueueQuiet
<1>6. CASE Environment \/ Stop
  BY <1>6 DEF Environment, QueueQuiet
<1> QED BY <1>1, <1>2, <1>3, <1>4, <1>5, <1>6 DEF Next

\* The same, with the plan a cancel names known only to be a plan or none.
LEMMA NextCases ==
  ASSUME QueueShape, [Next]_vars
  PROVE  \/ QueueQuiet
         \/ \E p \in Plan : \/ EnqueueCancelledPlan(p)
                            \/ \E c \in Conn : Enqueue(p, c)
                            \/ ForgetPlan(p) \/ CancelPlan(p)
         \/ \E id \in Id : \/ CancelRoot(id)
                           \/ \E p \in Plan \cup {NoPlan} : CancelUnknown(id, p)
         \/ \E j \in Job : \/ CancelPending(j)
                           \/ Retry(j) \/ RetryWithoutConnection(j)
                           \/ HandleCompleted(j) \/ StartNext(j)
                           \/ \E d \in Decision : \/ DecideOverwrite(j, d)
                                                  \/ DecideSkip(j, d)
                                                  \/ DecideRename(j, d)
  BY NextActions, ConstantFacts

\* Every action keeps the shape of the manager's maps.
LEMMA QueueShapeStep ==
  ASSUME QueueShape, TaskShape, WorldShape, SessionHeld, [Next]_vars
  PROVE  QueueShape'
<1> USE ConstantFacts
<1>1. CASE QueueQuiet
  <2>1. UNCHANGED <<managerVars, policies>>
    BY <1>1, QuietQueues
  <2> QED BY <2>1 DEF managerVars, QueueShape
<1>2. ASSUME NEW p \in Plan, EnqueueCancelledPlan(p) PROVE QueueShape'
  <2>1. IsRecord(tombs')
    BY <1>2, ForgetRecord DEF EnqueueCancelledPlan, QueueShape
  <2> QED BY <1>2, <2>1 DEF EnqueueCancelledPlan, QueueShape
<1>3. ASSUME NEW p \in Plan, NEW c \in Conn, Enqueue(p, c) PROVE QueueShape'
  <2> DEFINE dropped == JobsOf(p) \cap DOMAIN tombs
  <2>1. IsQueue(pending')
    <3>1. PushPending(JobsOf(p) \ dropped, c)
      BY <1>3 DEF Enqueue
    <3>2. JobsOf(p) \ dropped \subseteq Job
      BY DEF JobsOf
    <3> HIDE DEF dropped
    <3> QED BY <3>1, <3>2, PushQueue DEF QueueShape
  <2>2. IsRecord(tombs')
    <3>1. tombs' = ForgetCancellationsForPlan(Without(tombs, dropped), p)
      BY <1>3 DEF Enqueue
    <3> HIDE DEF dropped
    <3>2. IsRecord(Without(tombs, dropped))
      BY WithoutRecord DEF QueueShape
    <3>3. IsRecord(ForgetCancellationsForPlan(Without(tombs, dropped), p))
      BY <3>2, ForgetRecord
    <3> QED BY <3>1, <3>3
  <2>3. pendingRoots' \subseteq Job /\ rootJob' \in [Plan -> Job \cup {NoId}]
    BY <1>3 DEF Enqueue, QueueShape
  <2>4. policies' \in [Plan -> Policy \cup {Unset}]
    BY <1>3, IdAssumption DEF Enqueue, AdoptPolicy, QueueShape
  <2>5. UNCHANGED <<childrenStarted, routes, idle>>
    BY <1>3 DEF Enqueue
  <2> QED BY <2>1, <2>2, <2>3, <2>4, <2>5 DEF QueueShape
<1>4. ASSUME NEW p \in Plan, ForgetPlan(p) PROVE QueueShape'
  <2>1. IsRecord(tombs')
    BY <1>4, ForgetRecord DEF ForgetPlan, QueueShape
  <2> QED BY <1>4, <2>1 DEF ForgetPlan, QueueShape
<1>5. ASSUME NEW p \in Plan, CancelPlan(p) PROVE QueueShape'
  BY <1>5, DropPlanShape DEF CancelPlan
<1>6. ASSUME NEW id \in Id, CancelRoot(id) PROVE QueueShape'
  BY <1>6, DropPlanShape DEF CancelRoot
<1>7. ASSUME NEW id \in Id, NEW p \in Plan \cup {NoPlan}, CancelUnknown(id, p)
      PROVE  QueueShape'
  <2>1. IsRecord(tombs')
    BY <1>7, RecordRecord DEF CancelUnknown, QueueShape
  <2> QED BY <1>7, <2>1 DEF CancelUnknown, QueueShape
<1>8. ASSUME NEW j \in Job, CancelPending(j) PROVE QueueShape'
  <2>1. IsQueue(pending')
    BY <1>8, WithoutQueue DEF CancelPending, QueueShape
  <2>2. CleanupPlanIfIdle(PlanOf[j], rootJob, childrenStarted, idle, tombs)
    BY <1>8 DEF CancelPending
  <2>3. PlanOf[j] \in Plan
    OBVIOUS
  <2>4. /\ rootJob' \in [Plan -> Job \cup {NoId}]
        /\ childrenStarted' \subseteq Plan
        /\ idle' \in [Plan -> Seq(Conn)]
        /\ policies' \in [Plan -> Policy \cup {Unset}]
        /\ IsRecord(tombs')
    BY <2>2, <2>3, CleanupShape DEF QueueShape
  <2> QED BY <1>8, <2>1, <2>4 DEF CancelPending, QueueShape
<1>9. ASSUME NEW j \in Job, Retry(j) PROVE QueueShape'
  <2>1. IsQueue(pending')
    <3>1. PushPending({j}, epoch)
      BY <1>9 DEF Retry
    <3>2. {j} \subseteq Job /\ epoch \in Conn /\ IsQueue(pending)
      BY DEF QueueShape, WorldShape
    <3> QED BY <3>1, <3>2, PushQueue
  <2>2. IsRecord(tombs')
    <3>1. tombs' = ForgetCancellationsForPlan(Without(tombs, {j}), PlanOf[j])
      BY <1>9 DEF Retry
    <3>2. IsRecord(Without(tombs, {j}))
      BY WithoutRecord DEF QueueShape
    <3>3. IsRecord(ForgetCancellationsForPlan(Without(tombs, {j}), PlanOf[j]))
      BY <3>2, ForgetRecord
    <3> QED BY <3>1, <3>3
  <2>3. policies' \in [Plan -> Policy \cup {Unset}]
    BY <1>9, IdAssumption DEF Retry, AdoptPolicy, QueueShape
  <2>4. DOMAIN routes' \subseteq Job /\ routes' \in [DOMAIN routes' -> Conn]
    BY <1>9 DEF Retry, QueueShape
  <2>5. pendingRoots' \subseteq Job
    BY <1>9 DEF Retry, QueueShape
  <2> QED BY <1>9, <2>1, <2>2, <2>3, <2>4, <2>5 DEF Retry, QueueShape
<1>10. ASSUME NEW j \in Job, RetryWithoutConnection(j) PROVE QueueShape'
  <2>1. IsRecord(tombs')
    BY <1>10, WithoutRecord DEF RetryWithoutConnection, QueueShape
  <2> QED BY <1>10, <2>1 DEF RetryWithoutConnection, QueueShape
<1>11. ASSUME NEW j \in Job, HandleCompleted(j) PROVE QueueShape'
  <2> DEFINE p == PlanOf[j]
             sessions == IF result[j] \in {"completed", "skippedClean"}
                         THEN [idle EXCEPT ![p] = ReturnIdleSession(@, session[j])]
                         ELSE idle
  <2>1. sessions \in [Plan -> Seq(Conn)]
    <3>1. CASE result[j] \in {"completed", "skippedClean"}
      <4>1. session[j] \in Conn
        BY <1>11, <3>1 DEF HandleCompleted, SessionHeld, TaskShape
      <4>2. idle[p] \in Seq(Conn)
        BY DEF QueueShape
      <4>3. ReturnIdleSession(idle[p], session[j]) \in Seq(Conn)
        BY <4>1, <4>2 DEF ReturnIdleSession
      <4> QED BY <3>1, <4>3 DEF QueueShape
    <3>2. CASE result[j] \notin {"completed", "skippedClean"}
      BY <3>2 DEF QueueShape
    <3> QED BY <3>1, <3>2
  <2>2. CleanupPlanIfIdle(p, rootJob, childrenStarted, sessions, tombs)
    BY <1>11 DEF HandleCompleted
  <2>3. p \in Plan
    OBVIOUS
  <2>4. /\ rootJob' \in [Plan -> Job \cup {NoId}]
        /\ childrenStarted' \subseteq Plan
        /\ idle' \in [Plan -> Seq(Conn)]
        /\ policies' \in [Plan -> Policy \cup {Unset}]
        /\ IsRecord(tombs')
    <3> HIDE DEF p, sessions
    <3> QED BY <2>1, <2>2, <2>3, CleanupShape DEF QueueShape
  <2>5. DOMAIN routes' \subseteq Job /\ routes' \in [DOMAIN routes' -> Conn]
    <3>1. jobConn[j] \in Conn
      BY DEF TaskShape
    <3> QED BY <1>11, <3>1 DEF HandleCompleted, QueueShape
  <2>6. UNCHANGED <<pending, pendingRoots>>
    BY <1>11 DEF HandleCompleted
  <2> QED BY <2>4, <2>5, <2>6 DEF QueueShape
<1>12. ASSUME NEW j \in Job, StartNext(j) PROVE QueueShape'
  <2>1. IsQueue(pending')
    BY <1>12, WithoutQueue DEF StartNext, QueueShape
  <2>2. idle' \in [Plan -> Seq(Conn)]
    <3>1. CASE idle[PlanOf[j]] = <<>>
      BY <1>12, <3>1 DEF StartNext, QueueShape
    <3>2. CASE idle[PlanOf[j]] # <<>>
      <4>1. idle[PlanOf[j]] \in Seq(Conn)
        BY DEF QueueShape
      <4>2. Tail(idle[PlanOf[j]]) \in Seq(Conn)
        BY <3>2, <4>1
      <4>3. idle' = [idle EXCEPT ![PlanOf[j]] = Tail(@)]
        BY <1>12, <3>2 DEF StartNext
      <4> QED BY <4>2, <4>3 DEF QueueShape
    <3> QED BY <3>1, <3>2
  <2>3. pendingRoots' \subseteq Job /\ childrenStarted' \subseteq Plan
    BY <1>12 DEF StartNext, QueueShape
  <2> QED BY <1>12, <2>1, <2>2, <2>3 DEF StartNext, QueueShape
<1>13. ASSUME NEW j \in Job, NEW d \in Decision,
              DecideOverwrite(j, d) \/ DecideSkip(j, d) \/ DecideRename(j, d)
       PROVE  QueueShape'
  <2>1. policies' \in [Plan -> Policy \cup {Unset}]
    <3>1. \/ policies' = policies
          \/ \E new \in Policy : policies' = [policies EXCEPT ![PlanOf[j]] = new]
      BY <1>13 DEF DecideOverwrite, DecideSkip, DecideRename, Policy
    <3>2. ASSUME NEW new \in Policy, policies' = [policies EXCEPT ![PlanOf[j]] = new]
          PROVE  policies' \in [Plan -> Policy \cup {Unset}]
      BY <3>2 DEF QueueShape
    <3> QED BY <3>1, <3>2 DEF QueueShape
  <2>2. UNCHANGED managerVars
    BY <1>13 DEF DecideOverwrite, DecideSkip, DecideRename
  <2> QED BY <2>1, <2>2 DEF managerVars, QueueShape
<1> QED
  BY <1>1, <1>2, <1>3, <1>4, <1>5, <1>6, <1>7, <1>8, <1>9, <1>10, <1>11, <1>12,
     <1>13, NextCases

\* The actions of Next seen from the job tasks.
LEMMA TaskCases ==
  ASSUME QueueShape, [Next]_vars
  PROVE  \/ UNCHANGED <<waiting, decision, cancelled, taskVars>>
         \/ \E S \in SUBSET Running : /\ cancelled' = cancelled \cup S
                                      /\ UNCHANGED <<waiting, decision, taskVars>>
         \/ \E j \in Job : \/ \E d \in Decision : \/ ResolveConflict(j, d)
                                                  \/ DecideOverwrite(j, d)
                                                  \/ DecideSkip(j, d)
                                                  \/ DecideRename(j, d)
                           \/ HandleCompleted(j) \/ StartNext(j)
                           \/ OpenSession(j) \/ OpenFails(j) \/ CheckPasses(j)
                           \/ CheckEnds(j) \/ AskUser(j) \/ TransferEnds(j)
<1> DEFINE Same == UNCHANGED <<waiting, decision, cancelled, taskVars>>
           Stopped == \E S \in SUBSET Running :
                        /\ cancelled' = cancelled \cup S
                        /\ UNCHANGED <<waiting, decision, taskVars>>
<1>1. ASSUME NEW p \in Plan, CancelPlan(p) \/ \E id \in Id : CancelRoot(id) PROVE Stopped
  <2>1. \E q \in Plan : DropPlan(q)
    BY <1>1 DEF CancelPlan, CancelRoot
  <2>2. PICK q \in Plan : DropPlan(q)
    BY <2>1
  <2>3. RunningIn(q) \subseteq Running /\ cancelled' = cancelled \cup RunningIn(q)
    BY <2>2 DEF DropPlan, RunningIn
  <2>4. UNCHANGED <<waiting, decision, taskVars>>
    BY <1>1 DEF CancelPlan, CancelRoot
  <2> QED BY <2>3, <2>4
<1>2. ASSUME NEW j \in Job, CancelRunning(j) PROVE Stopped
  <2>1. {j} \subseteq Running /\ cancelled' = cancelled \cup {j}
    BY <1>2 DEF CancelRunning
  <2>2. UNCHANGED <<waiting, decision, taskVars>>
    BY <1>2 DEF CancelRunning
  <2> QED BY <2>1, <2>2
<1>3. ASSUME Stop PROVE Stopped
  BY <1>3 DEF Stop
<1>4. ASSUME \/ StartDone \/ ConnectionLost \/ Reconnect \/ BrowseOpen
             \/ (\E c \in Conn : BrowseClose(c)) \/ UNCHANGED vars
      PROVE  Same
  BY <1>4 DEF StartDone, ConnectionLost, Reconnect, BrowseOpen, BrowseClose, vars, taskVars
<1>5. ASSUME NEW p \in Plan,
             EnqueueCancelledPlan(p) \/ (\E c \in Conn : Enqueue(p, c)) \/ ForgetPlan(p)
      PROVE  Same
  BY <1>5 DEF EnqueueCancelledPlan, Enqueue, ForgetPlan
<1>6. ASSUME NEW id \in Id, NEW p \in Plan \cup {NoPlan}, CancelUnknown(id, p) PROVE Same
  BY <1>6 DEF CancelUnknown
<1>7. ASSUME NEW j \in Job, CancelPending(j) \/ Retry(j) \/ RetryWithoutConnection(j)
      PROVE  Same
  BY <1>7 DEF CancelPending, Retry, RetryWithoutConnection
<1> HIDE DEF Same, Stopped
<1>8. CASE QueueQuiet
  BY <1>2, <1>3, <1>4, <1>8 DEF QueueQuiet, Same, Stopped
<1>9. CASE \E id \in Id : CancelRoot(id)
  <2>1. \E p \in Plan : TRUE
    BY <1>9 DEF CancelRoot
  <2> QED BY <1>1, <1>9, <2>1 DEF Stopped
<1> QED
  BY <1>1, <1>5, <1>6, <1>7, <1>8, <1>9, NextCases DEF Same, Stopped

\* start_queued only starts what is queued and may start.
LEMMA StartedWasQueued ==
  ASSUME NEW j, StartNext(j)
  PROVE  j \in DOMAIN pending /\ IsEligible(j)
  BY DEF StartNext, IsNext

\* Every action keeps the shape of the tasks' state.
LEMMA TaskShapeStep ==
  ASSUME QueueShape, TaskShape, WorldShape, [Next]_vars
  PROVE  TaskShape'
<1> USE ConstantFacts
<1>1. CASE UNCHANGED <<waiting, decision, cancelled, taskVars>>
  BY <1>1 DEF taskVars, TaskShape
<1>2. CASE \E S \in SUBSET Running : /\ cancelled' = cancelled \cup S
                                     /\ UNCHANGED <<waiting, decision, taskVars>>
  BY <1>2 DEF taskVars, TaskShape, Running
<1>3. ASSUME NEW j \in Job, NEW d \in Decision, ResolveConflict(j, d) PROVE TaskShape'
  BY <1>3 DEF ResolveConflict, TaskShape, taskVars
<1>4. ASSUME NEW j \in Job, NEW d \in Decision, DecideOverwrite(j, d) PROVE TaskShape'
  BY <1>4 DEF DecideOverwrite, TakeDecision, TaskShape, Policy, Decision
<1>5. ASSUME NEW j \in Job, NEW d \in Decision, DecideSkip(j, d) PROVE TaskShape'
  BY <1>5 DEF DecideSkip, TakeDecision, Finish, SkipResult, TaskShape, Decision
<1>6. ASSUME NEW j \in Job, NEW d \in Decision, DecideRename(j, d) PROVE TaskShape'
  BY <1>6 DEF DecideRename, TakeDecision, Finish, TaskShape, Decision
<1>7. ASSUME NEW j \in Job, HandleCompleted(j) PROVE TaskShape'
  BY <1>7 DEF HandleCompleted, TaskShape, Policy
<1>8. ASSUME NEW j \in Job, StartNext(j) PROVE TaskShape'
  <2>1. pending[j].conn \in Conn
    BY <1>8, StartedWasQueued DEF QueueShape, IsQueue
  <2>2. jobConn' \in [Job -> Conn]
    BY <1>8, <2>1 DEF StartNext, TaskShape
  <2>3. policy' \in [Job -> Policy]
    <3>1. (IF policies[PlanOf[j]] = Unset THEN InitPolicy[PlanOf[j]]
                                         ELSE policies[PlanOf[j]]) \in Policy
      BY IdAssumption DEF QueueShape
    <3> QED BY <1>8, <3>1 DEF StartNext, TaskShape
  <2>4. session' \in [Job -> Conn \cup {NoSession}] /\ pc' \in
          [Job -> {"idle", "open", "check", "ask", "xfer", "done"}]
    <3>1. CASE idle[PlanOf[j]] = <<>>
      BY <1>8, <3>1 DEF StartNext, TaskShape
    <3>2. CASE idle[PlanOf[j]] # <<>>
      <4>1. idle[PlanOf[j]] \in Seq(Conn)
        BY DEF QueueShape
      <4>2. Head(idle[PlanOf[j]]) \in Conn
        BY <3>2, <4>1
      <4>3. /\ session' = [session EXCEPT ![j] = Head(idle[PlanOf[j]])]
            /\ pc' = [pc EXCEPT ![j] = "check"]
        BY <1>8, <3>2 DEF StartNext
      <4> QED BY <4>2, <4>3 DEF TaskShape
    <3> QED BY <3>1, <3>2
  <2>5. mayClear' \subseteq Job
    BY <1>8 DEF StartNext, TaskShape
  <2>6. UNCHANGED <<waiting, decision, cancelled, result>>
    BY <1>8 DEF StartNext
  <2> QED BY <2>2, <2>3, <2>4, <2>5, <2>6 DEF TaskShape
<1>9. ASSUME NEW j \in Job, OpenSession(j) PROVE TaskShape'
  BY <1>9 DEF OpenSession, TaskShape
<1>10. ASSUME NEW j \in Job, OpenFails(j) PROVE TaskShape'
  BY <1>10 DEF OpenFails, Finish, TaskShape
<1>11. ASSUME NEW j \in Job, CheckPasses(j) \/ AskUser(j) PROVE TaskShape'
  BY <1>11 DEF CheckPasses, AskUser, TaskShape
<1>12. ASSUME NEW j \in Job, CheckEnds(j) PROVE TaskShape'
  BY <1>12 DEF CheckEnds, Finish, SkipResult, TaskShape
<1>13. ASSUME NEW j \in Job, TransferEnds(j) PROVE TaskShape'
  BY <1>13 DEF TransferEnds, Finish, TaskShape
<1> QED
  BY <1>1, <1>2, <1>3, <1>4, <1>5, <1>6, <1>7, <1>8, <1>9, <1>10, <1>11, <1>12,
     <1>13, TaskCases

\* Every action keeps the shape of the rest of the state.
LEMMA WorldShapeStep ==
  ASSUME QueueShape, TaskShape, WorldShape, [Next]_vars
  PROVE  WorldShape'
<1> USE ConstantFacts
<1>1. CASE UNCHANGED vars
  BY <1>1 DEF vars, WorldShape
<1>2. ASSUME NEW p \in Plan, \/ EnqueueCancelledPlan(p) \/ ForgetPlan(p)
                             \/ \E c \in Conn : Enqueue(p, c)
      PROVE  WorldShape'
  BY <1>2 DEF EnqueueCancelledPlan, ForgetPlan, Enqueue, WorldShape, connVars
<1>3. ASSUME NEW p \in Plan, CancelPlan(p) PROVE WorldShape'
  BY <1>3 DEF CancelPlan, DropPlan, WorldShape, connVars
<1>4. ASSUME NEW id \in Id, CancelRoot(id) PROVE WorldShape'
  BY <1>4 DEF CancelRoot, DropPlan, Asked, WorldShape, connVars
<1>5. ASSUME NEW id \in Id, NEW p \in Plan \cup {NoPlan}, CancelUnknown(id, p)
      PROVE  WorldShape'
  BY <1>5 DEF CancelUnknown, Asked, WorldShape, connVars
<1>6. ASSUME NEW j \in Job, CancelPending(j) \/ CancelRunning(j) PROVE WorldShape'
  BY <1>6 DEF CancelPending, CancelRunning, Asked, WorldShape, connVars
<1>7. ASSUME NEW j \in Job, Retry(j) \/ RetryWithoutConnection(j) PROVE WorldShape'
  BY <1>7 DEF Retry, RetryWithoutConnection, WorldShape, connVars
<1>8. ASSUME NEW j \in Job, HandleCompleted(j) \/ StartNext(j) PROVE WorldShape'
  BY <1>8 DEF HandleCompleted, StartNext, WorldShape, connVars
<1>9. ASSUME NEW j \in Job, NEW d \in Decision,
             ResolveConflict(j, d) \/ DecideOverwrite(j, d)
      PROVE  WorldShape'
  BY <1>9 DEF ResolveConflict, DecideOverwrite, WorldShape, connVars
<1>10. ASSUME NEW j \in Job, NEW d \in Decision, DecideSkip(j, d) \/ DecideRename(j, d)
       PROVE  WorldShape'
  BY <1>10 DEF DecideSkip, DecideRename, Finish, SkipResult, WorldShape, connVars
<1>11. ASSUME NEW j \in Job, OpenSession(j) \/ CheckPasses(j) \/ AskUser(j)
       PROVE  WorldShape'
  BY <1>11 DEF OpenSession, CheckPasses, AskUser, WorldShape, connVars
<1>12. ASSUME NEW j \in Job, OpenFails(j) \/ CheckEnds(j) \/ TransferEnds(j)
       PROVE  WorldShape'
  BY <1>12 DEF OpenFails, CheckEnds, TransferEnds, Finish, SkipResult, WorldShape, connVars
<1>13. CASE Stop \/ StartDone
  BY <1>13 DEF Stop, StartDone, WorldShape, connVars
<1>14. CASE ConnectionLost \/ Reconnect
  <2>1. epoch' \in Conn
    BY <1>14, BoundAssumption DEF ConnectionLost, Reconnect, WorldShape, Conn
  <2>2. up' \in BOOLEAN
    BY <1>14 DEF ConnectionLost, Reconnect
  <2>3. UNCHANGED <<mgr, phase, browse, told, asked, planAsked, started, retries, cancels>>
    BY <1>14 DEF ConnectionLost, Reconnect
  <2> QED BY <2>1, <2>2, <2>3 DEF WorldShape
<1>15. CASE BrowseOpen \/ \E c \in Conn : BrowseClose(c)
  BY <1>15 DEF BrowseOpen, BrowseClose, WorldShape
<1>16. CASE QueueQuiet
  BY <1>1, <1>6, <1>9, <1>11, <1>12, <1>13, <1>14, <1>15, <1>16 DEF QueueQuiet
<1> QED
  BY <1>2, <1>3, <1>4, <1>5, <1>6, <1>7, <1>8, <1>9, <1>10, <1>16, NextCases

\* A session handed from step to step is never missing.
LEMMA SessionHeldStep ==
  ASSUME QueueShape, TaskShape, WorldShape, SessionHeld, [Next]_vars
  PROVE  SessionHeld'
<1> USE ConstantFacts
<1>1. CASE \/ UNCHANGED <<waiting, decision, cancelled, taskVars>>
           \/ \E S \in SUBSET Running : /\ cancelled' = cancelled \cup S
                                        /\ UNCHANGED <<waiting, decision, taskVars>>
  BY <1>1 DEF taskVars, SessionHeld
<1>2. ASSUME NEW j \in Job, NEW d \in Decision, ResolveConflict(j, d) PROVE SessionHeld'
  BY <1>2 DEF ResolveConflict, taskVars, SessionHeld
<1>3. ASSUME NEW j \in Job, NEW d \in Decision, DecideOverwrite(j, d) PROVE SessionHeld'
  BY <1>3 DEF DecideOverwrite, Answer, SessionHeld, TaskShape
<1>4. ASSUME NEW j \in Job, NEW d \in Decision, DecideSkip(j, d) \/ DecideRename(j, d)
      PROVE  SessionHeld'
  BY <1>4 DEF DecideSkip, DecideRename, Answer, Finish, SessionHeld, TaskShape
<1>5. ASSUME NEW j \in Job, HandleCompleted(j) PROVE SessionHeld'
  BY <1>5 DEF HandleCompleted, SessionHeld, TaskShape
<1>6. ASSUME NEW j \in Job, StartNext(j) PROVE SessionHeld'
  <2>1. CASE idle[PlanOf[j]] = <<>>
    BY <1>6, <2>1 DEF StartNext, SessionHeld, TaskShape
  <2>2. CASE idle[PlanOf[j]] # <<>>
    <3>1. idle[PlanOf[j]] \in Seq(Conn)
      BY DEF QueueShape
    <3>2. Head(idle[PlanOf[j]]) \in Conn
      BY <2>2, <3>1
    <3>3. /\ session' = [session EXCEPT ![j] = Head(idle[PlanOf[j]])]
          /\ pc' = [pc EXCEPT ![j] = "check"] /\ result' = result
      BY <1>6, <2>2 DEF StartNext
    <3> QED BY <3>2, <3>3 DEF SessionHeld, TaskShape
  <2> QED BY <2>1, <2>2
<1>7. ASSUME NEW j \in Job, OpenSession(j) PROVE SessionHeld'
  BY <1>7 DEF OpenSession, SessionHeld, TaskShape
<1>8. ASSUME NEW j \in Job, OpenFails(j) PROVE SessionHeld'
  BY <1>8 DEF OpenFails, Finish, SessionHeld, TaskShape
<1>9. ASSUME NEW j \in Job, CheckPasses(j) \/ AskUser(j) PROVE SessionHeld'
  BY <1>9 DEF CheckPasses, AskUser, SessionHeld, TaskShape
<1>10. ASSUME NEW j \in Job, CheckEnds(j) \/ TransferEnds(j) PROVE SessionHeld'
  BY <1>10 DEF CheckEnds, TransferEnds, Finish, SkipResult, SessionHeld, TaskShape
<1> QED
  BY <1>1, <1>2, <1>3, <1>4, <1>5, <1>6, <1>7, <1>8, <1>9, <1>10, TaskCases

----------------------------------------------------------------------------
(* Counters.                                                               *)

PlanPart(D, p) == {k \in D : PlanOf[k] = p}
Counts(f, D) == /\ f \in [Plan -> Nat]
                /\ \A p \in Plan : f[p] = Cardinality(PlanPart(D, p))

\* Counting one more job.
LEMMA CountAdd ==
  ASSUME NEW f, NEW D \in SUBSET Job, Counts(f, D), NEW j \in Job \ D
  PROVE  Counts([f EXCEPT ![PlanOf[j]] = @ + 1], D \cup {j})
<1> USE ConstantFacts
<1>1. ASSUME NEW p \in Plan
      PROVE  [f EXCEPT ![PlanOf[j]] = @ + 1][p] = Cardinality(PlanPart(D \cup {j}, p))
  <2>1. IsFiniteSet(PlanPart(D, p))
    BY FS_Subset DEF PlanPart
  <2>2. CASE p = PlanOf[j]
    <3>1. PlanPart(D \cup {j}, p) = PlanPart(D, p) \cup {j} /\ j \notin PlanPart(D, p)
      BY <2>2 DEF PlanPart
    <3>2. Cardinality(PlanPart(D, p) \cup {j}) = Cardinality(PlanPart(D, p)) + 1
      BY <2>1, <3>1, FS_AddElement
    <3> QED BY <2>2, <3>1, <3>2 DEF Counts
  <2>3. CASE p # PlanOf[j]
    <3>1. PlanPart(D \cup {j}, p) = PlanPart(D, p)
      BY <2>3 DEF PlanPart
    <3> QED BY <2>3, <3>1 DEF Counts
  <2> QED BY <2>2, <2>3
<1>2. [f EXCEPT ![PlanOf[j]] = @ + 1] \in [Plan -> Nat]
  BY DEF Counts
<1> QED BY <1>1, <1>2 DEF Counts

\* Counting one job less.
LEMMA CountRemove ==
  ASSUME NEW f, NEW D \in SUBSET Job, Counts(f, D), NEW j \in D
  PROVE  Counts([f EXCEPT ![PlanOf[j]] = @ - 1], D \ {j})
<1> USE ConstantFacts
<1>1. ASSUME NEW p \in Plan
      PROVE  /\ [f EXCEPT ![PlanOf[j]] = @ - 1][p] = Cardinality(PlanPart(D \ {j}, p))
             /\ Cardinality(PlanPart(D \ {j}, p)) \in Nat
  <2>1. IsFiniteSet(PlanPart(D, p)) /\ IsFiniteSet(PlanPart(D \ {j}, p))
    BY FS_Subset DEF PlanPart
  <2>2. Cardinality(PlanPart(D \ {j}, p)) \in Nat
    BY <2>1, FS_CardinalityType
  <2>3. CASE p = PlanOf[j]
    <3>1. PlanPart(D \ {j}, p) = PlanPart(D, p) \ {j} /\ j \in PlanPart(D, p)
      BY <2>3 DEF PlanPart
    <3>2. Cardinality(PlanPart(D, p) \ {j}) = Cardinality(PlanPart(D, p)) - 1
      BY <2>1, <3>1, FS_RemoveElement
    <3> QED BY <2>2, <2>3, <3>1, <3>2 DEF Counts
  <2>4. CASE p # PlanOf[j]
    <3>1. PlanPart(D \ {j}, p) = PlanPart(D, p)
      BY <2>4 DEF PlanPart
    <3> QED BY <2>2, <2>4, <3>1 DEF Counts
  <2> QED BY <2>3, <2>4
<1>2. [f EXCEPT ![PlanOf[j]] = @ - 1] \in [Plan -> Nat]
  BY <1>1 DEF Counts
<1> QED BY <1>1, <1>2 DEF Counts

\* A plan of which nothing is counted has the count zero, and the other way round.
LEMMA CountZero ==
  ASSUME NEW f, NEW D \in SUBSET Job, Counts(f, D), NEW p \in Plan
  PROVE  f[p] = 0 <=> PlanPart(D, p) = {}
<1>1. IsFiniteSet(PlanPart(D, p))
  BY ConstantFacts, FS_Subset DEF PlanPart
<1> QED BY <1>1, FS_EmptySet DEF Counts

\* What the cached counters mean.
LEMMA CountsMeaning ==
  ASSUME QueueShape
  PROVE  /\ QueueCounts /\ pendingPerPlan \in [Plan -> Nat]
              <=> Counts(pendingPerPlan, DOMAIN pending)
         /\ RunningCounts /\ runningPerPlan \in [Plan -> Nat]
              <=> Counts(runningPerPlan, Running)
  BY DEF QueueCounts, RunningCounts, Counts, PlanPart, PendingIn, RunningIn

\* Dropping a whole plan from the queue.
LEMMA CountDrop ==
  ASSUME NEW f, NEW D \in SUBSET Job, Counts(f, D), NEW p \in Plan
  PROVE  Counts([f EXCEPT ![p] = 0], D \ PlanPart(D, p))
<1>1. ASSUME NEW q \in Plan
      PROVE  [f EXCEPT ![p] = 0][q] = Cardinality(PlanPart(D \ PlanPart(D, p), q))
  <2>1. CASE q = p
    <3>1. PlanPart(D \ PlanPart(D, p), q) = {}
      BY <2>1 DEF PlanPart
    <3> QED BY <2>1, <3>1, FS_EmptySet DEF Counts
  <2>2. CASE q # p
    <3>1. PlanPart(D \ PlanPart(D, p), q) = PlanPart(D, q)
      BY <2>2 DEF PlanPart
    <3> QED BY <2>2, <3>1 DEF Counts
  <2> QED BY <2>1, <2>2
<1> QED BY <1>1 DEF Counts

\* Queueing several jobs of a plan that has none queued.
LEMMA CountBatch ==
  ASSUME NEW f, NEW D \in SUBSET Job, Counts(f, D), NEW p \in Plan,
         PlanPart(D, p) = {}, NEW S \in SUBSET JobsOf(p)
  PROVE  Counts([f EXCEPT ![p] = @ + Cardinality(S)], D \cup S)
<1> USE ConstantFacts
<1>1. IsFiniteSet(S) /\ Cardinality(S) \in Nat
  BY FS_Subset, FS_CardinalityType DEF JobsOf
<1>2. f[p] = 0 /\ f \in [Plan -> Nat]
  BY CountZero DEF Counts
<1>3. ASSUME NEW q \in Plan
      PROVE  [f EXCEPT ![p] = @ + Cardinality(S)][q] = Cardinality(PlanPart(D \cup S, q))
  <2>1. CASE q = p
    <3>1. PlanPart(D \cup S, q) = S
      BY <2>1 DEF PlanPart, JobsOf
    <3> QED BY <1>1, <1>2, <2>1, <3>1
  <2>2. CASE q # p
    <3>1. PlanPart(D \cup S, q) = PlanPart(D, q)
      BY <2>2 DEF PlanPart, JobsOf
    <3> QED BY <1>2, <2>2, <3>1 DEF Counts
  <2> QED BY <2>1, <2>2
<1>4. [f EXCEPT ![p] = @ + Cardinality(S)] \in [Plan -> Nat]
  BY <1>1, <1>2
<1> QED BY <1>3, <1>4 DEF Counts

\* The ways in which an action changes the queue.
QueueKept == UNCHANGED <<pending, pendingPerPlan>>
QueueBatch(p, S) ==
  /\ S \subseteq JobsOf(p) /\ PendingIn(p) = {} /\ phase'[p] = "handed"
  /\ DOMAIN pending' = DOMAIN pending \cup S
  /\ pendingPerPlan' = [pendingPerPlan EXCEPT ![p] = @ + Cardinality(S)]
QueueDrop(p) ==
  /\ DOMAIN pending' = DOMAIN pending \ PendingIn(p)
  /\ pendingPerPlan' = [pendingPerPlan EXCEPT ![p] = 0]
QueueRemove(j) ==
  /\ j \in DOMAIN pending /\ DOMAIN pending' = DOMAIN pending \ {j}
  /\ pendingPerPlan' = [pendingPerPlan EXCEPT ![PlanOf[j]] = @ - 1]
QueueAdd(j) ==
  /\ j \in DOMAIN routes
  /\ j \notin DOMAIN pending /\ DOMAIN pending' = DOMAIN pending \cup {j}
  /\ pendingPerPlan' = [pendingPerPlan EXCEPT ![PlanOf[j]] = @ + 1]
QueueStep ==
  \/ QueueKept
  \/ \E p \in Plan : QueueDrop(p) \/ \E S \in SUBSET Job : QueueBatch(p, S)
  \/ \E j \in Job : QueueRemove(j) \/ QueueAdd(j)

\* ... are all there are.
LEMMA QueueCases ==
  ASSUME QueueShape, WorldShape, OwnedOnce, UntouchedBeforeEnqueue, [Next]_vars
  PROVE  QueueStep
<1>1. CASE QueueQuiet
  BY <1>1, QuietQueues DEF managerVars, QueueStep, QueueKept
<1>2. ASSUME NEW p \in Plan, EnqueueCancelledPlan(p) \/ ForgetPlan(p) PROVE QueueStep
  BY <1>2 DEF EnqueueCancelledPlan, ForgetPlan, QueueStep, QueueKept
<1>3. ASSUME NEW p \in Plan, NEW c \in Conn, Enqueue(p, c) PROVE QueueStep
  <2> DEFINE S == JobsOf(p) \ (JobsOf(p) \cap DOMAIN tombs)
  <2>1. S \subseteq JobsOf(p) /\ S \subseteq Job
    BY DEF JobsOf
  <2>2. PendingIn(p) = {}
    BY <1>3 DEF Enqueue, UntouchedBeforeEnqueue, PendingIn, JobsOf, QueueShape, IsQueue
  <2>3. /\ PushPending(S, c)
        /\ pendingPerPlan' = [pendingPerPlan EXCEPT ![p] = @ + Cardinality(S)]
    BY <1>3 DEF Enqueue
  <2> HIDE DEF S
  <2>4. DOMAIN pending' = DOMAIN pending \cup S
    BY <2>1, <2>3, PushQueue DEF QueueShape
  <2>5. phase'[p] = "handed"
    BY <1>3 DEF Enqueue, WorldShape
  <2>6. QueueBatch(p, S)
    BY <2>1, <2>2, <2>3, <2>4, <2>5 DEF QueueBatch
  <2> QED BY <2>1, <2>6 DEF QueueStep
<1>4. ASSUME NEW p \in Plan, DropPlan(p) PROVE QueueStep
  <2>1. DOMAIN pending' = DOMAIN pending \ PendingIn(p)
    BY <1>4, WithoutQueue DEF DropPlan, QueueShape
  <2>2. QueueDrop(p)
    BY <1>4, <2>1 DEF DropPlan, QueueDrop
  <2> QED BY <2>2 DEF QueueStep
<1>5. ASSUME NEW id \in Id, NEW p \in Plan \cup {NoPlan}, CancelUnknown(id, p) PROVE QueueStep
  BY <1>5 DEF CancelUnknown, QueueStep, QueueKept
<1>6. ASSUME NEW j \in Job, CancelPending(j) \/ StartNext(j) PROVE QueueStep
  <2>1. j \in DOMAIN pending
    BY <1>6, StartedWasQueued DEF CancelPending
  <2>2. DOMAIN pending' = DOMAIN pending \ {j}
    BY <1>6, WithoutQueue DEF CancelPending, StartNext, QueueShape
  <2>3. pendingPerPlan' = [pendingPerPlan EXCEPT ![PlanOf[j]] = @ - 1]
    BY <1>6 DEF CancelPending, StartNext
  <2>4. QueueRemove(j)
    BY <2>1, <2>2, <2>3 DEF QueueRemove
  <2> QED BY <2>4 DEF QueueStep
<1>7. ASSUME NEW j \in Job, Retry(j) PROVE QueueStep
  <2>1. j \in DOMAIN routes /\ j \notin DOMAIN pending
    BY <1>7 DEF Retry, OwnedOnce
  <2>2. PushPending({j}, epoch) /\ {j} \subseteq Job /\ epoch \in Conn /\ IsQueue(pending)
    BY <1>7 DEF Retry, QueueShape, WorldShape
  <2>3. DOMAIN pending' = DOMAIN pending \cup {j}
    BY <2>2, PushQueue
  <2>4. pendingPerPlan' = [pendingPerPlan EXCEPT ![PlanOf[j]] = @ + 1]
    BY <1>7 DEF Retry
  <2>5. QueueAdd(j)
    BY <2>1, <2>3, <2>4 DEF QueueAdd
  <2> QED BY <2>5 DEF QueueStep
<1>8. ASSUME NEW j \in Job, RetryWithoutConnection(j) \/ HandleCompleted(j) PROVE QueueStep
  BY <1>8 DEF RetryWithoutConnection, HandleCompleted, QueueStep, QueueKept
<1>9. ASSUME NEW j \in Job, NEW d \in Decision,
             DecideOverwrite(j, d) \/ DecideSkip(j, d) \/ DecideRename(j, d)
      PROVE  QueueStep
  BY <1>9 DEF DecideOverwrite, DecideSkip, DecideRename, managerVars, QueueStep,
         QueueKept
<1>10. ASSUME NEW p \in Plan, CancelPlan(p) PROVE QueueStep
  BY <1>4, <1>10 DEF CancelPlan
<1>11. ASSUME NEW id \in Id, CancelRoot(id) PROVE QueueStep
  BY <1>4, <1>11 DEF CancelRoot
<1> QED
  BY <1>1, <1>2, <1>3, <1>5, <1>6, <1>7, <1>8, <1>9, <1>10, <1>11, NextCases

\* pending_per_plan counts the queue.
LEMMA QueueCountsStep ==
  ASSUME QueueShape, WorldShape, OwnedOnce, UntouchedBeforeEnqueue,
         QueueCounts, pendingPerPlan \in [Plan -> Nat], QueueShape', [Next]_vars
  PROVE  QueueCounts' /\ pendingPerPlan' \in [Plan -> Nat]
<1>1. Counts(pendingPerPlan, DOMAIN pending) /\ DOMAIN pending \in SUBSET Job
  BY CountsMeaning DEF QueueShape, IsQueue
<1>2. SUFFICES Counts(pendingPerPlan', DOMAIN pending')
  BY DEF QueueCounts, Counts, PlanPart, PendingIn
<1>3. CASE QueueKept
  BY <1>1, <1>3 DEF QueueKept
<1>4. ASSUME NEW p \in Plan, NEW S \in SUBSET Job, QueueBatch(p, S)
      PROVE  Counts(pendingPerPlan', DOMAIN pending')
  <2>1. PlanPart(DOMAIN pending, p) = {} /\ S \in SUBSET JobsOf(p)
    BY <1>4 DEF QueueBatch, PendingIn, PlanPart
  <2>2. Counts([pendingPerPlan EXCEPT ![p] = @ + Cardinality(S)], DOMAIN pending \cup S)
    BY <1>1, <2>1, CountBatch
  <2> QED BY <1>4, <2>2 DEF QueueBatch
<1>5. ASSUME NEW p \in Plan, QueueDrop(p)
      PROVE  Counts(pendingPerPlan', DOMAIN pending')
  <2>1. PlanPart(DOMAIN pending, p) = PendingIn(p)
    BY DEF PendingIn, PlanPart
  <2>2. Counts([pendingPerPlan EXCEPT ![p] = 0],
               DOMAIN pending \ PlanPart(DOMAIN pending, p))
    BY <1>1, CountDrop
  <2> QED BY <1>5, <2>1, <2>2 DEF QueueDrop
<1>6. ASSUME NEW j \in Job, QueueRemove(j)
      PROVE  Counts(pendingPerPlan', DOMAIN pending')
  <2>1. Counts([pendingPerPlan EXCEPT ![PlanOf[j]] = @ - 1], DOMAIN pending \ {j})
    BY <1>1, <1>6, CountRemove DEF QueueRemove
  <2> QED BY <1>6, <2>1 DEF QueueRemove
<1>7. ASSUME NEW j \in Job, QueueAdd(j)
      PROVE  Counts(pendingPerPlan', DOMAIN pending')
  <2>1. j \in Job \ DOMAIN pending
    BY <1>7 DEF QueueAdd
  <2>2. Counts([pendingPerPlan EXCEPT ![PlanOf[j]] = @ + 1], DOMAIN pending \cup {j})
    BY <1>1, <2>1, CountAdd
  <2> QED BY <1>7, <2>2 DEF QueueAdd
<1> QED BY <1>3, <1>4, <1>5, <1>6, <1>7, QueueCases DEF QueueStep

\* The quiet actions start and end no job's turn with the manager.
LEMMA QuietRunning ==
  ASSUME TaskShape, QueueQuiet
  PROVE  Running' = Running
<1>1. ASSUME NEW j \in Job, \/ OpenSession(j) \/ CheckPasses(j) \/ AskUser(j)
                            \/ OpenFails(j) \/ CheckEnds(j) \/ TransferEnds(j)
      PROVE  Running' = Running
  BY <1>1 DEF OpenSession, CheckPasses, AskUser, OpenFails, CheckEnds, TransferEnds,
              Finish, Running, TaskShape
<1>2. ASSUME \/ Stop \/ StartDone \/ ConnectionLost \/ Reconnect \/ BrowseOpen
             \/ (\E c \in Conn : BrowseClose(c)) \/ UNCHANGED vars
      PROVE  Running' = Running
  BY <1>2 DEF Stop, StartDone, ConnectionLost, Reconnect, BrowseOpen, BrowseClose,
              vars, taskVars, Running
<1>3. ASSUME NEW j \in Job, CancelRunning(j) \/ \E d \in Decision : ResolveConflict(j, d)
      PROVE  Running' = Running
  BY <1>3 DEF CancelRunning, ResolveConflict, taskVars, Running
<1> QED BY <1>1, <1>2, <1>3 DEF QueueQuiet

\* The ways in which an action changes which jobs run.
RunKept == Running' = Running /\ runningPerPlan' = runningPerPlan
RunAdd(j) ==
  /\ j \notin Running /\ Running' = Running \cup {j}
  /\ runningPerPlan' = [runningPerPlan EXCEPT ![PlanOf[j]] = @ + 1]
RunRemove(j) ==
  /\ j \in Running /\ Running' = Running \ {j}
  /\ runningPerPlan' = [runningPerPlan EXCEPT ![PlanOf[j]] = @ - 1]

\* A job is added to the running ones by start_queued only, and removed by
\* handle_completed only.
LEMMA RunCases ==
  ASSUME QueueShape, TaskShape, OwnedOnce, [Next]_vars
  PROVE  \/ RunKept
         \/ \E j \in Job : StartNext(j) /\ RunAdd(j)
         \/ \E j \in Job : HandleCompleted(j) /\ RunRemove(j)
<1>1. CASE QueueQuiet
  <2>1. runningPerPlan' = runningPerPlan
    BY <1>1, QuietQueues DEF managerVars
  <2> QED BY <1>1, <2>1, QuietRunning DEF RunKept
<1>2. ASSUME NEW p \in Plan, \/ EnqueueCancelledPlan(p) \/ ForgetPlan(p) \/ CancelPlan(p)
                             \/ \E c \in Conn : Enqueue(p, c)
      PROVE  RunKept
  BY <1>2 DEF EnqueueCancelledPlan, ForgetPlan, CancelPlan, DropPlan, Enqueue, taskVars,
              Running, RunKept
<1>3. ASSUME NEW id \in Id, \/ CancelRoot(id)
                            \/ \E p \in Plan \cup {NoPlan} : CancelUnknown(id, p)
      PROVE  RunKept
  BY <1>3 DEF CancelRoot, DropPlan, CancelUnknown, taskVars, Running, RunKept
<1>4. ASSUME NEW j \in Job, CancelPending(j) \/ Retry(j) \/ RetryWithoutConnection(j)
      PROVE  RunKept
  BY <1>4 DEF CancelPending, Retry, RetryWithoutConnection, taskVars, Running, RunKept
<1>5. ASSUME NEW j \in Job, HandleCompleted(j) PROVE RunRemove(j)
  BY <1>5 DEF HandleCompleted, Running, RunRemove, TaskShape
<1>6. ASSUME NEW j \in Job, StartNext(j) PROVE RunAdd(j)
  <2>1. j \notin Running
    BY <1>6, StartedWasQueued DEF OwnedOnce
  <2>2. pc' \in {[pc EXCEPT ![j] = "open"], [pc EXCEPT ![j] = "check"]}
    BY <1>6 DEF StartNext
  <2>3. runningPerPlan' = [runningPerPlan EXCEPT ![PlanOf[j]] = @ + 1]
    BY <1>6 DEF StartNext
  <2> QED BY <2>1, <2>2, <2>3 DEF Running, RunAdd, TaskShape
<1>7. ASSUME NEW j \in Job, NEW d \in Decision,
             DecideOverwrite(j, d) \/ DecideSkip(j, d) \/ DecideRename(j, d)
      PROVE  RunKept
  BY <1>7 DEF DecideOverwrite, DecideSkip, DecideRename, Answer, Finish, managerVars,
              Running, RunKept, TaskShape
<1> QED
  BY <1>1, <1>2, <1>3, <1>4, <1>5, <1>6, <1>7, NextCases

\* running_per_plan counts the running jobs.
LEMMA RunningCountsStep ==
  ASSUME QueueShape, TaskShape, OwnedOnce, RunningCounts,
         runningPerPlan \in [Plan -> Nat], [Next]_vars
  PROVE  RunningCounts' /\ runningPerPlan' \in [Plan -> Nat]
<1>1. Counts(runningPerPlan, Running) /\ Running \in SUBSET Job
  BY CountsMeaning DEF Running
<1>2. SUFFICES Counts(runningPerPlan', Running')
  BY DEF RunningCounts, Counts, PlanPart, RunningIn
<1>3. CASE RunKept
  BY <1>1, <1>3 DEF RunKept
<1>4. ASSUME NEW j \in Job, RunAdd(j) PROVE Counts(runningPerPlan', Running')
  <2>1. j \in Job \ Running
    BY <1>4 DEF RunAdd
  <2>2. Counts([runningPerPlan EXCEPT ![PlanOf[j]] = @ + 1], Running \cup {j})
    BY <1>1, <2>1, CountAdd
  <2> QED BY <1>4, <2>2 DEF RunAdd
<1>5. ASSUME NEW j \in Job, RunRemove(j) PROVE Counts(runningPerPlan', Running')
  <2>1. Counts([runningPerPlan EXCEPT ![PlanOf[j]] = @ - 1], Running \ {j})
    BY <1>1, <1>5, CountRemove DEF RunRemove
  <2> QED BY <1>5, <2>1 DEF RunRemove
<1> QED BY <1>3, <1>4, <1>5, RunCases

\* cleanup_plan_if_idle forgets the root of p only when nothing of p is queued,
\* running or retryable.
LEMMA CleanupRoot ==
  ASSUME NEW p \in Plan, NEW root, root \in [Plan -> Job \cup {NoId}], NEW children,
         NEW sessions, NEW records, QueueShape', QueueCounts',
         CleanupPlanIfIdle(p, root, children, sessions, records)
  PROVE  \/ rootJob' = root /\ childrenStarted' = children
         \/ /\ rootJob' = [root EXCEPT ![p] = NoId] /\ childrenStarted' = children \ {p}
            /\ PendingIn(p)' = {}
<1>1. CASE PlanIdleNext(p)
  <2>1. Cardinality(PendingIn(p)') = 0
    BY <1>1 DEF PlanIdleNext, QueueCounts
  <2>2. IsFiniteSet(PendingIn(p)')
    BY ConstantFacts, FS_Subset DEF PendingIn, QueueShape, IsQueue
  <2>3. PendingIn(p)' = {}
    BY <2>1, <2>2, FS_EmptySet
  <2> QED BY <1>1, <2>3 DEF CleanupPlanIfIdle
<1>2. CASE ~PlanIdleNext(p)
  BY <1>2 DEF CleanupPlanIfIdle
<1> QED BY <1>1, <1>2

\* The root changes only at its plan's enqueue, or to none when nothing of the
\* plan is queued any more.
RootForgotten(p) ==
  rootJob' = [rootJob EXCEPT ![p] = NoId] /\ PendingIn(p)' = {}

\* Forgetting the root of a plan with nothing queued does not disturb pending_roots.
LEMMA RootsAfterCleanup ==
  ASSUME QueueShape, RootIsFirst, RootsQueued, NEW S \in SUBSET Job,
         DOMAIN pending' = DOMAIN pending \ S, pendingRoots' = pendingRoots \ S,
         (rootJob' = rootJob) \/ \E p \in Plan : RootForgotten(p)
  PROVE  RootsQueued'
<1> USE ConstantFacts
<1>1. CASE rootJob' = rootJob
  BY <1>1 DEF RootsQueued
<1>2. ASSUME NEW p \in Plan, RootForgotten(p) PROVE RootsQueued'
  <2>1. \A j \in DOMAIN pending' : PlanOf[j] # p
    BY <1>2 DEF RootForgotten, PendingIn
  <2>2. \A j \in DOMAIN pending' : rootJob'[PlanOf[j]] = rootJob[PlanOf[j]]
    BY <1>2, <2>1 DEF RootForgotten, QueueShape, IsQueue
  <2>3. pendingRoots' = {j \in DOMAIN pending' : rootJob[PlanOf[j]] = j}
    BY DEF RootsQueued
  <2> QED BY <2>2, <2>3 DEF RootsQueued
<1> QED BY <1>1, <1>2

\* cancel_plan takes every job of the plan out of the queue, the root with them.
LEMMA DropPlanRoots ==
  ASSUME QueueShape, RootIsFirst, RootsQueued, NEW p \in Plan, DropPlan(p),
         QueueShape', QueueCounts'
  PROVE  /\ RootsQueued'
         /\ (rootJob' = rootJob) \/ RootForgotten(p)
         /\ DOMAIN pending' = DOMAIN pending \ PendingIn(p)
<1> USE ConstantFacts
<1>1. DOMAIN pending' = DOMAIN pending \ PendingIn(p)
  BY WithoutQueue DEF DropPlan, QueueShape
<1>2. PendingIn(p)' = {}
  BY <1>1 DEF PendingIn
<1>3. (rootJob' = rootJob) \/ RootForgotten(p)
  <2>1. CASE PendingIn(p) # {} \/ RunningIn(p) # {}
    <3>1. CleanupPlanIfIdle(p, [rootJob EXCEPT ![p] = NoId], childrenStarted \ {p}, idle,
                            ForgetCancellationsForPlan(tombs, p))
      BY <2>1 DEF DropPlan
    <3>2. rootJob' \in {[rootJob EXCEPT ![p] = NoId],
                        [[rootJob EXCEPT ![p] = NoId] EXCEPT ![p] = NoId]}
      BY <3>1 DEF CleanupPlanIfIdle
    <3>3. rootJob' = [rootJob EXCEPT ![p] = NoId]
      BY <3>2 DEF QueueShape
    <3> QED BY <1>2, <3>3 DEF RootForgotten
  <2>2. CASE ~(PendingIn(p) # {} \/ RunningIn(p) # {})
    BY <2>2 DEF DropPlan
  <2> QED BY <2>1, <2>2
<1>4. pendingRoots' = pendingRoots \ PendingIn(p)
  <2>1. pendingRoots' = pendingRoots \ {rootJob[p]}
    BY DEF DropPlan
  <2>2. ASSUME NEW j \in pendingRoots PROVE j = rootJob[p] <=> j \in PendingIn(p)
    <3>1. j \in DOMAIN pending /\ j \in Job /\ rootJob[PlanOf[j]] = j
      BY <2>2 DEF RootsQueued, QueueShape, IsQueue
    <3>2. rootJob[p] \in {NoId, First[p]}
      BY DEF RootIsFirst
    <3> QED BY <3>1, <3>2 DEF PendingIn
  <2> QED BY <2>1, <2>2
<1>5. PendingIn(p) \in SUBSET Job
  BY DEF PendingIn, QueueShape, IsQueue
<1>6. RootsQueued'
  <2>1. (rootJob' = rootJob) \/ \E q \in Plan : RootForgotten(q)
    BY <1>3
  <2> QED BY <1>1, <1>4, <1>5, <2>1, RootsAfterCleanup
<1> QED BY <1>1, <1>3, <1>6

\* pending_roots is the set of queued roots.
LEMMA RootsQueuedStep ==
  ASSUME QueueShape, WorldShape, OwnedOnce, UntouchedBeforeEnqueue, RootIsFirst,
         RootsQueued, QueueCounts', QueueShape', [Next]_vars
  PROVE  RootsQueued'
<1> USE ConstantFacts
<1>1. CASE UNCHANGED <<pending, pendingRoots, rootJob>>
  BY <1>1 DEF RootsQueued
<1>2. CASE QueueQuiet
  BY <1>1, <1>2, QuietQueues DEF managerVars
<1>3. ASSUME NEW p \in Plan, EnqueueCancelledPlan(p) \/ ForgetPlan(p) PROVE RootsQueued'
  BY <1>1, <1>3 DEF EnqueueCancelledPlan, ForgetPlan
<1>4. ASSUME NEW p \in Plan, NEW c \in Conn, Enqueue(p, c) PROVE RootsQueued'
  <2> DEFINE S == JobsOf(p) \ (JobsOf(p) \cap DOMAIN tombs)
  <2>1. S \subseteq Job /\ First[p] \in S /\ \A j \in S : PlanOf[j] = p
    BY <1>4 DEF JobsOf, Enqueue
  <2>2. /\ PushPending(S, c) /\ pendingRoots' = pendingRoots \cup {First[p]}
        /\ rootJob' = [rootJob EXCEPT ![p] = IF @ = NoId THEN First[p] ELSE @]
    BY <1>4 DEF Enqueue
  <2> HIDE DEF S
  <2>3. DOMAIN pending' = DOMAIN pending \cup S
    BY <2>1, <2>2, PushQueue DEF QueueShape
  <2>4. rootJob' = [rootJob EXCEPT ![p] = First[p]]
    BY <1>4, <2>2 DEF Enqueue, UntouchedBeforeEnqueue, QueueShape
  <2>5. \A j \in DOMAIN pending : j \in Job /\ PlanOf[j] # p
    BY <1>4 DEF Enqueue, UntouchedBeforeEnqueue, QueueShape, IsQueue, JobsOf
  <2>6. \A j \in DOMAIN pending : rootJob'[PlanOf[j]] = rootJob[PlanOf[j]]
    BY <2>4, <2>5 DEF QueueShape
  <2>7. \A j \in S : rootJob'[PlanOf[j]] = j <=> j = First[p]
    BY <2>1, <2>4 DEF QueueShape
  <2> QED BY <2>1, <2>2, <2>3, <2>6, <2>7 DEF RootsQueued
<1>5. ASSUME NEW p \in Plan, CancelPlan(p) PROVE RootsQueued'
  BY <1>5, DropPlanRoots DEF CancelPlan
<1>6. ASSUME NEW id \in Id, CancelRoot(id) PROVE RootsQueued'
  BY <1>6, DropPlanRoots DEF CancelRoot
<1>7. ASSUME NEW id \in Id, NEW p \in Plan \cup {NoPlan}, CancelUnknown(id, p)
      PROVE  RootsQueued'
  BY <1>1, <1>7 DEF CancelUnknown
<1>8. ASSUME NEW j \in Job, CancelPending(j) PROVE RootsQueued'
  <2>1. DOMAIN pending' = DOMAIN pending \ {j}
    BY <1>8, WithoutQueue DEF CancelPending, QueueShape
  <2>2. CleanupPlanIfIdle(PlanOf[j], rootJob, childrenStarted, idle, tombs)
    BY <1>8 DEF CancelPending
  <2>3. (rootJob' = rootJob) \/ RootForgotten(PlanOf[j])
    BY <2>2, CleanupRoot DEF RootForgotten, QueueShape
  <2>4. pendingRoots' = pendingRoots \ {j}
    BY <1>8 DEF CancelPending
  <2>5. {j} \in SUBSET Job /\ ((rootJob' = rootJob) \/ \E q \in Plan : RootForgotten(q))
    BY <2>3
  <2> QED BY <2>1, <2>4, <2>5, RootsAfterCleanup
<1>9. ASSUME NEW j \in Job, Retry(j) PROVE RootsQueued'
  <2>1. PushPending({j}, epoch) /\ {j} \subseteq Job /\ epoch \in Conn /\ IsQueue(pending)
    BY <1>9 DEF Retry, QueueShape, WorldShape
  <2>2. DOMAIN pending' = DOMAIN pending \cup {j}
    BY <2>1, PushQueue
  <2>3. /\ rootJob' = rootJob
        /\ pendingRoots' = IF rootJob[PlanOf[j]] = j THEN pendingRoots \cup {j}
                                                    ELSE pendingRoots
    BY <1>9 DEF Retry
  <2> QED BY <2>2, <2>3 DEF RootsQueued
<1>10. ASSUME NEW j \in Job, HandleCompleted(j) PROVE RootsQueued'
  <2> DEFINE sessions == IF result[j] \in {"completed", "skippedClean"}
                         THEN [idle EXCEPT ![PlanOf[j]] = ReturnIdleSession(@, session[j])]
                         ELSE idle
  <2>1. CleanupPlanIfIdle(PlanOf[j], rootJob, childrenStarted, sessions, tombs)
    BY <1>10 DEF HandleCompleted
  <2> HIDE DEF sessions
  <2>2. (rootJob' = rootJob) \/ RootForgotten(PlanOf[j])
    BY <2>1, CleanupRoot DEF RootForgotten, QueueShape
  <2>3. DOMAIN pending' = DOMAIN pending \ {} /\ pendingRoots' = pendingRoots \ {}
    BY <1>10 DEF HandleCompleted
  <2>4. {} \in SUBSET Job /\ ((rootJob' = rootJob) \/ \E q \in Plan : RootForgotten(q))
    BY <2>2
  <2> QED BY <2>3, <2>4, RootsAfterCleanup
<1>11. ASSUME NEW j \in Job, StartNext(j) PROVE RootsQueued'
  <2>1. DOMAIN pending' = DOMAIN pending \ {j}
    BY <1>11, WithoutQueue DEF StartNext, QueueShape
  <2>2. pendingRoots' = pendingRoots \ {j} /\ rootJob' = rootJob
    BY <1>11 DEF StartNext
  <2> QED BY <2>1, <2>2 DEF RootsQueued
<1>12. ASSUME NEW j \in Job, RetryWithoutConnection(j) PROVE RootsQueued'
  BY <1>1, <1>12 DEF RetryWithoutConnection
<1>13. ASSUME NEW j \in Job, NEW d \in Decision,
              DecideOverwrite(j, d) \/ DecideSkip(j, d) \/ DecideRename(j, d)
       PROVE  RootsQueued'
  BY <1>1, <1>13 DEF DecideOverwrite, DecideSkip, DecideRename, managerVars
<1> QED
  BY <1>2, <1>3, <1>4, <1>5, <1>6, <1>7, <1>8, <1>9, <1>10, <1>11, <1>12, <1>13,
     NextCases

\* The ways in which an action changes the channel counters.
ChanKept ==
  channels' = channels /\ browse' = browse /\ \A c \in Conn : Holding(c)' = Holding(c)
ChanTake(j, c) ==
  /\ j \notin Holding(c) /\ Holding(c)' = Holding(c) \cup {j}
  /\ \A d \in Conn \ {c} : Holding(d)' = Holding(d)
  /\ channels' = [channels EXCEPT ![c] = @ + 1] /\ browse' = browse
ChanGive(j, c) ==
  /\ j \in Holding(c) /\ Holding(c)' = Holding(c) \ {j}
  /\ \A d \in Conn \ {c} : Holding(d)' = Holding(d)
  /\ channels' = [channels EXCEPT ![c] = @ - 1] /\ browse' = browse
ChanBrowse ==
  /\ \A c \in Conn : Holding(c)' = Holding(c)
  /\ \E c \in Conn : \/ /\ channels' = [channels EXCEPT ![c] = @ + 1]
                        /\ browse' = [browse EXCEPT ![c] = @ + 1]
                     \/ /\ channels' = [channels EXCEPT ![c] = @ - 1]
                        /\ browse' = [browse EXCEPT ![c] = @ - 1]
ChanStep ==
  \/ ChanKept \/ ChanBrowse
  \/ \E j \in Job, c \in Conn : ChanTake(j, c) \/ ChanGive(j, c)

\* A task that ends gives back the channel it took.
LEMMA FinishGives ==
  ASSUME TaskShape, NEW j \in Job, pc[j] \in {"open", "check", "ask", "xfer"},
         NEW r, Finish(j, r), browse' = browse, jobConn' = jobConn
  PROVE  ChanStep
<1>1. jobConn[j] \in Conn
  BY DEF TaskShape
<1>2. ChanGive(j, jobConn[j])
  BY DEF ChanGive, Finish, Holding, TaskShape
<1> QED BY <1>1, <1>2 DEF ChanStep

\* Every action changes the channel counters in one of these ways.
LEMMA ChannelCases ==
  ASSUME QueueShape, TaskShape, WorldShape, OwnedOnce, [Next]_vars
  PROVE  ChanStep
<1> USE ConstantFacts
<1>1. ASSUME UNCHANGED <<channels, browse, pc, jobConn>> PROVE ChanStep
  BY <1>1 DEF ChanStep, ChanKept, Holding
<1>2. ASSUME NEW p \in Plan, \/ EnqueueCancelledPlan(p) \/ ForgetPlan(p) \/ CancelPlan(p)
                             \/ \E c \in Conn : Enqueue(p, c)
      PROVE  ChanStep
  BY <1>1, <1>2 DEF EnqueueCancelledPlan, ForgetPlan, CancelPlan, Enqueue, taskVars, connVars
<1>3. ASSUME NEW id \in Id, \/ CancelRoot(id)
                            \/ \E p \in Plan \cup {NoPlan} : CancelUnknown(id, p)
      PROVE  ChanStep
  BY <1>1, <1>3 DEF CancelRoot, CancelUnknown, taskVars, connVars
<1>4. ASSUME NEW j \in Job, \/ CancelPending(j) \/ Retry(j) \/ RetryWithoutConnection(j)
                            \/ CancelRunning(j) \/ \E d \in Decision : ResolveConflict(j, d)
      PROVE  ChanStep
  BY <1>1, <1>4 DEF CancelPending, Retry, RetryWithoutConnection, CancelRunning,
                    ResolveConflict, taskVars, connVars
<1>5. ASSUME Stop \/ StartDone \/ ConnectionLost \/ Reconnect \/ UNCHANGED vars
      PROVE  ChanStep
  BY <1>1, <1>5 DEF Stop, StartDone, ConnectionLost, Reconnect, vars, taskVars, connVars
<1>6. ASSUME BrowseOpen \/ \E c \in Conn : BrowseClose(c) PROVE ChanStep
  <2>1. \A c \in Conn : Holding(c)' = Holding(c)
    BY <1>6 DEF BrowseOpen, BrowseClose, taskVars, Holding
  <2>2. \E c \in Conn : \/ /\ channels' = [channels EXCEPT ![c] = @ + 1]
                           /\ browse' = [browse EXCEPT ![c] = @ + 1]
                        \/ /\ channels' = [channels EXCEPT ![c] = @ - 1]
                           /\ browse' = [browse EXCEPT ![c] = @ - 1]
    BY <1>6 DEF BrowseOpen, BrowseClose, WorldShape
  <2> QED BY <2>1, <2>2 DEF ChanStep, ChanBrowse
<1>7. ASSUME NEW j \in Job, HandleCompleted(j) PROVE ChanStep
  <2>1. \A c \in Conn : Holding(c)' = Holding(c)
    BY <1>7 DEF HandleCompleted, Holding, TaskShape
  <2> QED BY <1>7, <2>1 DEF HandleCompleted, connVars, ChanStep, ChanKept
<1>8. ASSUME NEW j \in Job, StartNext(j) PROVE ChanStep
  <2>1. pending[j].conn \in Conn /\ pc[j] = "idle"
    BY <1>8, StartedWasQueued DEF QueueShape, IsQueue, OwnedOnce, Running
  <2>2. PICK c \in Conn : c = pending[j].conn
    BY <2>1
  <2>3. /\ pc' \in {[pc EXCEPT ![j] = "open"], [pc EXCEPT ![j] = "check"]}
        /\ jobConn' = [jobConn EXCEPT ![j] = c]
        /\ channels' = [channels EXCEPT ![c] = @ + 1] /\ browse' = browse
    BY <1>8, <2>2 DEF StartNext, connVars
  <2>4. ChanTake(j, c)
    BY <2>1, <2>3 DEF ChanTake, Holding, TaskShape
  <2> QED BY <2>4 DEF ChanStep
<1>9. ASSUME NEW j \in Job, OpenSession(j) \/ CheckPasses(j) \/ AskUser(j) PROVE ChanStep
  <2>1. \A c \in Conn : Holding(c)' = Holding(c)
    BY <1>9 DEF OpenSession, CheckPasses, AskUser, Holding, TaskShape
  <2> QED BY <1>9, <2>1 DEF OpenSession, CheckPasses, AskUser, connVars, ChanStep, ChanKept
<1>10. ASSUME NEW j \in Job, OpenFails(j) \/ CheckEnds(j) \/ TransferEnds(j) PROVE ChanStep
  <2>1. /\ \E r : Finish(j, r)
        /\ pc[j] \in {"open", "check", "ask", "xfer"} /\ UNCHANGED <<browse, jobConn>>
    BY <1>10 DEF OpenFails, CheckEnds, TransferEnds, connVars
  <2> QED BY <2>1, FinishGives
<1>11. ASSUME NEW j \in Job, NEW d \in Decision, DecideOverwrite(j, d) PROVE ChanStep
  <2>1. \A c \in Conn : Holding(c)' = Holding(c)
    BY <1>11 DEF DecideOverwrite, Answer, Holding, TaskShape
  <2> QED BY <1>11, <2>1 DEF DecideOverwrite, connVars, ChanStep, ChanKept
<1>12. ASSUME NEW j \in Job, NEW d \in Decision, DecideSkip(j, d) PROVE ChanStep
  BY <1>12, FinishGives DEF DecideSkip, Answer, connVars
<1>13. ASSUME NEW j \in Job, NEW d \in Decision, DecideRename(j, d) PROVE ChanStep
  <2>1. pc[j] = "ask" /\ UNCHANGED <<browse, jobConn>>
    BY <1>13 DEF DecideRename, Answer, connVars
  <2>2. CASE \E r : Finish(j, r)
    BY <2>1, <2>2, FinishGives
  <2>3. CASE pc' = [pc EXCEPT ![j] = "xfer"] /\ channels' = channels
    <3>1. \A c \in Conn : Holding(c)' = Holding(c)
      BY <2>1, <2>3 DEF Holding, TaskShape
    <3> QED BY <2>1, <2>3, <3>1 DEF ChanStep, ChanKept
  <2> QED BY <1>13, <2>2, <2>3 DEF DecideRename
<1>14. CASE QueueQuiet
  BY <1>4, <1>5, <1>6, <1>9, <1>10, <1>14 DEF QueueQuiet
<1> QED
  BY <1>2, <1>3, <1>4, <1>7, <1>8, <1>11, <1>12, <1>13, <1>14, NextCases

\* active_channels counts the tasks and browsing sessions that hold a channel.
LEMMA ChannelCountsStep ==
  ASSUME QueueShape, TaskShape, WorldShape, OwnedOnce, ChannelCounts,
         channels \in [Conn -> Nat], WorldShape', [Next]_vars
  PROVE  ChannelCounts' /\ channels' \in [Conn -> Nat]
<1>1. \A c \in Conn : IsFiniteSet(Holding(c)) /\ Cardinality(Holding(c)) \in Nat
  BY ConstantFacts, FS_Subset, FS_CardinalityType DEF Holding
<1>2. browse \in [Conn -> Nat] /\ browse' \in [Conn -> Nat]
  BY DEF WorldShape
<1>3. CASE ChanKept
  BY <1>3 DEF ChanKept, ChannelCounts
<1>4. CASE ChanBrowse
  BY <1>1, <1>2, <1>4 DEF ChanBrowse, ChannelCounts
<1>5. ASSUME NEW j \in Job, NEW c \in Conn, ChanTake(j, c)
      PROVE  ChannelCounts' /\ channels' \in [Conn -> Nat]
  <2>1. Cardinality(Holding(c)') = Cardinality(Holding(c)) + 1
    BY <1>1, <1>5, FS_AddElement DEF ChanTake
  <2> QED BY <1>1, <1>2, <1>5, <2>1 DEF ChanTake, ChannelCounts
<1>6. ASSUME NEW j \in Job, NEW c \in Conn, ChanGive(j, c)
      PROVE  ChannelCounts' /\ channels' \in [Conn -> Nat]
  <2>1. Cardinality(Holding(c)') = Cardinality(Holding(c)) - 1
    BY <1>1, <1>6, FS_RemoveElement DEF ChanGive
  <2>2. Cardinality(Holding(c)') \in Nat
    BY <1>1, <1>6, FS_Subset, FS_CardinalityType DEF ChanGive
  <2>3. channels'[c] = browse'[c] + Cardinality(Holding(c)')
    BY <1>1, <1>2, <1>6, <2>1 DEF ChanGive, ChannelCounts
  <2>4. \A d \in Conn \ {c} : /\ channels'[d] = browse'[d] + Cardinality(Holding(d)')
                              /\ channels'[d] \in Nat
    BY <1>6 DEF ChanGive, ChannelCounts
  <2>5. channels'[c] \in Nat
    BY <1>2, <2>2, <2>3
  <2>6. channels' \in [Conn -> Nat]
    BY <1>6, <2>4, <2>5 DEF ChanGive
  <2> QED BY <2>3, <2>4, <2>6 DEF ChannelCounts
<1> QED BY <1>3, <1>4, <1>5, <1>6, ChannelCases DEF ChanStep

----------------------------------------------------------------------------
(* Who owns a job.                                                         *)

\* cleanup_plan_if_idle only takes cancellation records out.
LEMMA CleanupTombs ==
  ASSUME NEW p, NEW root, NEW children, NEW sessions, NEW records, IsRecord(records),
         CleanupPlanIfIdle(p, root, children, sessions, records)
  PROVE  DOMAIN tombs' \subseteq DOMAIN records
<1>1. DOMAIN ForgetCancellationsForPlan(records, p) \subseteq DOMAIN records
  BY ForgetRecord
<1> QED BY <1>1 DEF CleanupPlanIfIdle

\* cancel_plan adds to none of the manager's maps.
LEMMA DropPlanDomains ==
  ASSUME QueueShape, NEW p \in Plan, DropPlan(p)
  PROVE  /\ DOMAIN pending' \subseteq DOMAIN pending /\ routes' = routes
         /\ DOMAIN tombs' \subseteq DOMAIN tombs
<1>1. DOMAIN pending' = DOMAIN pending \ PendingIn(p) /\ routes' = routes
  BY WithoutQueue DEF DropPlan, QueueShape
<1> DEFINE records == ForgetCancellationsForPlan(tombs, p)
<1>2. IsRecord(records) /\ DOMAIN records \subseteq DOMAIN tombs
  BY ForgetRecord DEF QueueShape
<1>3. CASE PendingIn(p) # {} \/ RunningIn(p) # {}
  <2>1. CleanupPlanIfIdle(p, [rootJob EXCEPT ![p] = NoId],
                          childrenStarted \ {p}, idle, records)
    BY <1>3 DEF DropPlan
  <2> HIDE DEF records
  <2>2. DOMAIN tombs' \subseteq DOMAIN records
    BY <1>2, <2>1, CleanupTombs
  <2> QED BY <1>1, <1>2, <2>2
<1>4. CASE ~(PendingIn(p) # {} \/ RunningIn(p) # {})
  BY <1>1, <1>2, <1>4 DEF DropPlan
<1> QED BY <1>3, <1>4

\* A job stays in one place.
LEMMA OwnedOnceStep ==
  ASSUME QueueShape, TaskShape, WorldShape, OwnedOnce, UntouchedBeforeEnqueue,
         StartedCovers, [Next]_vars
  PROVE  OwnedOnce'
<1> USE ConstantFacts
<1>1. ASSUME Running' = Running, DOMAIN pending' \subseteq DOMAIN pending,
             DOMAIN routes' \subseteq DOMAIN routes, DOMAIN tombs' \subseteq DOMAIN tombs
      PROVE  OwnedOnce'
  BY <1>1 DEF OwnedOnce
<1>2. CASE QueueQuiet
  BY <1>1, <1>2, QuietQueues, QuietRunning DEF managerVars
<1>3. ASSUME NEW p \in Plan, EnqueueCancelledPlan(p) \/ ForgetPlan(p) PROVE OwnedOnce'
  <2>1. DOMAIN tombs' \subseteq DOMAIN tombs
    BY <1>3, ForgetRecord DEF EnqueueCancelledPlan, ForgetPlan, QueueShape
  <2> QED BY <1>1, <1>3, <2>1 DEF EnqueueCancelledPlan, ForgetPlan, taskVars, Running
<1>4. ASSUME NEW p \in Plan, NEW c \in Conn, Enqueue(p, c) PROVE OwnedOnce'
  <2> DEFINE D == JobsOf(p) \cap DOMAIN tombs
             S == JobsOf(p) \ D
  <2>1. S \subseteq Job /\ S \cap DOMAIN tombs = {}
    BY DEF JobsOf
  <2>2. S \cap (DOMAIN routes \cup Running) = {}
    BY <1>4 DEF Enqueue, UntouchedBeforeEnqueue, StartedCovers
  <2>3. /\ PushPending(S, c) /\ routes' = routes /\ Running' = Running
        /\ tombs' = ForgetCancellationsForPlan(Without(tombs, D), p)
    BY <1>4 DEF Enqueue, taskVars, Running
  <2> HIDE DEF D, S
  <2>4. DOMAIN pending' = DOMAIN pending \cup S
    BY <2>1, <2>3, PushQueue DEF QueueShape
  <2>5. IsRecord(Without(tombs, D)) /\ DOMAIN Without(tombs, D) = DOMAIN tombs \ D
    BY WithoutRecord DEF QueueShape
  <2>6. DOMAIN tombs' \subseteq DOMAIN tombs
    <3>1. DOMAIN ForgetCancellationsForPlan(Without(tombs, D), p)
            \subseteq DOMAIN Without(tombs, D)
      BY <2>5, ForgetRecord
    <3> QED BY <2>3, <2>5, <3>1
  <2> QED BY <2>1, <2>2, <2>3, <2>4, <2>6 DEF OwnedOnce
<1>5. ASSUME NEW p \in Plan, CancelPlan(p) PROVE OwnedOnce'
  <2>1. Running' = Running
    BY <1>5 DEF CancelPlan, taskVars, Running
  <2> QED BY <1>1, <1>5, <2>1, DropPlanDomains DEF CancelPlan
<1>6. ASSUME NEW id \in Id, CancelRoot(id) PROVE OwnedOnce'
  <2>1. Running' = Running
    BY <1>6 DEF CancelRoot, taskVars, Running
  <2> QED BY <1>1, <1>6, <2>1, DropPlanDomains DEF CancelRoot
<1>7. ASSUME NEW id \in Id, NEW p \in Plan \cup {NoPlan}, CancelUnknown(id, p)
      PROVE  OwnedOnce'
  <2>1. DOMAIN tombs' \subseteq DOMAIN tombs \cup {id}
    BY <1>7, RecordRecord DEF CancelUnknown, QueueShape
  <2>2. Running' = Running /\ UNCHANGED <<pending, routes>>
    BY <1>7 DEF CancelUnknown, taskVars, Running
  <2>3. id \notin DOMAIN pending \cup Running
    BY <1>7 DEF CancelUnknown, IsUnknown
  <2> QED BY <2>1, <2>2, <2>3 DEF OwnedOnce
<1>8. ASSUME NEW j \in Job, CancelPending(j) PROVE OwnedOnce'
  <2>1. DOMAIN pending' = DOMAIN pending \ {j}
    BY <1>8, WithoutQueue DEF CancelPending, QueueShape
  <2>2. DOMAIN tombs' \subseteq DOMAIN tombs
    BY <1>8, CleanupTombs DEF CancelPending, QueueShape
  <2> QED BY <1>1, <1>8, <2>1, <2>2 DEF CancelPending, taskVars, Running
<1>9. ASSUME NEW j \in Job, Retry(j) PROVE OwnedOnce'
  <2>1. PushPending({j}, epoch) /\ {j} \subseteq Job /\ epoch \in Conn /\ IsQueue(pending)
    BY <1>9 DEF Retry, QueueShape, WorldShape
  <2>2. DOMAIN pending' = DOMAIN pending \cup {j}
    BY <2>1, PushQueue
  <2>3. DOMAIN tombs' \subseteq DOMAIN tombs \ {j}
    <3>1. tombs' = ForgetCancellationsForPlan(Without(tombs, {j}), PlanOf[j])
      BY <1>9 DEF Retry
    <3>2. IsRecord(Without(tombs, {j})) /\ DOMAIN Without(tombs, {j}) = DOMAIN tombs \ {j}
      BY WithoutRecord DEF QueueShape
    <3>3. DOMAIN ForgetCancellationsForPlan(Without(tombs, {j}), PlanOf[j])
            \subseteq DOMAIN Without(tombs, {j})
      BY <3>2, ForgetRecord
    <3> QED BY <3>1, <3>2, <3>3
  <2>4. DOMAIN routes' = DOMAIN routes \ {j} /\ j \in DOMAIN routes /\ Running' = Running
    BY <1>9 DEF Retry, taskVars, Running
  <2> QED BY <2>2, <2>3, <2>4 DEF OwnedOnce
<1>10. ASSUME NEW j \in Job, HandleCompleted(j) PROVE OwnedOnce'
  <2>1. DOMAIN routes' \subseteq DOMAIN routes \cup {j} /\ pending' = pending
    BY <1>10 DEF HandleCompleted
  <2>2. j \in Running /\ Running' = Running \ {j}
    BY <1>10 DEF HandleCompleted, Running, TaskShape
  <2>3. DOMAIN tombs' \subseteq DOMAIN tombs
    BY <1>10, CleanupTombs DEF HandleCompleted, QueueShape
  <2> QED BY <2>1, <2>2, <2>3 DEF OwnedOnce
<1>11. ASSUME NEW j \in Job, StartNext(j) PROVE OwnedOnce'
  <2>1. j \in DOMAIN pending /\ DOMAIN pending' = DOMAIN pending \ {j}
    BY <1>11, WithoutQueue, StartedWasQueued DEF StartNext, QueueShape
  <2>2. Running' \subseteq Running \cup {j}
    <3>1. pc' \in {[pc EXCEPT ![j] = "open"], [pc EXCEPT ![j] = "check"]}
      BY <1>11 DEF StartNext
    <3> QED BY <3>1 DEF Running, TaskShape
  <2>3. UNCHANGED <<routes, tombs>>
    BY <1>11 DEF StartNext
  <2> QED BY <2>1, <2>2, <2>3 DEF OwnedOnce
<1>12. ASSUME NEW j \in Job, RetryWithoutConnection(j) PROVE OwnedOnce'
  <2>1. DOMAIN tombs' = DOMAIN tombs \ {j}
    BY <1>12, WithoutRecord DEF RetryWithoutConnection, QueueShape
  <2> QED BY <1>1, <1>12, <2>1 DEF RetryWithoutConnection, taskVars, Running
<1>13. ASSUME NEW j \in Job, NEW d \in Decision,
              DecideOverwrite(j, d) \/ DecideSkip(j, d) \/ DecideRename(j, d)
       PROVE  OwnedOnce'
  <2>1. Running' = Running
    BY <1>13 DEF DecideOverwrite, DecideSkip, DecideRename, Answer, Finish, Running, TaskShape
  <2>2. UNCHANGED managerVars
    BY <1>13 DEF DecideOverwrite, DecideSkip, DecideRename
  <2> QED BY <1>1, <2>1, <2>2 DEF managerVars
<1> QED
  BY <1>2, <1>3, <1>4, <1>5, <1>6, <1>7, <1>8, <1>9, <1>10, <1>11, <1>12, <1>13,
     NextCases

\* The jobs started so far only grow, by the job start_queued starts.
LEMMA StartedCases ==
  ASSUME QueueShape, [Next]_vars
  PROVE  started' = started \/ \E j \in Job : StartNext(j) /\ started' = started \cup {j}
<1>1. CASE QueueQuiet
  BY <1>1 DEF QueueQuiet, CancelRunning, OpenSession, OpenFails, CheckPasses, CheckEnds,
         AskUser, TransferEnds, ResolveConflict, Stop, StartDone, ConnectionLost,
         Reconnect, BrowseOpen, BrowseClose, vars
<1>2. ASSUME NEW p \in Plan, \/ EnqueueCancelledPlan(p) \/ ForgetPlan(p) \/ CancelPlan(p)
                             \/ \E c \in Conn : Enqueue(p, c)
      PROVE  started' = started
  BY <1>2 DEF EnqueueCancelledPlan, ForgetPlan, CancelPlan, Enqueue
<1>3. ASSUME NEW id \in Id, \/ CancelRoot(id)
                            \/ \E p \in Plan \cup {NoPlan} : CancelUnknown(id, p)
      PROVE  started' = started
  BY <1>3 DEF CancelRoot, CancelUnknown
<1>4. ASSUME NEW j \in Job, \/ CancelPending(j) \/ Retry(j) \/ RetryWithoutConnection(j)
                            \/ HandleCompleted(j)
      PROVE  started' = started
  BY <1>4 DEF CancelPending, Retry, RetryWithoutConnection, HandleCompleted
<1>5. ASSUME NEW j \in Job, NEW d \in Decision,
             DecideOverwrite(j, d) \/ DecideSkip(j, d) \/ DecideRename(j, d)
      PROVE  started' = started
  BY <1>5 DEF DecideOverwrite, DecideSkip, DecideRename
<1>6. ASSUME NEW j \in Job, StartNext(j) PROVE started' = started \cup {j}
  BY <1>6 DEF StartNext
<1> QED BY <1>1, <1>2, <1>3, <1>4, <1>5, <1>6, NextCases

\* The phases of the plans only change in Enqueue, EnqueueCancelledPlan and ForgetPlan.
LEMMA PhaseCases ==
  ASSUME QueueShape, WorldShape, [Next]_vars
  PROVE  \/ phase' = phase
         \/ \E p \in Plan : \/ (\E c \in Conn : Enqueue(p, c)) \/ EnqueueCancelledPlan(p)
                            \/ ForgetPlan(p)
<1>1. CASE QueueQuiet
  BY <1>1 DEF QueueQuiet, CancelRunning, OpenSession, OpenFails, CheckPasses, CheckEnds,
         AskUser, TransferEnds, ResolveConflict, Stop, StartDone, ConnectionLost,
         Reconnect, BrowseOpen, BrowseClose, vars
<1>2. ASSUME NEW p \in Plan, CancelPlan(p) PROVE phase' = phase
  BY <1>2 DEF CancelPlan
<1>3. ASSUME NEW id \in Id, \/ CancelRoot(id)
                            \/ \E p \in Plan \cup {NoPlan} : CancelUnknown(id, p)
      PROVE  phase' = phase
  BY <1>3 DEF CancelRoot, CancelUnknown
<1>4. ASSUME NEW j \in Job, \/ CancelPending(j) \/ Retry(j) \/ RetryWithoutConnection(j)
                            \/ HandleCompleted(j) \/ StartNext(j)
      PROVE  phase' = phase
  BY <1>4 DEF CancelPending, Retry, RetryWithoutConnection, HandleCompleted, StartNext
<1>5. ASSUME NEW j \in Job, NEW d \in Decision,
             DecideOverwrite(j, d) \/ DecideSkip(j, d) \/ DecideRename(j, d)
      PROVE  phase' = phase
  BY <1>5 DEF DecideOverwrite, DecideSkip, DecideRename
<1> QED BY <1>1, <1>2, <1>3, <1>4, <1>5, NextCases

\* The permission to clear the destination is only given by StartNext, and only
\* taken back by HandleCompleted.
LEMMA MayClearCases ==
  ASSUME QueueShape, [Next]_vars
  PROVE  mayClear' = mayClear \/ \E j \in Job : HandleCompleted(j) \/ StartNext(j)
<1>1. ASSUME NEW j \in Job, NEW d \in Decision,
             \/ ResolveConflict(j, d) \/ DecideOverwrite(j, d)
             \/ DecideSkip(j, d) \/ DecideRename(j, d)
      PROVE  mayClear' = mayClear
  BY <1>1 DEF ResolveConflict, DecideOverwrite, DecideSkip, DecideRename, taskVars
<1>2. ASSUME NEW j \in Job, \/ OpenSession(j) \/ OpenFails(j) \/ CheckPasses(j)
                            \/ CheckEnds(j) \/ AskUser(j) \/ TransferEnds(j)
      PROVE  mayClear' = mayClear
  BY <1>2 DEF OpenSession, OpenFails, CheckPasses, CheckEnds, AskUser, TransferEnds
<1>3. ASSUME UNCHANGED taskVars PROVE mayClear' = mayClear
  BY <1>3 DEF taskVars
<1> QED BY <1>1, <1>2, <1>3, TaskCases

\* What runs has been started, and the permission to clear lies with a running root.
LEMMA StartedCoversStep ==
  ASSUME QueueShape, TaskShape, OwnedOnce, StartedCovers, RootIsFirst, [Next]_vars
  PROVE  StartedCovers'
<1> USE ConstantFacts
<1>1. ASSUME NEW j \in Job, StartNext(j), RunAdd(j) PROVE StartedCovers'
  <2>1. started' = started \cup {j} /\ Running' = Running \cup {j}
    BY <1>1 DEF StartNext, RunAdd
  <2>2. mayClear' \subseteq mayClear \cup {j}
    BY <1>1 DEF StartNext
  <2>3. j \in mayClear' \ mayClear => j = First[PlanOf[j]]
    BY <1>1 DEF StartNext, MayClearDestination, RootIsFirst
  <2> QED BY <2>1, <2>2, <2>3 DEF StartedCovers
<1>2. ASSUME NEW j \in Job, HandleCompleted(j), RunRemove(j) PROVE StartedCovers'
  <2>1. UNCHANGED started /\ Running' = Running \ {j} /\ mayClear' = mayClear \ {j}
    BY <1>2 DEF HandleCompleted, RunRemove
  <2> QED BY <2>1 DEF StartedCovers
<1>3. ASSUME NEW j \in Job, HandleCompleted(j) \/ StartNext(j) PROVE StartedCovers'
  <2>1. RunKept \/ StartedCovers'
    BY <1>1, <1>2, RunCases
  <2>2. CASE RunKept
    <3>1. Running' # Running
      <4>1. CASE HandleCompleted(j)
        BY <4>1 DEF HandleCompleted, Running, TaskShape
      <4>2. CASE StartNext(j)
        <5>1. j \notin Running
          BY <4>2, StartedWasQueued DEF OwnedOnce
        <5>2. pc' \in {[pc EXCEPT ![j] = "open"], [pc EXCEPT ![j] = "check"]}
          BY <4>2 DEF StartNext
        <5> QED BY <5>1, <5>2 DEF Running, TaskShape
      <4> QED BY <1>3, <4>1, <4>2
    <3> QED BY <2>2, <3>1 DEF RunKept
  <2> QED BY <2>1, <2>2
<1>4. CASE RunKept /\ mayClear' = mayClear
  <2>1. Running' = Running /\ started \subseteq started'
    BY <1>4, StartedCases DEF RunKept
  <2> QED BY <1>4, <2>1 DEF StartedCovers
<1>5. CASE ~\E j \in Job : HandleCompleted(j) \/ StartNext(j)
  <2>1. RunKept
    BY <1>5, RunCases
  <2>2. mayClear' = mayClear
    BY <1>5, MayClearCases
  <2> QED BY <1>4, <2>1, <2>2
<1> QED BY <1>3, <1>5

----------------------------------------------------------------------------
(* The root of a plan.                                                     *)

\* The ways in which an action changes what is known of the roots.
RootKept == rootJob' = rootJob /\ childrenStarted \subseteq childrenStarted'
RootSet(p) == /\ phase[p] = "planning" /\ phase'[p] = "handed"
              /\ rootJob' = [rootJob EXCEPT ![p] = First[p]]
              /\ childrenStarted' = childrenStarted
RootLost(p) == /\ rootJob' = [rootJob EXCEPT ![p] = NoId]
               /\ childrenStarted' = childrenStarted \ {p}

\* cleanup_plan_if_idle forgets the root and the started mark together.
LEMMA CleanupLoses ==
  ASSUME NEW p \in Plan, NEW sessions, NEW records,
         CleanupPlanIfIdle(p, rootJob, childrenStarted, sessions, records)
  PROVE  RootKept \/ RootLost(p)
  BY DEF CleanupPlanIfIdle, RootKept, RootLost

\* cancel_plan forgets both as well, unless it found nothing to cancel.
LEMMA DropPlanLoses ==
  ASSUME QueueShape, NEW p \in Plan, DropPlan(p)
  PROVE  RootKept \/ RootLost(p)
<1>1. CASE PendingIn(p) # {} \/ RunningIn(p) # {}
  <2>1. CleanupPlanIfIdle(p, [rootJob EXCEPT ![p] = NoId], childrenStarted \ {p}, idle,
                          ForgetCancellationsForPlan(tombs, p))
    BY <1>1 DEF DropPlan
  <2>2. /\ rootJob' \in {[rootJob EXCEPT ![p] = NoId],
                         [[rootJob EXCEPT ![p] = NoId] EXCEPT ![p] = NoId]}
        /\ childrenStarted' \in {childrenStarted \ {p}, (childrenStarted \ {p}) \ {p}}
    BY <2>1 DEF CleanupPlanIfIdle
  <2> QED BY <2>2 DEF QueueShape, RootLost
<1>2. CASE ~(PendingIn(p) # {} \/ RunningIn(p) # {})
  BY <1>2 DEF DropPlan, RootKept
<1> QED BY <1>1, <1>2

\* Every action changes what is known of the roots in one of these ways.
LEMMA RootCases ==
  ASSUME QueueShape, WorldShape, UntouchedBeforeEnqueue, [Next]_vars
  PROVE  RootKept \/ \E p \in Plan : RootSet(p) \/ RootLost(p)
<1> USE ConstantFacts
<1>1. CASE QueueQuiet
  BY <1>1, QuietQueues DEF managerVars, RootKept
<1>2. ASSUME NEW p \in Plan, EnqueueCancelledPlan(p) \/ ForgetPlan(p) PROVE RootKept
  BY <1>2 DEF EnqueueCancelledPlan, ForgetPlan, RootKept
<1>3. ASSUME NEW p \in Plan, NEW c \in Conn, Enqueue(p, c) PROVE RootSet(p)
  <2>1. phase[p] = "planning" /\ phase'[p] = "handed"
    BY <1>3 DEF Enqueue, WorldShape
  <2>2. rootJob[p] = NoId
    BY <2>1 DEF UntouchedBeforeEnqueue
  <2>3. rootJob' = [rootJob EXCEPT ![p] = First[p]]
    BY <1>3, <2>2 DEF Enqueue
  <2>4. childrenStarted' = childrenStarted
    BY <1>3 DEF Enqueue
  <2> QED BY <2>1, <2>3, <2>4 DEF RootSet
<1>4. ASSUME NEW p \in Plan, CancelPlan(p) PROVE RootKept \/ RootLost(p)
  BY <1>4, DropPlanLoses DEF CancelPlan
<1>5. ASSUME NEW id \in Id, CancelRoot(id) PROVE RootKept \/ \E p \in Plan : RootLost(p)
  BY <1>5, DropPlanLoses DEF CancelRoot
<1>6. ASSUME NEW id \in Id, NEW p \in Plan \cup {NoPlan}, CancelUnknown(id, p)
      PROVE  RootKept
  BY <1>6 DEF CancelUnknown, RootKept
<1>7. ASSUME NEW j \in Job, CancelPending(j) \/ HandleCompleted(j)
      PROVE  RootKept \/ RootLost(PlanOf[j])
  BY <1>7, CleanupLoses DEF CancelPending, HandleCompleted
<1>8. ASSUME NEW j \in Job, Retry(j) \/ RetryWithoutConnection(j) \/ StartNext(j)
      PROVE  RootKept
  BY <1>8 DEF Retry, RetryWithoutConnection, StartNext, RootKept
<1>9. ASSUME NEW j \in Job, NEW d \in Decision,
             DecideOverwrite(j, d) \/ DecideSkip(j, d) \/ DecideRename(j, d)
      PROVE  RootKept
  BY <1>9 DEF DecideOverwrite, DecideSkip, DecideRename, managerVars, RootKept
<1> QED BY <1>1, <1>2, <1>3, <1>4, <1>5, <1>6, <1>7, <1>8, <1>9, NextCases

\* The root is the first job, and the first to start.
LEMMA RootIsFirstStep ==
  ASSUME QueueShape, WorldShape, UntouchedBeforeEnqueue, RootIsFirst, [Next]_vars
  PROVE  RootIsFirst'
<1> USE ConstantFacts
<1>1. ASSUME NEW j \in Job, StartNext(j) PROVE RootIsFirst'
  <2>1. /\ rootJob' = rootJob /\ started' = started \cup {j}
        /\ childrenStarted' = IF rootJob[PlanOf[j]] = j THEN childrenStarted
                              ELSE childrenStarted \cup {PlanOf[j]}
    BY <1>1 DEF StartNext
  <2>2. ASSUME NEW p \in Plan, rootJob[p] # NoId, p \notin childrenStarted'
        PROVE  started' \cap JobsOf(p) \subseteq {First[p]}
    <3>1. rootJob[p] = First[p] /\ started \cap JobsOf(p) \subseteq {First[p]}
      BY <2>1, <2>2 DEF RootIsFirst
    <3>2. j \in JobsOf(p) => j = First[p]
      BY <2>1, <2>2, <3>1 DEF JobsOf
    <3> QED BY <2>1, <3>1, <3>2
  <2> QED BY <2>1, <2>2 DEF RootIsFirst
<1>2. CASE started' = started
  <2>1. CASE RootKept
    BY <1>2, <2>1 DEF RootKept, RootIsFirst
  <2>2. ASSUME NEW p \in Plan, RootSet(p) PROVE RootIsFirst'
    <3>1. started \cap JobsOf(p) = {}
      BY <2>2 DEF RootSet, UntouchedBeforeEnqueue
    <3>2. ASSUME NEW q \in Plan
          PROVE  /\ rootJob'[q] \in {NoId, First[q]}
                 /\ rootJob'[q] # NoId /\ q \notin childrenStarted'
                      => started' \cap JobsOf(q) \subseteq {First[q]}
      BY <1>2, <2>2, <3>1 DEF RootSet, RootIsFirst, QueueShape
    <3> QED BY <3>2 DEF RootIsFirst
  <2>3. ASSUME NEW p \in Plan, RootLost(p) PROVE RootIsFirst'
    <3>1. ASSUME NEW q \in Plan
          PROVE  /\ rootJob'[q] \in {NoId, First[q]}
                 /\ rootJob'[q] # NoId /\ q \notin childrenStarted'
                      => started' \cap JobsOf(q) \subseteq {First[q]}
      BY <1>2, <2>3 DEF RootLost, RootIsFirst, QueueShape
    <3> QED BY <3>1 DEF RootIsFirst
  <2> QED BY <2>1, <2>2, <2>3, RootCases
<1> QED BY <1>1, <1>2, StartedCases

\* A job becomes retryable by running.
LEMMA RoutesCases ==
  ASSUME QueueShape, TaskShape, [Next]_vars
  PROVE  DOMAIN routes' \subseteq DOMAIN routes \cup Running
<1>1. CASE QueueQuiet
  BY <1>1, QuietQueues DEF managerVars
<1>2. ASSUME NEW p \in Plan, \/ EnqueueCancelledPlan(p) \/ ForgetPlan(p) \/ CancelPlan(p)
                             \/ \E c \in Conn : Enqueue(p, c)
      PROVE  routes' = routes
  BY <1>2 DEF EnqueueCancelledPlan, ForgetPlan, CancelPlan, DropPlan, Enqueue
<1>3. ASSUME NEW id \in Id, \/ CancelRoot(id)
                            \/ \E p \in Plan \cup {NoPlan} : CancelUnknown(id, p)
      PROVE  routes' = routes
  BY <1>3 DEF CancelRoot, DropPlan, CancelUnknown
<1>4. ASSUME NEW j \in Job, CancelPending(j) \/ RetryWithoutConnection(j) \/ StartNext(j)
      PROVE  routes' = routes
  BY <1>4 DEF CancelPending, RetryWithoutConnection, StartNext
<1>5. ASSUME NEW j \in Job, Retry(j) PROVE DOMAIN routes' \subseteq DOMAIN routes
  BY <1>5 DEF Retry
<1>6. ASSUME NEW j \in Job, HandleCompleted(j)
      PROVE  DOMAIN routes' \subseteq DOMAIN routes \cup Running
  BY <1>6 DEF HandleCompleted, Running
<1>7. ASSUME NEW j \in Job, NEW d \in Decision,
             DecideOverwrite(j, d) \/ DecideSkip(j, d) \/ DecideRename(j, d)
      PROVE  routes' = routes
  BY <1>7 DEF DecideOverwrite, DecideSkip, DecideRename, managerVars
<1> QED BY <1>1, <1>2, <1>3, <1>4, <1>5, <1>6, <1>7, NextCases

\* Nothing of a plan reaches the manager before its enqueue.
LEMMA UntouchedStep ==
  ASSUME QueueShape, TaskShape, WorldShape, OwnedOnce, UntouchedBeforeEnqueue,
         StartedCovers, [Next]_vars
  PROVE  UntouchedBeforeEnqueue'
<1> USE ConstantFacts
<1> SUFFICES ASSUME NEW p \in Plan, phase'[p] # "handed"
             PROVE  /\ JobsOf(p) \cap (DOMAIN pending' \cup DOMAIN routes' \cup started') = {}
                    /\ rootJob'[p] = NoId
  BY DEF UntouchedBeforeEnqueue
<1>1. phase[p] # "handed" /\ \A c \in Conn : ~Enqueue(p, c)
  <2>1. CASE phase' = phase
    BY <2>1 DEF Enqueue, WorldShape
  <2>2. ASSUME NEW q \in Plan, \/ (\E c \in Conn : Enqueue(q, c)) \/ EnqueueCancelledPlan(q)
                               \/ ForgetPlan(q)
        PROVE  phase[p] # "handed"
    BY <2>2 DEF Enqueue, EnqueueCancelledPlan, ForgetPlan, WorldShape
  <2>3. \A c \in Conn : ~Enqueue(p, c)
    BY DEF Enqueue, WorldShape
  <2> QED BY <2>1, <2>2, <2>3, PhaseCases
<1>2. JobsOf(p) \cap (DOMAIN pending \cup DOMAIN routes \cup started) = {} /\ rootJob[p] = NoId
  BY <1>1 DEF UntouchedBeforeEnqueue
<1>3. JobsOf(p) \cap started' = {}
  <2>1. ASSUME NEW j \in Job, StartNext(j) PROVE j \notin JobsOf(p)
    BY <1>2, <2>1, StartedWasQueued
  <2> QED BY <1>2, <2>1, StartedCases
<1>4. JobsOf(p) \cap DOMAIN routes' = {}
  BY <1>2, RoutesCases DEF StartedCovers
<1>5. JobsOf(p) \cap DOMAIN pending' = {}
  <2>1. CASE QueueKept
    BY <1>2, <2>1 DEF QueueKept
  <2>2. ASSUME NEW q \in Plan, QueueDrop(q) PROVE DOMAIN pending' \subseteq DOMAIN pending
    BY <2>2 DEF QueueDrop
  <2>3. ASSUME NEW q \in Plan, NEW S \in SUBSET Job, QueueBatch(q, S)
        PROVE  JobsOf(p) \cap DOMAIN pending' = {}
    <3>1. q # p /\ S \subseteq JobsOf(q) /\ DOMAIN pending' = DOMAIN pending \cup S
      BY <2>3 DEF QueueBatch
    <3>2. JobsOf(p) \cap JobsOf(q) = {}
      BY <3>1 DEF JobsOf
    <3> QED BY <1>2, <3>1, <3>2
  <2>4. ASSUME NEW j \in Job, QueueRemove(j) PROVE DOMAIN pending' \subseteq DOMAIN pending
    BY <2>4 DEF QueueRemove
  <2>5. ASSUME NEW j \in Job, QueueAdd(j) PROVE JobsOf(p) \cap DOMAIN pending' = {}
    BY <1>2, <2>5 DEF QueueAdd
  <2> QED BY <1>2, <2>1, <2>2, <2>3, <2>4, <2>5, QueueCases DEF QueueStep
<1>6. rootJob'[p] = NoId
  <2>1. ASSUME NEW q \in Plan, RootSet(q) PROVE rootJob'[p] = NoId
    BY <1>2, <2>1 DEF RootSet, QueueShape
  <2>2. ASSUME NEW q \in Plan, RootLost(q) PROVE rootJob'[p] = NoId
    BY <1>2, <2>2 DEF RootLost, QueueShape
  <2> QED BY <1>2, <2>1, <2>2, RootCases DEF RootKept
<1> QED BY <1>3, <1>4, <1>5, <1>6

\* No other job of a download plan runs beside its first job.
LEMMA RootRunsAloneStep ==
  ASSUME QueueShape, TaskShape, WorldShape, OwnedOnce, RunningCounts, CountersNatural,
         RootIsFirst, RootRunsAlone, [Next]_vars
  PROVE  RootRunsAlone'
<1> USE ConstantFacts
<1> SUFFICES ASSUME NEW p \in Download, First[p] \in Running'
             PROVE  RunningIn(p)' = {First[p]}
  BY DEF RootRunsAlone
<1>0. p \in Plan /\ First[p] \in Job /\ PlanOf[First[p]] = p
  BY IdAssumption
<1>1. CASE Running' \subseteq Running
  BY <1>0, <1>1 DEF RootRunsAlone, RunningIn
<1>2. ASSUME NEW j \in Job, StartNext(j), RunAdd(j) PROVE RunningIn(p)' = {First[p]}
  <2>1. Running' = Running \cup {j}
    BY <1>2 DEF RunAdd
  <2>2. CASE PlanOf[j] # p
    BY <1>0, <2>1, <2>2 DEF RootRunsAlone, RunningIn
  <2>3. CASE PlanOf[j] = p
    <3>1. \/ rootJob[p] \in {NoId, j} /\ runningPerPlan[p] = 0
          \/ rootJob[p] \notin {NoId, j} /\ rootJob[p] \notin Running
      BY <1>2, <2>3, StartedWasQueued DEF IsEligible
    <3>2. rootJob[p] \in {NoId, First[p]}
      BY <1>0 DEF RootIsFirst
    <3>3. CASE runningPerPlan[p] = 0
      <4>1. Counts(runningPerPlan, Running) /\ Running \in SUBSET Job
        BY CountsMeaning DEF CountersNatural, Running
      <4>2. RunningIn(p) = {}
        BY <1>0, <3>3, <4>1, CountZero DEF RunningIn, PlanPart
      <4> QED BY <1>0, <2>1, <2>3, <4>2 DEF RunningIn
    <3>4. CASE rootJob[p] \notin {NoId, j} /\ rootJob[p] \notin Running
      <4>1. rootJob[p] = First[p] /\ First[p] # j /\ First[p] \notin Running
        BY <3>2, <3>4
      <4> QED BY <2>1, <4>1
    <3> QED BY <3>1, <3>3, <3>4
  <2> QED BY <2>2, <2>3
<1> QED BY <1>1, <1>2, RunCases DEF RunKept, RunRemove

\* The permission to clear the destination is never held beside, or after, another
\* job of the plan.
LEMMA ClearsOnlyUntouchedStep ==
  ASSUME QueueShape, TaskShape, WorldShape, OwnedOnce, RootIsFirst, StartedCovers,
         StartedCovers', RootRunsAlone', ClearsOnlyUntouchedTree, [Next]_vars
  PROVE  ClearsOnlyUntouchedTree'
<1> USE ConstantFacts
<1> SUFFICES ASSUME NEW j \in mayClear', PlanOf[j] \in Download
             PROVE  started' \cap JobsOf(PlanOf[j]) = {j}
  BY DEF ClearsOnlyUntouchedTree
<1>1. j \in Running' /\ j = First[PlanOf[j]] /\ j \in Job /\ j \in started'
  BY DEF StartedCovers, Running
<1>2. RunningIn(PlanOf[j])' = {j}
  BY <1>1 DEF RootRunsAlone
<1>3. ASSUME NEW k \in Job, StartNext(k) PROVE started' \cap JobsOf(PlanOf[j]) = {j}
  <2>1. started' = started \cup {k} /\ mayClear' \subseteq mayClear \cup {k}
    BY <1>3 DEF StartNext
  <2>2. k \in Running'
    <3>1. pc' \in {[pc EXCEPT ![k] = "open"], [pc EXCEPT ![k] = "check"]}
      BY <1>3 DEF StartNext
    <3> QED BY <3>1 DEF Running, TaskShape
  <2>3. CASE j = k
    <3>1. j \notin mayClear
      BY <1>3, <2>3, StartedWasQueued DEF StartedCovers, OwnedOnce
    <3>2. MayClearDestination(j)
      BY <1>3, <2>3, <3>1 DEF StartNext
    <3>3. started \cap JobsOf(PlanOf[j]) \subseteq {j}
      BY <1>1, <3>2 DEF MayClearDestination, RootIsFirst
    <3> QED BY <1>1, <2>1, <2>3, <3>3 DEF JobsOf
  <2>4. CASE j # k
    <3>1. k \notin JobsOf(PlanOf[j])
      BY <1>2, <2>2, <2>4 DEF RunningIn, JobsOf
    <3>2. started \cap JobsOf(PlanOf[j]) = {j}
      BY <2>1, <2>4 DEF ClearsOnlyUntouchedTree
    <3> QED BY <2>1, <3>1, <3>2
  <2> QED BY <2>3, <2>4
<1>4. CASE started' = started /\ ~\E k \in Job : StartNext(k)
  <2>1. ASSUME NEW k \in Job, HandleCompleted(k) PROVE mayClear' \subseteq mayClear
    BY <2>1 DEF HandleCompleted
  <2>2. mayClear' \subseteq mayClear
    BY <1>4, <2>1, MayClearCases
  <2> QED BY <1>4, <2>2 DEF ClearsOnlyUntouchedTree
<1> QED BY <1>3, <1>4, StartedCases

----------------------------------------------------------------------------
(* Prompts.                                                                *)

\* Every prompt has its waiter or its answer, and no other job has one.
LEMMA WaitersStep ==
  ASSUME QueueShape, TaskShape, OwnedOnce, WaitersMatchPrompts, [Next]_vars
  PROVE  WaitersMatchPrompts'
<1> USE ConstantFacts
<1>1. ASSUME UNCHANGED <<waiting, decision, pc>> PROVE WaitersMatchPrompts'
  BY <1>1 DEF WaitersMatchPrompts
<1>2. ASSUME NEW j \in Job, NEW d \in Decision, ResolveConflict(j, d)
      PROVE  WaitersMatchPrompts'
  BY <1>2 DEF ResolveConflict, WaitersMatchPrompts, TaskShape, taskVars, Decision
<1>3. ASSUME NEW j \in Job, NEW d \in Decision,
             DecideOverwrite(j, d) \/ DecideSkip(j, d) \/ DecideRename(j, d)
      PROVE  WaitersMatchPrompts'
  <2>1. TakeDecision(j, d) /\ pc[j] = "ask"
    BY <1>3 DEF DecideOverwrite, DecideSkip, DecideRename, Answer
  <2>2. pc' \in {[pc EXCEPT ![j] = "xfer"], [pc EXCEPT ![j] = "done"]}
    BY <1>3 DEF DecideOverwrite, DecideSkip, DecideRename, Finish
  <2>3. Peers(j, d) \subseteq waiting \ {j}
    BY DEF Peers
  <2>4. ASSUME NEW k \in Job
        PROVE  /\ pc'[k] = "ask" <=> (k \in waiting' \/ decision'[k] # "none")
               /\ k \in waiting' => decision'[k] = "none"
    <3>1. CASE k = j
      BY <2>1, <2>2, <3>1 DEF TakeDecision, TaskShape
    <3>2. CASE k # j
      <4>1. pc'[k] = pc[k]
        BY <2>2, <3>2 DEF TaskShape
      <4>2. CASE k \in Peers(j, d)
        BY <2>1, <2>3, <3>2, <4>1, <4>2 DEF TakeDecision, WaitersMatchPrompts
      <4>3. CASE k \notin Peers(j, d)
        BY <2>1, <2>3, <3>2, <4>1, <4>3 DEF TakeDecision, WaitersMatchPrompts
      <4> QED BY <4>2, <4>3
    <3> QED BY <3>1, <3>2
  <2>5. waiting' \subseteq Job
    BY <2>1 DEF TakeDecision, TaskShape
  <2> QED BY <2>4, <2>5 DEF WaitersMatchPrompts
<1>4. ASSUME NEW j \in Job, HandleCompleted(j) PROVE WaitersMatchPrompts'
  BY <1>4 DEF HandleCompleted, WaitersMatchPrompts, TaskShape
<1>5. ASSUME NEW j \in Job, StartNext(j) PROVE WaitersMatchPrompts'
  <2>1. pc[j] = "idle"
    BY <1>5, StartedWasQueued DEF OwnedOnce, Running
  <2>2. pc' \in {[pc EXCEPT ![j] = "open"], [pc EXCEPT ![j] = "check"]}
        /\ UNCHANGED <<waiting, decision>>
    BY <1>5 DEF StartNext
  <2> QED BY <2>1, <2>2 DEF WaitersMatchPrompts, TaskShape
<1>6. ASSUME NEW j \in Job, AskUser(j) PROVE WaitersMatchPrompts'
  BY <1>6 DEF AskUser, WaitersMatchPrompts, TaskShape
<1>7. ASSUME NEW j \in Job, \/ OpenSession(j) \/ OpenFails(j) \/ CheckPasses(j)
                            \/ CheckEnds(j) \/ TransferEnds(j)
      PROVE  WaitersMatchPrompts'
  <2>1. pc[j] # "ask" /\ UNCHANGED <<waiting, decision>>
    BY <1>7 DEF OpenSession, OpenFails, CheckPasses, CheckEnds, TransferEnds
  <2>2. pc' \in {[pc EXCEPT ![j] = "check"], [pc EXCEPT ![j] = "xfer"], [pc EXCEPT ![j] = "done"]}
    BY <1>7 DEF OpenSession, OpenFails, CheckPasses, CheckEnds, TransferEnds, Finish
  <2> QED BY <2>1, <2>2 DEF WaitersMatchPrompts, TaskShape
<1> QED BY <1>1, <1>2, <1>3, <1>4, <1>5, <1>6, <1>7, TaskCases DEF taskVars

----------------------------------------------------------------------------
(* What is kept of a plan.                                                 *)

\* Nothing of a plan is queued, running or retryable.
Finished(p) ==
  PendingIn(p) = {} /\ RunningIn(p) = {} /\ \A r \in DOMAIN routes : PlanOf[r] # p

\* Nothing of a plan is remembered.
KeepsNothing(p) ==
  /\ rootJob[p] = NoId /\ p \notin childrenStarted
  /\ policies[p] = Unset /\ idle[p] = <<>>

\* What cleanup_plan_if_idle tests is that the plan is over.
LEMMA IdleMeansFinished ==
  ASSUME QueueShape', QueueCounts', RunningCounts', NEW p \in Plan
  PROVE  PlanIdleNext(p) <=> Finished(p)'
<1>1. IsFiniteSet(PendingIn(p)') /\ IsFiniteSet(RunningIn(p)')
  BY ConstantFacts, FS_Subset DEF PendingIn, RunningIn, Running, QueueShape, IsQueue
<1>2. pendingPerPlan'[p] = 0 <=> PendingIn(p)' = {}
  BY <1>1, FS_EmptySet DEF QueueCounts
<1>3. runningPerPlan'[p] = 0 <=> RunningIn(p)' = {}
  BY <1>1, FS_EmptySet DEF RunningCounts
<1> QED BY <1>2, <1>3 DEF PlanIdleNext, Finished

\* cleanup_plan_if_idle leaves nothing of a plan that is over, and other plans alone.
LEMMA CleanupLeavesNothing ==
  ASSUME QueueShape, NEW p \in Plan, NEW root \in [Plan -> Job \cup {NoId}],
         NEW children, NEW sessions \in [Plan -> Seq(Conn)], NEW records,
         CleanupPlanIfIdle(p, root, children, sessions, records)
  PROVE  PlanIdleNext(p) => /\ rootJob'[p] = NoId /\ p \notin childrenStarted'
                            /\ policies'[p] = Unset /\ idle'[p] = <<>>
  BY DEF CleanupPlanIfIdle, QueueShape

\* cleanup_plan_if_idle resets nothing of another plan.
LEMMA CleanupResets ==
  ASSUME NEW p, NEW root, NEW children, NEW sessions, NEW records,
         CleanupPlanIfIdle(p, root, children, sessions, records)
  PROVE  /\ rootJob' \in {root, [root EXCEPT ![p] = NoId]}
         /\ childrenStarted' \in {children, children \ {p}}
         /\ policies' \in {policies, [policies EXCEPT ![p] = Unset]}
         /\ idle' \in {sessions, [sessions EXCEPT ![p] = <<>>]}
  BY DEF CleanupPlanIfIdle

\* A plan that is over leaves nothing behind.
LEMMA IdlePlanStep ==
  ASSUME QueueShape, TaskShape, WorldShape, OwnedOnce, SessionHeld,
         IdlePlanKeepsNothing, QueueShape', QueueCounts', RunningCounts', [Next]_vars
  PROVE  IdlePlanKeepsNothing'
<1> USE ConstantFacts
<1>0. \A p \in Plan : Finished(p) => KeepsNothing(p)
  BY DEF IdlePlanKeepsNothing, Finished, KeepsNothing
<1> SUFFICES \A p \in Plan : Finished(p)' => KeepsNothing(p)'
  BY DEF IdlePlanKeepsNothing, Finished, KeepsNothing
<1> DEFINE Goal == \A p \in Plan : Finished(p)' => KeepsNothing(p)'
           SameWork(p) == Finished(p)' <=> Finished(p)
           SameState(p) == /\ rootJob'[p] = rootJob[p]
                           /\ p \in childrenStarted' <=> p \in childrenStarted
                           /\ policies'[p] = policies[p] /\ idle'[p] = idle[p]
<1>1. ASSUME NEW p \in Plan, Finished(p)' => Finished(p), SameState(p)
      PROVE  Finished(p)' => KeepsNothing(p)'
  BY <1>0, <1>1 DEF KeepsNothing
<1>2. CASE QueueQuiet
  <2>1. \A p \in Plan : SameState(p)
    BY <1>2, QuietQueues DEF managerVars
  <2>2. \A p \in Plan : Finished(p)' => Finished(p)
    BY <1>2, QuietQueues, QuietRunning DEF managerVars, Finished, PendingIn, RunningIn
  <2> QED BY <1>1, <2>1, <2>2
<1>3. ASSUME NEW p \in Plan, EnqueueCancelledPlan(p) \/ ForgetPlan(p) PROVE Goal
  <2>1. \A q \in Plan : SameState(q)
    BY <1>3 DEF EnqueueCancelledPlan, ForgetPlan
  <2>2. \A q \in Plan : Finished(q)' => Finished(q)
    BY <1>3 DEF EnqueueCancelledPlan, ForgetPlan, taskVars, Finished, PendingIn, RunningIn, Running
  <2> QED BY <1>1, <2>1, <2>2
<1>4. ASSUME NEW p \in Plan, NEW c \in Conn, Enqueue(p, c) PROVE Goal
  <2> DEFINE S == JobsOf(p) \ (JobsOf(p) \cap DOMAIN tombs)
  <2>1. First[p] \in S /\ S \subseteq Job /\ S \subseteq JobsOf(p)
    BY <1>4 DEF Enqueue, JobsOf
  <2>2. PushPending(S, c)
    BY <1>4 DEF Enqueue
  <2> HIDE DEF S
  <2>3. DOMAIN pending' = DOMAIN pending \cup S
    BY <2>1, <2>2, PushQueue DEF QueueShape
  <2>4. First[p] \in PendingIn(p)'
    BY <2>1, <2>3 DEF PendingIn
  <2>5. ASSUME NEW q \in Plan, q # p PROVE SameState(q)
    BY <1>4, <2>5 DEF Enqueue, AdoptPolicy, QueueShape
  <2>6. ASSUME NEW q \in Plan, q # p PROVE Finished(q)' => Finished(q)
    <3>1. PendingIn(q)' = PendingIn(q)
      BY <2>1, <2>3, <2>6 DEF PendingIn, JobsOf
    <3> QED BY <1>4, <3>1 DEF Enqueue, taskVars, Finished, RunningIn, Running
  <2> QED BY <1>1, <2>4, <2>5, <2>6 DEF Finished
<1>5. ASSUME NEW p \in Plan, DropPlan(p), UNCHANGED taskVars PROVE Goal
  <2> DEFINE records == ForgetCancellationsForPlan(tombs, p)
  <2>1. DOMAIN pending' = DOMAIN pending \ PendingIn(p) /\ routes' = routes
    BY <1>5, WithoutQueue DEF DropPlan, QueueShape
  <2>2. \A q \in Plan : RunningIn(q)' = RunningIn(q)
    BY <1>5 DEF taskVars, RunningIn, Running
  <2>3. ASSUME NEW q \in Plan, q # p PROVE Finished(q)' => Finished(q)
    BY <2>1, <2>2, <2>3 DEF Finished, PendingIn
  <2>4. CASE PendingIn(p) # {} \/ RunningIn(p) # {}
    <3>1. CleanupPlanIfIdle(p, [rootJob EXCEPT ![p] = NoId],
                            childrenStarted \ {p}, idle, records)
      BY <1>5, <2>4 DEF DropPlan
    <3>2. [rootJob EXCEPT ![p] = NoId] \in [Plan -> Job \cup {NoId}]
          /\ idle \in [Plan -> Seq(Conn)]
      BY DEF QueueShape
    <3> HIDE DEF records
    <3>3. PlanIdleNext(p) => /\ rootJob'[p] = NoId /\ p \notin childrenStarted'
                             /\ policies'[p] = Unset /\ idle'[p] = <<>>
      BY <3>1, <3>2, CleanupLeavesNothing
    <3>4. ASSUME NEW q \in Plan, q # p PROVE SameState(q)
      <4>1. /\ rootJob' \in {[rootJob EXCEPT ![p] = NoId],
                             [[rootJob EXCEPT ![p] = NoId] EXCEPT ![p] = NoId]}
            /\ childrenStarted' \in {childrenStarted \ {p}, (childrenStarted \ {p}) \ {p}}
            /\ policies' \in {policies, [policies EXCEPT ![p] = Unset]}
            /\ idle' \in {idle, [idle EXCEPT ![p] = <<>>]}
        BY <3>1, CleanupResets
      <4> QED BY <3>4, <4>1 DEF QueueShape
    <3>5. Finished(p)' => KeepsNothing(p)'
      BY <3>3, IdleMeansFinished DEF KeepsNothing
    <3> QED BY <1>1, <2>3, <3>4, <3>5
  <2>5. CASE ~(PendingIn(p) # {} \/ RunningIn(p) # {})
    <3>1. \A q \in Plan : SameState(q)
      BY <1>5, <2>5 DEF DropPlan
    <3>2. Finished(p)' => Finished(p)
      BY <2>1, <2>5 DEF Finished
    <3> QED BY <1>1, <2>3, <3>1, <3>2
  <2> QED BY <2>4, <2>5
<1>6. ASSUME NEW p \in Plan, CancelPlan(p) PROVE Goal
  BY <1>5, <1>6 DEF CancelPlan
<1>7. ASSUME NEW id \in Id, CancelRoot(id) PROVE Goal
  BY <1>5, <1>7 DEF CancelRoot
<1>8. ASSUME NEW id \in Id, NEW p \in Plan \cup {NoPlan}, CancelUnknown(id, p) PROVE Goal
  <2>1. \A q \in Plan : SameState(q)
    BY <1>8 DEF CancelUnknown
  <2>2. \A q \in Plan : Finished(q)' => Finished(q)
    BY <1>8 DEF CancelUnknown, taskVars, Finished, PendingIn, RunningIn, Running
  <2> QED BY <1>1, <2>1, <2>2
<1>9. ASSUME NEW j \in Job, CancelPending(j) PROVE Goal
  <2>1. DOMAIN pending' = DOMAIN pending \ {j} /\ routes' = routes
    BY <1>9, WithoutQueue DEF CancelPending, QueueShape
  <2>2. \A q \in Plan : RunningIn(q)' = RunningIn(q)
    BY <1>9 DEF CancelPending, taskVars, RunningIn, Running
  <2>3. \A q \in Plan \ {PlanOf[j]} : Finished(q)' => Finished(q)
    BY <2>1, <2>2 DEF Finished, PendingIn
  <2>4. /\ CleanupPlanIfIdle(PlanOf[j], rootJob, childrenStarted, idle, tombs)
        /\ rootJob \in [Plan -> Job \cup {NoId}] /\ idle \in [Plan -> Seq(Conn)]
        /\ PlanOf[j] \in Plan
    BY <1>9 DEF CancelPending, QueueShape
  <2>5. /\ Finished(PlanOf[j])' => KeepsNothing(PlanOf[j])'
        /\ \A q \in Plan \ {PlanOf[j]} : SameState(q)
    <3>1. PlanIdleNext(PlanOf[j]) =>
            /\ rootJob'[PlanOf[j]] = NoId /\ PlanOf[j] \notin childrenStarted'
            /\ policies'[PlanOf[j]] = Unset /\ idle'[PlanOf[j]] = <<>>
      BY <2>4, CleanupLeavesNothing
    <3>2. PlanIdleNext(PlanOf[j]) <=> Finished(PlanOf[j])'
      BY <2>4, IdleMeansFinished
    <3>3. ASSUME NEW q \in Plan, q # PlanOf[j] PROVE SameState(q)
      <4>1. /\ rootJob' \in {rootJob, [rootJob EXCEPT ![PlanOf[j]] = NoId]}
            /\ childrenStarted' \in {childrenStarted, childrenStarted \ {PlanOf[j]}}
            /\ policies' \in {policies, [policies EXCEPT ![PlanOf[j]] = Unset]}
            /\ idle' \in {idle, [idle EXCEPT ![PlanOf[j]] = <<>>]}
        BY <2>4, CleanupResets
      <4> QED BY <2>4, <3>3, <4>1 DEF QueueShape
    <3> QED BY <3>1, <3>2, <3>3 DEF KeepsNothing
  <2> QED BY <1>1, <2>3, <2>5
<1>10. ASSUME NEW j \in Job, Retry(j) PROVE Goal
  <2>1. PushPending({j}, epoch) /\ epoch \in Conn
    BY <1>10 DEF Retry, WorldShape
  <2>2. DOMAIN pending' = DOMAIN pending \cup {j}
    BY <2>1, PushQueue DEF QueueShape
  <2>3. j \in PendingIn(PlanOf[j])'
    BY <2>2 DEF PendingIn
  <2>4. ASSUME NEW q \in Plan, q # PlanOf[j] PROVE SameState(q)
    BY <1>10, <2>4 DEF Retry, AdoptPolicy, QueueShape
  <2>5. ASSUME NEW q \in Plan, q # PlanOf[j] PROVE Finished(q)' => Finished(q)
    <3>1. PendingIn(q)' = PendingIn(q)
      BY <2>2, <2>5 DEF PendingIn
    <3>2. RunningIn(q)' = RunningIn(q)
      BY <1>10 DEF Retry, taskVars, RunningIn, Running
    <3>3. DOMAIN routes \subseteq DOMAIN routes' \cup {j}
      BY <1>10 DEF Retry
    <3> QED BY <2>5, <3>1, <3>2, <3>3 DEF Finished
  <2> QED BY <1>1, <2>3, <2>4, <2>5 DEF Finished
<1>11. ASSUME NEW j \in Job, RetryWithoutConnection(j) PROVE Goal
  <2>1. \A q \in Plan : SameState(q)
    BY <1>11 DEF RetryWithoutConnection
  <2>2. \A q \in Plan : Finished(q)' => Finished(q)
    BY <1>11 DEF RetryWithoutConnection, taskVars, Finished, PendingIn, RunningIn, Running
  <2> QED BY <1>1, <2>1, <2>2
<1>12. ASSUME NEW j \in Job, HandleCompleted(j) PROVE Goal
  <2> DEFINE p == PlanOf[j]
             sessions == IF result[j] \in {"completed", "skippedClean"}
                         THEN [idle EXCEPT ![p] = ReturnIdleSession(@, session[j])]
                         ELSE idle
  <2>1. CleanupPlanIfIdle(p, rootJob, childrenStarted, sessions, tombs)
    BY <1>12 DEF HandleCompleted
  <2>2. p \in Plan /\ rootJob \in [Plan -> Job \cup {NoId}]
    BY DEF QueueShape
  <2>3. sessions \in [Plan -> Seq(Conn)]
    <3>1. CASE result[j] \in {"completed", "skippedClean"}
      <4>1. session[j] \in Conn
        BY <1>12, <3>1 DEF HandleCompleted, SessionHeld, TaskShape
      <4>2. idle[p] \in Seq(Conn)
        BY DEF QueueShape
      <4>3. ReturnIdleSession(idle[p], session[j]) \in Seq(Conn)
        BY <4>1, <4>2 DEF ReturnIdleSession
      <4> QED BY <3>1, <4>3 DEF QueueShape
    <3>2. CASE result[j] \notin {"completed", "skippedClean"}
      BY <3>2 DEF QueueShape
    <3> QED BY <3>1, <3>2
  <2>4. \A q \in Plan \ {p} : sessions[q] = idle[q]
    BY <2>2 DEF QueueShape
  <2>5. ASSUME NEW q \in Plan, q # p PROVE Finished(q)' => Finished(q)
    <3>1. PendingIn(q)' = PendingIn(q)
      BY <1>12 DEF HandleCompleted, PendingIn
    <3>2. RunningIn(q) \subseteq RunningIn(q)'
      BY <1>12, <2>5 DEF HandleCompleted, RunningIn, Running, TaskShape
    <3>3. DOMAIN routes \subseteq DOMAIN routes' \cup {j}
      BY <1>12 DEF HandleCompleted
    <3> QED BY <2>5, <3>1, <3>2, <3>3 DEF Finished
  <2> HIDE DEF p, sessions
  <2>6. PlanIdleNext(p) => /\ rootJob'[p] = NoId /\ p \notin childrenStarted'
                           /\ policies'[p] = Unset /\ idle'[p] = <<>>
    BY <2>1, <2>2, <2>3, CleanupLeavesNothing
  <2>7. ASSUME NEW q \in Plan, q # p PROVE SameState(q)
    <3>1. /\ rootJob' \in {rootJob, [rootJob EXCEPT ![p] = NoId]}
          /\ childrenStarted' \in {childrenStarted, childrenStarted \ {p}}
          /\ policies' \in {policies, [policies EXCEPT ![p] = Unset]}
          /\ idle' \in {sessions, [sessions EXCEPT ![p] = <<>>]}
      BY <2>1, CleanupResets
    <3> QED BY <2>2, <2>3, <2>4, <2>7, <3>1 DEF QueueShape
  <2>8. Finished(p)' => KeepsNothing(p)'
    BY <2>2, <2>6, IdleMeansFinished DEF KeepsNothing
  <2> QED BY <1>1, <2>5, <2>7, <2>8
<1>13. ASSUME NEW j \in Job, StartNext(j) PROVE Goal
  <2>1. RunAdd(j)
    <3>1. j \notin Running
      BY <1>13, StartedWasQueued DEF OwnedOnce
    <3>2. pc' \in {[pc EXCEPT ![j] = "open"], [pc EXCEPT ![j] = "check"]}
      BY <1>13 DEF StartNext
    <3>3. runningPerPlan' = [runningPerPlan EXCEPT ![PlanOf[j]] = @ + 1]
      BY <1>13 DEF StartNext
    <3> QED BY <3>1, <3>2, <3>3 DEF Running, RunAdd, TaskShape
  <2>2. j \in RunningIn(PlanOf[j])'
    BY <2>1 DEF RunAdd, RunningIn
  <2>3. ASSUME NEW q \in Plan, q # PlanOf[j] PROVE SameState(q)
    BY <1>13, <2>3 DEF StartNext, QueueShape
  <2>4. ASSUME NEW q \in Plan, q # PlanOf[j] PROVE Finished(q)' => Finished(q)
    <3>1. DOMAIN pending' = DOMAIN pending \ {j} /\ routes' = routes
      BY <1>13, WithoutQueue DEF StartNext, QueueShape
    <3>2. PendingIn(q)' = PendingIn(q)
      BY <2>4, <3>1 DEF PendingIn
    <3>3. RunningIn(q)' = RunningIn(q)
      BY <2>1, <2>4 DEF RunAdd, RunningIn
    <3> QED BY <3>1, <3>2, <3>3 DEF Finished
  <2> QED BY <1>1, <2>2, <2>3, <2>4 DEF Finished
<1>14. ASSUME NEW j \in Job, NEW d \in Decision,
              DecideOverwrite(j, d) \/ DecideSkip(j, d) \/ DecideRename(j, d)
       PROVE  Goal
  <2>1. pc[j] = "ask" /\ pc' \in {[pc EXCEPT ![j] = "xfer"], [pc EXCEPT ![j] = "done"]}
    BY <1>14 DEF DecideOverwrite, DecideSkip, DecideRename, Answer, Finish
  <2>2. Running' = Running /\ j \in Running
    BY <2>1 DEF Running, TaskShape
  <2>3. UNCHANGED managerVars
    BY <1>14 DEF DecideOverwrite, DecideSkip, DecideRename
  <2>4. \/ policies' = policies
        \/ \E new \in Policy : policies' = [policies EXCEPT ![PlanOf[j]] = new]
    BY <1>14 DEF DecideOverwrite, DecideSkip, DecideRename, Policy
  <2>5. ~Finished(PlanOf[j])'
    BY <2>2 DEF Finished, RunningIn
  <2>6. ASSUME NEW q \in Plan, q # PlanOf[j] PROVE SameState(q)
    BY <2>3, <2>4, <2>6 DEF managerVars, QueueShape
  <2>7. \A q \in Plan : Finished(q)' => Finished(q)
    BY <2>2, <2>3 DEF managerVars, Finished, PendingIn, RunningIn
  <2> QED BY <1>1, <2>5, <2>6, <2>7
<1> QED
  BY <1>2, <1>3, <1>4, <1>6, <1>7, <1>8, <1>9, <1>10, <1>11, <1>12, <1>13, <1>14,
     NextCases

----------------------------------------------------------------------------
(* Terminal events.                                                        *)

Active == {"open", "check", "ask", "xfer"}
Outcome(r) == IF r = "skippedClean" THEN "skipped" ELSE r

\* No step rewrites an outcome, except a retry, which takes it back.
OutcomeKept ==
  \A j \in Job : told[j] # "none" /\ told'[j] # told[j]
                   => told'[j] = "none" /\ j \in DOMAIN routes

\* A task moves on without ending.
TaskMoves(j) ==
  /\ pc[j] \in Active
  /\ \E at \in Active : pc' = [pc EXCEPT ![j] = at]
  /\ UNCHANGED <<phase, pending, routes, told, result>>

\* A task ends and says how.
TaskFinishes(j) ==
  /\ pc[j] \in Active
  /\ \E r : Finish(j, r)
  /\ UNCHANGED <<phase, pending, routes>>

\* The terminal events agree with where the jobs are, and none is rewritten.
LEMMA OutcomeStep ==
  ASSUME QueueShape, TaskShape, WorldShape, OwnedOnce, UntouchedBeforeEnqueue,
         StartedCovers, OutcomeInStep, [Next]_vars
  PROVE  OutcomeInStep' /\ OutcomeKept
<1> USE ConstantFacts
<1> DEFINE Goal == OutcomeInStep' /\ OutcomeKept
<1>1. ASSUME UNCHANGED <<phase, pending, routes, told, result, pc>> PROVE Goal
  BY <1>1 DEF OutcomeInStep, OutcomeKept
<1>2. ASSUME NEW j \in Job, TaskMoves(j) PROVE Goal
  BY <1>2 DEF TaskMoves, Active, OutcomeInStep, OutcomeKept, TaskShape
<1>3. ASSUME NEW j \in Job, TaskFinishes(j) PROVE Goal
  <2>1. PICK r : Finish(j, r)
    BY <1>3 DEF TaskFinishes
  <2>2. j \notin DOMAIN routes /\ j \notin DOMAIN pending /\ phase[PlanOf[j]] = "handed"
    <3>1. j \in Running
      BY <1>3 DEF TaskFinishes, Active, Running
    <3>2. j \in started
      BY <3>1 DEF StartedCovers
    <3> QED BY <3>1, <3>2 DEF OwnedOnce, UntouchedBeforeEnqueue
  <2>3. told[j] = "none"
    BY <1>3 DEF TaskFinishes, Active, OutcomeInStep
  <2>4. ASSUME NEW k \in Job
        PROVE  /\ \/ phase'[PlanOf[k]] = "planning" \/ k \in DOMAIN pending'
                  \/ pc'[k] \in Active
                  => told'[k] = "none"
               /\ pc'[k] = "done" => told'[k] = Outcome(result'[k])
               /\ k \in DOMAIN routes' => told'[k] = "retryable"
    <3>1. CASE k = j
      BY <1>3, <2>1, <2>2, <3>1 DEF TaskFinishes, Finish, Active, Outcome, TaskShape, WorldShape
    <3>2. CASE k # j
      <4>1. pc'[k] = pc[k] /\ told'[k] = told[k] /\ result'[k] = result[k]
        BY <2>1, <3>2 DEF Finish, TaskShape, WorldShape
      <4> QED BY <1>3, <4>1 DEF TaskFinishes, Active, Outcome, OutcomeInStep
    <3> QED BY <3>1, <3>2
  <2>5. OutcomeInStep'
    BY <2>4 DEF OutcomeInStep, Active, Outcome
  <2>6. OutcomeKept
    BY <2>1, <2>3 DEF OutcomeKept, Finish, WorldShape
  <2> QED BY <2>5, <2>6
<1>4. CASE QueueQuiet
  <2>1. ASSUME NEW j \in Job, OpenSession(j) \/ CheckPasses(j) \/ AskUser(j)
        PROVE  TaskMoves(j)
    BY <2>1 DEF OpenSession, CheckPasses, AskUser, TaskMoves, Active, managerVars
  <2>2. ASSUME NEW j \in Job, OpenFails(j) \/ CheckEnds(j) \/ TransferEnds(j)
        PROVE  TaskFinishes(j)
    BY <2>2 DEF OpenFails, CheckEnds, TransferEnds, TaskFinishes, Active, managerVars
  <2>3. ASSUME \/ Stop \/ StartDone \/ ConnectionLost \/ Reconnect \/ BrowseOpen
               \/ (\E c \in Conn : BrowseClose(c)) \/ UNCHANGED vars
        PROVE  UNCHANGED <<phase, pending, routes, told, result, pc>>
    BY <2>3 DEF Stop, StartDone, ConnectionLost, Reconnect, BrowseOpen, BrowseClose,
                vars, taskVars, managerVars
  <2>4. ASSUME NEW j \in Job, CancelRunning(j) \/ \E d \in Decision : ResolveConflict(j, d)
        PROVE  UNCHANGED <<phase, pending, routes, told, result, pc>>
    BY <2>4 DEF CancelRunning, ResolveConflict, taskVars, managerVars
  <2> QED BY <1>1, <1>2, <1>3, <1>4, <2>1, <2>2, <2>3, <2>4 DEF QueueQuiet
<1>5. ASSUME NEW p \in Plan, EnqueueCancelledPlan(p) \/ \E c \in Conn : Enqueue(p, c)
      PROVE  Goal
  <2>1. \E S \in SUBSET JobsOf(p), T \in SUBSET JobsOf(p) :
          /\ told' = [j \in Job |-> IF j \in S THEN "skipped" ELSE told[j]]
          /\ DOMAIN pending' = DOMAIN pending \cup T /\ S \cap T = {}
    <3>1. CASE EnqueueCancelledPlan(p)
      <4> DEFINE S == JobsOf(p)
                 T == {}
      <4>1. told' = [j \in Job |-> IF j \in S THEN "skipped" ELSE told[j]]
        BY <3>1 DEF EnqueueCancelledPlan
      <4>2. DOMAIN pending' = DOMAIN pending \cup T /\ S \cap T = {}
        BY <3>1 DEF EnqueueCancelledPlan
      <4> QED BY <4>1, <4>2
    <3>2. ASSUME NEW c \in Conn, Enqueue(p, c)
          PROVE  \E S \in SUBSET JobsOf(p), T \in SUBSET JobsOf(p) :
                   /\ told' = [j \in Job |-> IF j \in S THEN "skipped" ELSE told[j]]
                   /\ DOMAIN pending' = DOMAIN pending \cup T /\ S \cap T = {}
      <4> DEFINE S == JobsOf(p) \cap DOMAIN tombs
                 T == JobsOf(p) \ S
      <4>1. told' = [j \in Job |-> IF j \in S THEN "skipped" ELSE told[j]]
        BY <3>2 DEF Enqueue
      <4>2. PushPending(T, c)
        BY <3>2 DEF Enqueue
      <4>3. S \subseteq JobsOf(p) /\ T \subseteq JobsOf(p) /\ T \subseteq Job /\ S \cap T = {}
        BY DEF JobsOf
      <4> HIDE DEF S, T
      <4>4. DOMAIN pending' = DOMAIN pending \cup T
        BY <4>2, <4>3, PushQueue DEF QueueShape
      <4> QED BY <4>1, <4>3, <4>4
    <3> QED BY <1>5, <3>1, <3>2
  <2>2. PICK S \in SUBSET JobsOf(p), T \in SUBSET JobsOf(p) :
          /\ told' = [j \in Job |-> IF j \in S THEN "skipped" ELSE told[j]]
          /\ DOMAIN pending' = DOMAIN pending \cup T /\ S \cap T = {}
    BY <2>1
  <2>3. /\ phase[p] = "planning" /\ phase' = [phase EXCEPT ![p] = "handed"]
        /\ UNCHANGED <<pc, result, routes>>
    BY <1>5 DEF EnqueueCancelledPlan, Enqueue, taskVars
  <2>4. ASSUME NEW k \in JobsOf(p)
        PROVE  /\ k \in Job /\ PlanOf[k] = p /\ told[k] = "none"
               /\ k \notin DOMAIN pending /\ k \notin DOMAIN routes /\ pc[k] = "idle"
    BY <2>3 DEF JobsOf, OutcomeInStep, UntouchedBeforeEnqueue, StartedCovers, Running
  <2>5. ASSUME NEW k \in Job
        PROVE  /\ \/ phase'[PlanOf[k]] = "planning" \/ k \in DOMAIN pending'
                  \/ pc'[k] \in Active
                  => told'[k] = "none"
               /\ pc'[k] = "done" => told'[k] = Outcome(result'[k])
               /\ k \in DOMAIN routes' => told'[k] = "retryable"
    <3>1. CASE k \in JobsOf(p)
      BY <2>2, <2>3, <2>4, <3>1 DEF Active, WorldShape
    <3>2. CASE k \notin JobsOf(p)
      <4>1. PlanOf[k] # p /\ k \notin S /\ k \notin T
        BY <2>2, <3>2
      <4>2. told'[k] = told[k] /\ phase'[PlanOf[k]] = phase[PlanOf[k]]
        BY <2>2, <2>3, <4>1 DEF WorldShape
      <4> QED BY <2>2, <2>3, <4>1, <4>2 DEF Active, Outcome, OutcomeInStep
    <3> QED BY <3>1, <3>2
  <2>6. OutcomeInStep'
    BY <2>5 DEF OutcomeInStep, Active, Outcome
  <2>7. OutcomeKept
    BY <2>2, <2>4 DEF OutcomeKept
  <2> QED BY <2>6, <2>7
<1>6. ASSUME NEW p \in Plan, ForgetPlan(p) PROVE Goal
  <2>1. /\ phase' = [phase EXCEPT ![p] = "forgotten"]
        /\ UNCHANGED <<pending, routes, told, result, pc>>
    BY <1>6 DEF ForgetPlan, taskVars
  <2> QED BY <2>1 DEF OutcomeInStep, OutcomeKept, WorldShape
<1>7. ASSUME NEW S, S \subseteq DOMAIN pending, DOMAIN pending' = DOMAIN pending \ S,
             told' = [j \in Job |-> IF j \in S THEN "skipped" ELSE told[j]],
             UNCHANGED <<phase, routes, result, pc>>
      PROVE  Goal
  <2>1. \A k \in S : k \in Job /\ k \notin DOMAIN routes /\ pc[k] = "idle"
                     /\ phase[PlanOf[k]] = "handed" /\ told[k] = "none"
    BY <1>7 DEF QueueShape, IsQueue, OwnedOnce, Running, UntouchedBeforeEnqueue, OutcomeInStep
  <2>2. OutcomeInStep'
    BY <1>7, <2>1 DEF OutcomeInStep
  <2>3. OutcomeKept
    BY <1>7, <2>1 DEF OutcomeKept
  <2> QED BY <2>2, <2>3
<1>8. ASSUME NEW p \in Plan, DropPlan(p), UNCHANGED <<phase, taskVars>> PROVE Goal
  <2>1. DOMAIN pending' = DOMAIN pending \ PendingIn(p) /\ PendingIn(p) \subseteq DOMAIN pending
    BY <1>8, WithoutQueue DEF DropPlan, QueueShape, PendingIn
  <2>2. told' = [j \in Job |-> IF j \in PendingIn(p) THEN "skipped" ELSE told[j]]
    BY <1>8 DEF DropPlan, SkippedByPlanCancel
  <2>3. UNCHANGED <<phase, routes, result, pc>>
    BY <1>8 DEF DropPlan, taskVars
  <2> QED BY <1>7, <2>1, <2>2, <2>3
<1>9. ASSUME NEW p \in Plan, CancelPlan(p) PROVE Goal
  BY <1>8, <1>9 DEF CancelPlan
<1>10. ASSUME NEW id \in Id, CancelRoot(id) PROVE Goal
  BY <1>8, <1>10 DEF CancelRoot
<1>11. ASSUME NEW id \in Id, NEW p \in Plan \cup {NoPlan}, CancelUnknown(id, p) PROVE Goal
  BY <1>1, <1>11 DEF CancelUnknown, taskVars
<1>12. ASSUME NEW j \in Job, CancelPending(j) PROVE Goal
  <2> DEFINE S == {j}
  <2>1. DOMAIN pending' = DOMAIN pending \ S /\ S \subseteq DOMAIN pending
    BY <1>12, WithoutQueue DEF CancelPending, QueueShape
  <2>2. told' = [k \in Job |-> IF k \in S THEN "skipped" ELSE told[k]]
    BY <1>12 DEF CancelPending, WorldShape
  <2>3. UNCHANGED <<phase, routes, result, pc>>
    BY <1>12 DEF CancelPending, taskVars
  <2> HIDE DEF S
  <2> QED BY <1>7, <2>1, <2>2, <2>3
<1>13. ASSUME NEW j \in Job, Retry(j) PROVE Goal
  <2>1. PushPending({j}, epoch) /\ {j} \subseteq Job /\ epoch \in Conn /\ IsQueue(pending)
    BY <1>13 DEF Retry, QueueShape, WorldShape
  <2>2. DOMAIN pending' = DOMAIN pending \cup {j}
    BY <2>1, PushQueue
  <2>3. /\ DOMAIN routes' = DOMAIN routes \ {j} /\ j \in DOMAIN routes
        /\ told' = [told EXCEPT ![j] = "none"] /\ UNCHANGED <<phase, result, pc>>
    BY <1>13 DEF Retry, taskVars
  <2>4. pc[j] = "idle"
    BY <2>3 DEF OwnedOnce, Running
  <2>5. OutcomeInStep'
    BY <2>2, <2>3, <2>4 DEF OutcomeInStep, WorldShape
  <2>6. OutcomeKept
    BY <2>3 DEF OutcomeKept, WorldShape
  <2> QED BY <2>5, <2>6
<1>14. ASSUME NEW j \in Job, RetryWithoutConnection(j) PROVE Goal
  <2>1. told[j] = "retryable"
    BY <1>14 DEF RetryWithoutConnection, OutcomeInStep
  <2>2. told' = told
    BY <1>14, <2>1 DEF RetryWithoutConnection, WorldShape
  <2> QED BY <1>1, <1>14, <2>2 DEF RetryWithoutConnection, taskVars
<1>15. ASSUME NEW j \in Job, HandleCompleted(j) PROVE Goal
  <2>1. /\ pc[j] = "done" /\ pc' = [pc EXCEPT ![j] = "idle"]
        /\ result' = [result EXCEPT ![j] = "none"]
        /\ UNCHANGED <<phase, pending, told>>
    BY <1>15 DEF HandleCompleted
  <2>2. \A k \in DOMAIN routes' : k \in DOMAIN routes \/ (k = j /\ result[j] = "retryable")
    BY <1>15 DEF HandleCompleted
  <2>3. result[j] = "retryable" => told[j] = "retryable"
    BY <2>1 DEF OutcomeInStep
  <2>4. OutcomeInStep'
    BY <2>1, <2>2, <2>3 DEF OutcomeInStep, TaskShape
  <2>5. OutcomeKept
    BY <2>1 DEF OutcomeKept
  <2> QED BY <2>4, <2>5
<1>16. ASSUME NEW j \in Job, StartNext(j) PROVE Goal
  <2>1. j \in DOMAIN pending /\ DOMAIN pending' = DOMAIN pending \ {j}
    BY <1>16, WithoutQueue, StartedWasQueued DEF StartNext, QueueShape
  <2>2. pc' \in {[pc EXCEPT ![j] = "open"], [pc EXCEPT ![j] = "check"]}
    BY <1>16 DEF StartNext
  <2>3. UNCHANGED <<phase, routes, told, result>>
    BY <1>16 DEF StartNext
  <2>4. OutcomeInStep'
    BY <2>1, <2>2, <2>3 DEF OutcomeInStep, TaskShape
  <2>5. OutcomeKept
    BY <2>3 DEF OutcomeKept
  <2> QED BY <2>4, <2>5
<1>17. ASSUME NEW j \in Job, NEW d \in Decision,
              DecideOverwrite(j, d) \/ DecideSkip(j, d) \/ DecideRename(j, d)
       PROVE  Goal
  <2>1. pc[j] \in Active /\ UNCHANGED <<phase, pending, routes>>
    BY <1>17 DEF DecideOverwrite, DecideSkip, DecideRename, Answer, Active, managerVars
  <2>2. (\E r : Finish(j, r)) \/ (pc' = [pc EXCEPT ![j] = "xfer"] /\ UNCHANGED <<told, result>>)
    BY <1>17 DEF DecideOverwrite, DecideSkip, DecideRename
  <2>3. TaskFinishes(j) \/ TaskMoves(j)
    BY <2>1, <2>2 DEF TaskFinishes, TaskMoves, Active
  <2> QED BY <1>2, <1>3, <2>3
<1> QED
  BY <1>4, <1>5, <1>6, <1>9, <1>10, <1>11, <1>12, <1>13, <1>14, <1>15, <1>16, <1>17,
     NextCases

----------------------------------------------------------------------------
(* Handled cancels.                                                        *)

\* A record names the plan of its id, or none.
PlansFit(q) == \A k \in DOMAIN q : q[k].plan \in {PlanOf[k], NoPlan}

\* The records new are those of old, without some that concern p.
CutFor(old, new, p) ==
  /\ DOMAIN new \subseteq DOMAIN old
  /\ \A k \in DOMAIN new : new[k].plan = old[k].plan
  /\ \A k \in DOMAIN old \ DOMAIN new : PlanOf[k] = p

\* Taking out ids of one plan cuts for that plan.
LEMMA WithoutCuts ==
  ASSUME NEW q, IsRecord(q), NEW S, NEW p, \A k \in S \cap DOMAIN q : PlanOf[k] = p
  PROVE  CutFor(q, Without(q, S), p)
<1>1. DOMAIN Without(q, S) = DOMAIN q \ S
  BY WithoutRecord
<1>2. \A k \in DOMAIN q \ S : Without(q, S)[k].plan = q[k].plan
  BY DEF Without, IsRecord
<1> QED BY <1>1, <1>2 DEF CutFor

\* forget_cancellations_for_plan cuts for the plan it is given.
LEMMA ForgetCuts ==
  ASSUME NEW q, IsRecord(q), PlansFit(q), NEW p \in Plan
  PROVE  CutFor(q, ForgetCancellationsForPlan(q, p), p)
<1> DEFINE S == {k \in DOMAIN q : q[k].plan = p}
<1>1. ForgetCancellationsForPlan(q, p) = Without(q, S)
  BY DEF ForgetCancellationsForPlan
<1>2. \A k \in S \cap DOMAIN q : PlanOf[k] = p
  BY IdAssumption DEF PlansFit
<1> HIDE DEF S
<1> QED BY <1>1, <1>2, WithoutCuts

\* Two cuts for a plan are one, and a cut keeps the plans that records name.
LEMMA CutTwice ==
  ASSUME NEW q, NEW r, NEW s, NEW p, CutFor(q, r, p), CutFor(r, s, p)
  PROVE  CutFor(q, s, p)
  BY DEF CutFor
\* What a cancel leaves of the queue still fits the plans.
LEMMA CutFits ==
  ASSUME NEW q, NEW r, NEW p, CutFor(q, r, p), PlansFit(q)
  PROVE  PlansFit(r)
  BY DEF CutFor, PlansFit

\* cleanup_plan_if_idle cuts for its plan.
LEMMA CleanupCuts ==
  ASSUME NEW p \in Plan, NEW root, NEW children, NEW sessions, NEW records,
         IsRecord(records), PlansFit(records),
         CleanupPlanIfIdle(p, root, children, sessions, records)
  PROVE  CutFor(records, tombs', p)
<1>1. tombs' \in {records, ForgetCancellationsForPlan(records, p)}
  BY DEF CleanupPlanIfIdle
<1>2. CutFor(records, records, p)
  BY DEF CutFor
<1>3. CutFor(records, ForgetCancellationsForPlan(records, p), p)
  BY ForgetCuts
<1> QED BY <1>1, <1>2, <1>3

\* ... and so does cancel_plan.
LEMMA DropPlanCuts ==
  ASSUME QueueShape, PlansFit(tombs), NEW p \in Plan, DropPlan(p)
  PROVE  CutFor(tombs, tombs', p)
<1> DEFINE records == ForgetCancellationsForPlan(tombs, p)
<1>1. IsRecord(tombs)
  BY DEF QueueShape
<1>2. IsRecord(records) /\ CutFor(tombs, records, p)
  BY <1>1, ForgetRecord, ForgetCuts
<1>3. CASE PendingIn(p) # {} \/ RunningIn(p) # {}
  <2>1. CleanupPlanIfIdle(p, [rootJob EXCEPT ![p] = NoId],
                          childrenStarted \ {p}, idle, records)
    BY <1>3 DEF DropPlan
  <2> HIDE DEF records
  <2>2. PlansFit(records)
    BY <1>2, CutFits
  <2>3. CutFor(records, tombs', p)
    BY <1>2, <2>1, <2>2, CleanupCuts
  <2> QED BY <1>2, <2>3, CutTwice
<1>4. CASE ~(PendingIn(p) # {} \/ RunningIn(p) # {})
  BY <1>2, <1>4 DEF DropPlan
<1> QED BY <1>3, <1>4

\* A cancel that finds no job, with or without its plan's id.
CancelsUnknown(id) == \E p \in {PlanOf[id], NoPlan} : CancelUnknown(id, p)

\* The recorded cancels change when a plan has arrived or was given up, which cuts
\* for that plan, and when a cancel finds no job.
LEMMA TombCases ==
  ASSUME QueueShape, TaskShape, WorldShape, OwnedOnce, UntouchedBeforeEnqueue,
         StartedCovers, PlansFit(tombs), [Next]_vars
  PROVE  \/ tombs' = tombs
         \/ \E p \in Plan : phase'[p] # "planning" /\ CutFor(tombs, tombs', p)
         \/ \E id \in Id : CancelsUnknown(id)
<1> USE ConstantFacts
<1> DEFINE Cut == \E p \in Plan : phase'[p] # "planning" /\ CutFor(tombs, tombs', p)
<1>0. IsRecord(tombs) /\ \A p \in Plan : CutFor(tombs, ForgetCancellationsForPlan(tombs, p), p)
  BY ForgetCuts DEF QueueShape
<1>1. CASE QueueQuiet
  BY <1>1, QuietQueues DEF managerVars
<1>2. ASSUME NEW p \in Plan, EnqueueCancelledPlan(p) \/ ForgetPlan(p) PROVE Cut
  <2>1. tombs' = ForgetCancellationsForPlan(tombs, p) /\ phase'[p] # "planning"
    BY <1>2 DEF EnqueueCancelledPlan, ForgetPlan, WorldShape
  <2> QED BY <1>0, <2>1
<1>3. ASSUME NEW p \in Plan, NEW c \in Conn, Enqueue(p, c) PROVE Cut
  <2> DEFINE D == JobsOf(p) \cap DOMAIN tombs
  <2>1. tombs' = ForgetCancellationsForPlan(Without(tombs, D), p) /\ phase'[p] # "planning"
    BY <1>3 DEF Enqueue, WorldShape
  <2>2. \A k \in D \cap DOMAIN tombs : PlanOf[k] = p
    BY DEF JobsOf
  <2> HIDE DEF D
  <2>3. CutFor(tombs, Without(tombs, D), p) /\ IsRecord(Without(tombs, D))
    BY <1>0, <2>2, WithoutCuts, WithoutRecord
  <2>4. PlansFit(Without(tombs, D))
    BY <2>3, CutFits
  <2>5. CutFor(Without(tombs, D), tombs', p)
    BY <2>1, <2>3, <2>4, ForgetCuts
  <2> QED BY <2>1, <2>3, <2>5, CutTwice
<1>4. ASSUME NEW p \in Plan, CancelPlan(p) PROVE Cut
  <2>1. phase'[p] # "planning"
    BY <1>4 DEF CancelPlan
  <2>2. CutFor(tombs, tombs', p)
    BY <1>4, DropPlanCuts DEF CancelPlan
  <2> QED BY <2>1, <2>2
<1>5. ASSUME NEW id \in Id, CancelRoot(id) PROVE Cut
  <2>1. PICK p \in Plan : rootJob[p] = id /\ DropPlan(p)
    BY <1>5 DEF CancelRoot
  <2>2. phase'[p] # "planning"
    <3>1. rootJob[p] # NoId
      BY <2>1, IdAssumption DEF NoId
    <3> QED BY <1>5, <3>1 DEF CancelRoot, UntouchedBeforeEnqueue
  <2>3. CutFor(tombs, tombs', p)
    BY <2>1, DropPlanCuts
  <2> QED BY <2>2, <2>3
<1>6. ASSUME NEW j \in Job, CancelPending(j) PROVE Cut
  <2>1. phase'[PlanOf[j]] # "planning"
    BY <1>6 DEF CancelPending, UntouchedBeforeEnqueue
  <2>2. CleanupPlanIfIdle(PlanOf[j], rootJob, childrenStarted, idle, tombs)
    BY <1>6 DEF CancelPending
  <2>3. CutFor(tombs, tombs', PlanOf[j])
    BY <1>0, <2>2, CleanupCuts
  <2> QED BY <2>1, <2>3
<1>7. ASSUME NEW j \in Job, HandleCompleted(j) PROVE Cut
  <2>1. j \in started /\ phase' = phase
    BY <1>7 DEF HandleCompleted, StartedCovers, Running
  <2>2. phase'[PlanOf[j]] # "planning"
    BY <2>1 DEF UntouchedBeforeEnqueue
  <2>3. \E sessions : CleanupPlanIfIdle(PlanOf[j], rootJob, childrenStarted, sessions, tombs)
    BY <1>7 DEF HandleCompleted
  <2>4. CutFor(tombs, tombs', PlanOf[j])
    BY <1>0, <2>3, CleanupCuts
  <2> QED BY <2>2, <2>4
<1>8. ASSUME NEW j \in Job, Retry(j) PROVE Cut
  <2>1. phase'[PlanOf[j]] # "planning"
    BY <1>8 DEF Retry, UntouchedBeforeEnqueue
  <2> DEFINE D == {j}
             p == PlanOf[j]
  <2>2. tombs' = ForgetCancellationsForPlan(Without(tombs, D), p)
    BY <1>8 DEF Retry
  <2>3. (\A k \in D \cap DOMAIN tombs : PlanOf[k] = p) /\ p \in Plan
    OBVIOUS
  <2> HIDE DEF D, p
  <2>4. CutFor(tombs, Without(tombs, D), p) /\ IsRecord(Without(tombs, D))
    BY <1>0, <2>3, WithoutCuts, WithoutRecord
  <2>5. PlansFit(Without(tombs, D))
    BY <2>4, CutFits
  <2>6. CutFor(Without(tombs, D), tombs', p)
    BY <2>2, <2>3, <2>4, <2>5, ForgetCuts
  <2>7. CutFor(tombs, tombs', p)
    BY <2>4, <2>6, CutTwice
  <2> QED BY <2>1, <2>3, <2>7 DEF p
<1>9. ASSUME NEW j \in Job, RetryWithoutConnection(j) PROVE Cut
  <2>1. phase'[PlanOf[j]] # "planning"
    BY <1>9 DEF RetryWithoutConnection, UntouchedBeforeEnqueue
  <2> DEFINE D == {j}
             p == PlanOf[j]
  <2>2. tombs' = Without(tombs, D) /\ \A k \in D \cap DOMAIN tombs : PlanOf[k] = p
    BY <1>9 DEF RetryWithoutConnection
  <2> HIDE DEF D, p
  <2>3. CutFor(tombs, tombs', p)
    BY <1>0, <2>2, WithoutCuts
  <2> QED BY <2>1, <2>3 DEF p
<1>10. ASSUME NEW j \in Job, StartNext(j) PROVE tombs' = tombs
  BY <1>10 DEF StartNext
<1>11. ASSUME NEW j \in Job, NEW d \in Decision,
              DecideOverwrite(j, d) \/ DecideSkip(j, d) \/ DecideRename(j, d)
       PROVE  tombs' = tombs
  BY <1>11 DEF DecideOverwrite, DecideSkip, DecideRename, managerVars
<1> QED
  BY <1>1, <1>2, <1>3, <1>4, <1>5, <1>6, <1>7, <1>8, <1>9, <1>10, <1>11, NextActions
  DEF CancelsUnknown

\* Below the bound, record_pending_cancel adds its id and keeps every other record.
LEMMA RecordKeeps ==
  ASSUME NEW q, IsRecord(q), NEW id \in Id, NEW p,
         Cardinality(DOMAIN q) < MaxPendingCancels
  PROVE  /\ DOMAIN q \subseteq DOMAIN RecordPendingCancel(q, id, p)
         /\ id \in DOMAIN RecordPendingCancel(q, id, p)
         /\ Cardinality(DOMAIN RecordPendingCancel(q, id, p)) \in Nat
         /\ Cardinality(DOMAIN RecordPendingCancel(q, id, p)) <= Cardinality(DOMAIN q) + 1
         /\ PlansFit(q) /\ p \in {PlanOf[id], NoPlan}
              => PlansFit(RecordPendingCancel(q, id, p))
<1> DEFINE recorded == [k \in DOMAIN q \cup {id} |->
                     IF k = id
                     THEN [ahead |-> IF id \in DOMAIN q THEN q[id].ahead ELSE DOMAIN q,
                           plan |-> p]
                     ELSE q[k]]
           oldest == {k \in DOMAIN recorded : recorded[k].ahead = {}}
<1>1. IsFiniteSet(DOMAIN q) /\ Cardinality(DOMAIN q) \in Nat
  BY IdAssumption, FS_Subset, FS_CardinalityType DEF IsRecord
<1>2. /\ Cardinality(DOMAIN q \cup {id}) <= Cardinality(DOMAIN q) + 1
      /\ Cardinality(DOMAIN q \cup {id}) \in Nat
  <2>1. Cardinality(DOMAIN q \cup {id}) =
          IF id \in DOMAIN q THEN Cardinality(DOMAIN q) ELSE Cardinality(DOMAIN q) + 1
    BY <1>1, FS_AddElement
  <2> QED BY <1>1, <2>1
<1>3. DOMAIN recorded = DOMAIN q \cup {id}
  OBVIOUS
<1>4. ~(Cardinality(DOMAIN recorded) > MaxPendingCancels)
  BY <1>1, <1>2, <1>3, BoundAssumption
<1>5. RecordPendingCancel(q, id, p) =
        IF Cardinality(DOMAIN recorded) > MaxPendingCancels
        THEN Without(recorded, oldest) ELSE recorded
  BY DEF RecordPendingCancel
<1>6. RecordPendingCancel(q, id, p) = recorded
  BY <1>4, <1>5
<1>7. PlansFit(q) /\ p \in {PlanOf[id], NoPlan} => PlansFit(recorded)
  BY DEF PlansFit
<1>8. DOMAIN q \subseteq DOMAIN recorded /\ id \in DOMAIN recorded
  BY <1>3
<1> HIDE DEF recorded
<1> QED BY <1>2, <1>3, <1>6, <1>7, <1>8

\* The queue only grows by an enqueue or a retry.
LEMMA PendingGrows ==
  ASSUME QueueShape, TaskShape, WorldShape, OwnedOnce, [Next]_vars
  PROVE  \/ DOMAIN pending' \subseteq DOMAIN pending
         \/ \E p \in Plan : \E c \in Conn : Enqueue(p, c)
         \/ \E j \in Job : Retry(j)
<1> DEFINE Less == DOMAIN pending' \subseteq DOMAIN pending
<1>1. CASE QueueQuiet
  BY <1>1, QuietQueues DEF managerVars
<1>2. ASSUME NEW p \in Plan, EnqueueCancelledPlan(p) \/ ForgetPlan(p) PROVE Less
  BY <1>2 DEF EnqueueCancelledPlan, ForgetPlan
<1>3. ASSUME NEW p \in Plan, CancelPlan(p) PROVE Less
  BY <1>3, DropPlanDomains DEF CancelPlan
<1>4. ASSUME NEW id \in Id, CancelRoot(id) PROVE Less
  BY <1>4, DropPlanDomains DEF CancelRoot
<1>5. ASSUME NEW id \in Id, NEW p \in Plan \cup {NoPlan}, CancelUnknown(id, p) PROVE Less
  BY <1>5 DEF CancelUnknown
<1>6. ASSUME NEW j \in Job, CancelPending(j) \/ StartNext(j) PROVE Less
  <2>1. pending' = Without(pending, {j})
    BY <1>6 DEF CancelPending, StartNext
  <2>2. DOMAIN pending' = DOMAIN pending \ {j}
    BY <2>1, WithoutQueue DEF QueueShape
  <2> QED BY <2>2
<1>7. ASSUME NEW j \in Job, RetryWithoutConnection(j) \/ HandleCompleted(j) PROVE Less
  BY <1>7 DEF RetryWithoutConnection, HandleCompleted
<1>8. ASSUME NEW j \in Job, NEW d \in Decision,
             DecideOverwrite(j, d) \/ DecideSkip(j, d) \/ DecideRename(j, d)
      PROVE  Less
  BY <1>8 DEF DecideOverwrite, DecideSkip, DecideRename, managerVars
<1> QED BY <1>1, <1>2, <1>3, <1>4, <1>5, <1>6, <1>7, <1>8, NextCases

\* The ids whose cancel was handled only grow by a cancel, which is counted.
LEMMA AskedCases ==
  ASSUME QueueShape, TaskShape, WorldShape, [Next]_vars
  PROVE  \/ asked' \subseteq asked /\ cancels' = cancels
         \/ \E id \in Id : /\ Asked(id)
                           /\ \/ CancelRoot(id) \/ CancelPending(id) \/ CancelRunning(id)
                              \/ CancelsUnknown(id)
<1> USE ConstantFacts
<1> DEFINE Same == asked' \subseteq asked /\ cancels' = cancels
<1>1. CASE QueueQuiet
  <2>1. ASSUME NEW j \in Job, CancelRunning(j) PROVE j \in Id /\ Asked(j)
    BY <2>1 DEF CancelRunning
  <2>2. ASSUME NEW j \in Job, \/ OpenSession(j) \/ OpenFails(j) \/ CheckPasses(j)
                              \/ CheckEnds(j) \/ AskUser(j) \/ TransferEnds(j)
                              \/ \E d \in Decision : ResolveConflict(j, d)
        PROVE  Same
    BY <2>2 DEF OpenSession, OpenFails, CheckPasses, CheckEnds, AskUser, TransferEnds,
                ResolveConflict
  <2>3. ASSUME \/ Stop \/ StartDone \/ ConnectionLost \/ Reconnect \/ BrowseOpen
               \/ (\E c \in Conn : BrowseClose(c)) \/ UNCHANGED vars
        PROVE  Same
    BY <2>3 DEF Stop, StartDone, ConnectionLost, Reconnect, BrowseOpen, BrowseClose, vars
  <2> QED BY <1>1, <2>1, <2>2, <2>3 DEF QueueQuiet
<1>2. ASSUME NEW p \in Plan, \/ EnqueueCancelledPlan(p) \/ ForgetPlan(p) \/ CancelPlan(p)
                             \/ \E c \in Conn : Enqueue(p, c)
      PROVE  Same
  BY <1>2 DEF EnqueueCancelledPlan, ForgetPlan, CancelPlan, Enqueue
<1>3. ASSUME NEW id \in Id, \/ CancelRoot(id) \/ CancelPending(id)
                            \/ CancelsUnknown(id)
      PROVE  Asked(id)
  BY <1>3 DEF CancelRoot, CancelPending, CancelsUnknown, CancelUnknown
<1>4. ASSUME NEW j \in Job, \/ Retry(j) \/ RetryWithoutConnection(j) \/ StartNext(j)
                            \/ HandleCompleted(j)
      PROVE  Same
  BY <1>4 DEF Retry, RetryWithoutConnection, StartNext, HandleCompleted
<1>5. ASSUME NEW j \in Job, NEW d \in Decision,
             DecideOverwrite(j, d) \/ DecideSkip(j, d) \/ DecideRename(j, d)
      PROVE  Same
  BY <1>5 DEF DecideOverwrite, DecideSkip, DecideRename
<1> HIDE DEF Same
<1> QED BY <1>1, <1>2, <1>3, <1>4, <1>5, NextActions DEF Same, CancelsUnknown

\* A plan that is planning was so before.
LEMMA PlanningWas ==
  ASSUME QueueShape, WorldShape, [Next]_vars, NEW q \in Plan, phase'[q] = "planning"
  PROVE  phase[q] = "planning"
<1>1. ASSUME NEW p \in Plan, \/ (\E c \in Conn : Enqueue(p, c)) \/ EnqueueCancelledPlan(p)
                             \/ ForgetPlan(p)
      PROVE  phase[q] = "planning"
  BY <1>1 DEF Enqueue, EnqueueCancelledPlan, ForgetPlan, WorldShape
<1> QED BY <1>1, PhaseCases

\* A handled cancel stays on record until its plan arrives, and keeps its job out of
\* the queue, while the records are fewer than the bound.
LEMMA CancelInvStep ==
  ASSUME MaxCancels <= MaxPendingCancels, IInv, CancelInv, [Next]_vars
  PROVE  CancelInv'
<1> USE ConstantFacts
<1>0. /\ QueueShape /\ TaskShape /\ WorldShape /\ OwnedOnce /\ UntouchedBeforeEnqueue
      /\ RootIsFirst /\ StartedCovers /\ RecordsFit /\ AskedIsKept /\ IsRecord(tombs)
      /\ PlansFit(tombs)
  BY DEF IInv, TypeOK, CancelInv, RecordsFit, PlansFit, QueueShape
<1>1. IsFiniteSet(DOMAIN tombs) /\ Cardinality(DOMAIN tombs) \in Nat
  BY <1>0, IdAssumption, FS_Subset, FS_CardinalityType DEF IsRecord
<1>2. cancels \in Nat /\ cancels <= MaxCancels /\ Cardinality(DOMAIN tombs) <= cancels
  BY <1>0 DEF WorldShape, RecordsFit
<1>3. /\ cancels' \in Nat /\ cancels <= cancels' /\ cancels' <= MaxCancels
  <2>1. ASSUME NEW id \in Id, Asked(id) PROVE cancels' = cancels + 1 /\ cancels < MaxCancels
    BY <2>1 DEF Asked
  <2> QED BY <1>0, <1>2, <2>1, AskedCases, BoundAssumption
<1>4. ASSUME NEW id \in Id, CancelsUnknown(id)
      PROVE  /\ DOMAIN tombs \subseteq DOMAIN tombs' /\ id \in DOMAIN tombs'
             /\ PlansFit(tombs') /\ Cardinality(DOMAIN tombs') <= cancels'
  <2>0. PICK p \in {PlanOf[id], NoPlan} : CancelUnknown(id, p)
    BY <1>4 DEF CancelsUnknown
  <2>1. tombs' = RecordPendingCancel(tombs, id, p) /\ cancels' = cancels + 1
        /\ cancels < MaxCancels
    BY <2>0 DEF CancelUnknown, Asked
  <2>2. Cardinality(DOMAIN tombs) < MaxPendingCancels
    BY <1>1, <1>2, <2>1, BoundAssumption
  <2>3. /\ DOMAIN tombs \subseteq DOMAIN tombs' /\ id \in DOMAIN tombs'
        /\ Cardinality(DOMAIN tombs') \in Nat
        /\ Cardinality(DOMAIN tombs') <= Cardinality(DOMAIN tombs) + 1
        /\ PlansFit(tombs')
    BY <1>0, <2>0, <2>1, <2>2, RecordKeeps
  <2>4. Cardinality(DOMAIN tombs') <= cancels'
    BY <1>1, <1>2, <2>1, <2>3
  <2> QED BY <2>3, <2>4
<1>5. ASSUME NEW p \in Plan, CutFor(tombs, tombs', p)
      PROVE  PlansFit(tombs') /\ Cardinality(DOMAIN tombs') <= cancels'
  <2>1. PlansFit(tombs')
    BY <1>0, <1>5, CutFits
  <2>2. DOMAIN tombs' \subseteq DOMAIN tombs
    BY <1>5 DEF CutFor
  <2>3. Cardinality(DOMAIN tombs') \in Nat /\ Cardinality(DOMAIN tombs') <= Cardinality(DOMAIN tombs)
    BY <1>1, <2>2, FS_Subset, FS_CardinalityType
  <2> QED BY <1>1, <1>2, <1>3, <2>1, <2>3
<1>6. ASSUME tombs' = tombs
      PROVE  PlansFit(tombs') /\ Cardinality(DOMAIN tombs') <= cancels'
  BY <1>0, <1>1, <1>2, <1>3, <1>6 DEF PlansFit
<1>13. \/ tombs' = tombs
       \/ \E p \in Plan : phase'[p] # "planning" /\ CutFor(tombs, tombs', p)
       \/ \E id \in Id : CancelsUnknown(id)
  BY <1>0, TombCases
<1>7. PlansFit(tombs') /\ Cardinality(DOMAIN tombs') <= cancels'
  BY <1>4, <1>5, <1>6, <1>13
<1>8. RecordsFit'
  BY <1>3, <1>7 DEF RecordsFit, PlansFit
<1>9. ASSUME NEW id \in Job, CancelRoot(id) \/ CancelPending(id) \/ CancelRunning(id)
      PROVE  id \notin DOMAIN pending' /\ phase'[PlanOf[id]] = "handed"
  <2>1. CASE CancelRoot(id)
    <3>1. PICK p \in Plan : rootJob[p] = id /\ DropPlan(p)
      BY <2>1 DEF CancelRoot
    <3>2. id = First[p] /\ PlanOf[id] = p
      BY <1>0, <3>1 DEF RootIsFirst
    <3>3. DOMAIN pending' = DOMAIN pending \ PendingIn(p)
      BY <1>0, <3>1, WithoutQueue DEF DropPlan, QueueShape
    <3>4. phase'[p] = "handed"
      BY <1>0, <2>1, <3>1 DEF CancelRoot, UntouchedBeforeEnqueue
    <3> QED BY <3>2, <3>3, <3>4 DEF PendingIn
  <2>2. CASE CancelPending(id)
    <3>1. DOMAIN pending' = DOMAIN pending \ {id}
      BY <1>0, <2>2, WithoutQueue DEF CancelPending, QueueShape
    <3> QED BY <1>0, <2>2, <3>1 DEF CancelPending, UntouchedBeforeEnqueue
  <2>3. CASE CancelRunning(id)
    BY <1>0, <2>3 DEF CancelRunning, managerVars, OwnedOnce, StartedCovers, UntouchedBeforeEnqueue
  <2> QED BY <1>9, <2>1, <2>2, <2>3
<1>10. ASSUME NEW j \in asked' \cap Job, phase'[PlanOf[j]] = "planning"
       PROVE  j \in DOMAIN tombs'
  <2>1. phase[PlanOf[j]] = "planning"
    BY <1>0, <1>10, PlanningWas
  <2>2. CASE j \in asked
    <3>1. j \in DOMAIN tombs
      BY <1>0, <2>1, <2>2 DEF AskedIsKept
    <3>2. ASSUME NEW p \in Plan, phase'[p] # "planning", CutFor(tombs, tombs', p)
          PROVE  j \in DOMAIN tombs'
      BY <1>10, <3>1, <3>2 DEF CutFor
    <3>3. ASSUME NEW id \in Id, CancelsUnknown(id) PROVE j \in DOMAIN tombs'
      BY <1>4, <3>1, <3>3
    <3> QED BY <1>13, <3>1, <3>2, <3>3
  <2>3. CASE j \notin asked
    <3>1. PICK id \in Id : /\ Asked(id)
                           /\ \/ CancelRoot(id) \/ CancelPending(id) \/ CancelRunning(id)
                              \/ CancelsUnknown(id)
      BY <1>0, <1>10, <2>3, AskedCases
    <3>2. id = j
      BY <1>10, <2>3, <3>1 DEF Asked
    <3>3. ASSUME CancelsUnknown(id) PROVE j \in DOMAIN tombs'
      BY <1>4, <3>2, <3>3
    <3> QED BY <1>9, <1>10, <3>1, <3>2, <3>3
  <2> QED BY <2>2, <2>3
<1>11. asked' \cap DOMAIN pending' = {}
  <2>1. ASSUME NEW p \in Plan, NEW c \in Conn, Enqueue(p, c) PROVE asked' \cap DOMAIN pending' = {}
    <3> DEFINE S == JobsOf(p) \ (JobsOf(p) \cap DOMAIN tombs)
    <3>1. S \subseteq Job /\ S \subseteq JobsOf(p) /\ S \cap DOMAIN tombs = {}
      BY DEF JobsOf
    <3>2. PushPending(S, c) /\ asked' = asked /\ phase[p] = "planning"
      BY <2>1 DEF Enqueue
    <3> HIDE DEF S
    <3>3. DOMAIN pending' = DOMAIN pending \cup S
      BY <1>0, <3>1, <3>2, PushQueue DEF QueueShape
    <3>4. asked \cap S = {}
      BY <1>0, <3>1, <3>2 DEF AskedIsKept, JobsOf
    <3> QED BY <1>0, <3>2, <3>3, <3>4 DEF AskedIsKept
  <2>2. ASSUME NEW j \in Job, Retry(j) PROVE asked' \cap DOMAIN pending' = {}
    <3>1. PushPending({j}, epoch) /\ {j} \subseteq Job /\ epoch \in Conn /\ IsQueue(pending)
      BY <1>0, <2>2 DEF Retry, QueueShape, WorldShape
    <3>2. DOMAIN pending' = DOMAIN pending \cup {j} /\ asked' = asked \ {j}
      BY <2>2, <3>1, PushQueue DEF Retry
    <3> QED BY <1>0, <3>2 DEF AskedIsKept
  <2>3. CASE DOMAIN pending' \subseteq DOMAIN pending
    <3>1. CASE asked' \subseteq asked
      BY <1>0, <2>3, <3>1 DEF AskedIsKept
    <3>2. ASSUME NEW id \in Id, Asked(id),
                 \/ CancelRoot(id) \/ CancelPending(id) \/ CancelRunning(id)
                 \/ CancelsUnknown(id)
          PROVE  asked' \cap DOMAIN pending' = {}
      <4>1. asked' = asked \cup {id}
        BY <3>2 DEF Asked
      <4>2. id \in Job => id \notin DOMAIN pending'
        <5>1. ASSUME CancelsUnknown(id) PROVE id \notin DOMAIN pending'
          BY <5>1 DEF CancelsUnknown, CancelUnknown, IsUnknown
        <5> QED BY <1>9, <3>2, <5>1
      <4>3. DOMAIN pending \subseteq Job
        BY <1>0 DEF QueueShape, IsQueue
      <4> QED BY <1>0, <2>3, <4>1, <4>2, <4>3 DEF AskedIsKept
    <3> QED BY <1>0, <3>1, <3>2, AskedCases
  <2> QED BY <1>0, <2>1, <2>2, <2>3, PendingGrows
<1>12. AskedIsKept'
  BY <1>10, <1>11 DEF AskedIsKept
<1> QED BY <1>8, <1>12 DEF CancelInv

----------------------------------------------------------------------------
(* The theorems.                                                           *)

\* The manager starts in a state of the invariant.
LEMMA InitIInv == Init => IInv
<1> SUFFICES ASSUME Init PROVE IInv
  OBVIOUS
<1> USE ConstantFacts, FS_EmptySet
<1>1. QueueShape
  <2>1. IsQueue(pending) /\ IsRecord(tombs)
    BY DEF Init, IsQueue, IsRecord
  <2>2. idle \in [Plan -> Seq(Conn)]
    BY DEF Init
  <2> QED BY <2>1, <2>2 DEF Init, QueueShape
<1>2. TaskShape
  BY DEF Init, TaskShape, Policy, Decision
<1>3. WorldShape /\ CountersNatural
  BY DEF Init, WorldShape, CountersNatural
<1>4. DOMAIN pending = {} /\ DOMAIN routes = {} /\ DOMAIN tombs = {}
  BY DEF Init
<1>5. Running = {}
  BY DEF Init, Running
<1>6. CountersAgree
  <2>1. QueueCounts
    <3>1. \A p \in Plan : PendingIn(p) = {}
      BY <1>4 DEF PendingIn
    <3> QED BY <3>1 DEF QueueCounts, Init
  <2>2. RunningCounts
    <3>1. \A p \in Plan : RunningIn(p) = {}
      BY <1>5 DEF RunningIn
    <3> QED BY <3>1 DEF RunningCounts, Init
  <2>3. RootsQueued
    BY <1>4 DEF RootsQueued, Init
  <2>4. ChannelCounts
    <3>1. \A c \in Conn : Holding(c) = {}
      BY DEF Holding, Init
    <3>2. \A c \in Conn : channels[c] = 0 /\ browse[c] = 0
      BY DEF Init
    <3>3. ASSUME NEW c \in Conn PROVE channels[c] = browse[c] + Cardinality(Holding(c))
      <4>1. Cardinality(Holding(c)) = 0
        BY <3>1, FS_EmptySet
      <4>2. channels[c] = 0 /\ browse[c] = 0
        BY <3>2
      <4> QED BY ONLY <4>1, <4>2
    <3> QED BY <3>3 DEF ChannelCounts
  <2> QED BY <2>1, <2>2, <2>3, <2>4 DEF CountersAgree
<1>7. OwnedOnce
  BY <1>4, <1>5 DEF OwnedOnce
<1>8. SessionHeld
  BY DEF Init, SessionHeld
<1>9. UntouchedBeforeEnqueue /\ RootIsFirst /\ StartedCovers
  BY <1>4, <1>5 DEF Init, UntouchedBeforeEnqueue, RootIsFirst, StartedCovers
<1>10. RootRunsAlone /\ ClearsOnlyUntouchedTree
  <2>1. \A p \in Download : p \in Plan
    BY IdAssumption
  <2> QED BY <1>5, <2>1 DEF Init, RootRunsAlone, ClearsOnlyUntouchedTree
<1>11. WaitersMatchPrompts
  BY DEF Init, WaitersMatchPrompts
<1>12. IdlePlanKeepsNothing
  BY DEF Init, IdlePlanKeepsNothing
<1>13. OutcomeInStep
  BY <1>4 DEF Init, OutcomeInStep
<1> QED
  BY <1>1, <1>2, <1>3, <1>6, <1>7, <1>8, <1>9, <1>10, <1>11, <1>12, <1>13 DEF IInv, TypeOK

\* Every step keeps the invariant.
LEMMA IInvStep == IInv /\ [Next]_vars => IInv'
<1> SUFFICES ASSUME IInv, [Next]_vars PROVE IInv'
  OBVIOUS
<1>1. /\ QueueShape /\ TaskShape /\ WorldShape /\ CountersNatural
      /\ QueueCounts /\ RunningCounts /\ RootsQueued /\ ChannelCounts
      /\ OwnedOnce /\ SessionHeld /\ UntouchedBeforeEnqueue /\ RootIsFirst
      /\ StartedCovers /\ RootRunsAlone /\ ClearsOnlyUntouchedTree
      /\ WaitersMatchPrompts /\ IdlePlanKeepsNothing /\ OutcomeInStep
  BY DEF IInv, TypeOK, CountersAgree
<1>2. QueueShape' /\ TaskShape' /\ WorldShape' /\ SessionHeld'
  BY <1>1, QueueShapeStep, TaskShapeStep, WorldShapeStep, SessionHeldStep
<1>3. /\ pendingPerPlan \in [Plan -> Nat] /\ runningPerPlan \in [Plan -> Nat]
      /\ channels \in [Conn -> Nat]
  BY <1>1 DEF CountersNatural
<1>4. QueueCounts' /\ pendingPerPlan' \in [Plan -> Nat]
  BY <1>1, <1>2, <1>3, QueueCountsStep
<1>5. RunningCounts' /\ runningPerPlan' \in [Plan -> Nat]
  BY <1>1, <1>3, RunningCountsStep
<1>6. ChannelCounts' /\ channels' \in [Conn -> Nat]
  BY <1>1, <1>2, <1>3, ChannelCountsStep
<1>7. RootsQueued'
  BY <1>1, <1>2, <1>4, RootsQueuedStep
<1>8. CountersNatural' /\ CountersAgree'
  BY <1>4, <1>5, <1>6, <1>7 DEF CountersNatural, CountersAgree
<1>9. OwnedOnce' /\ StartedCovers' /\ RootIsFirst' /\ UntouchedBeforeEnqueue'
  BY <1>1, OwnedOnceStep, StartedCoversStep, RootIsFirstStep, UntouchedStep
<1>10. RootRunsAlone'
  BY <1>1, RootRunsAloneStep
<1>11. ClearsOnlyUntouchedTree'
  BY <1>1, <1>9, <1>10, ClearsOnlyUntouchedStep
<1>12. WaitersMatchPrompts'
  BY <1>1, WaitersStep
<1>13. IdlePlanKeepsNothing'
  BY <1>1, <1>2, <1>4, <1>5, IdlePlanStep
<1>14. OutcomeInStep'
  BY <1>1, OutcomeStep
<1> QED
  BY <1>2, <1>8, <1>9, <1>10, <1>11, <1>12, <1>13, <1>14 DEF IInv, TypeOK

\* The inductive invariant holds in every state the manager, its tasks and the
\* connections can reach.
THEOREM Invariance == Spec => []IInv
  BY InitIInv, IInvStep, PTL DEF Spec

\* Every map of the manager keeps its shape and no counter ever underflows, in
\* particular none of the fetch_sub and saturating_sub of handle_completed,
\* remove_pending and the tasks.
THEOREM TypeCorrect == Spec => []TypeOK
<1>1. IInv => TypeOK
  BY DEF IInv
<1> QED BY <1>1, Invariance, PTL

\* pending_per_plan, running_per_plan, pending_roots and active_channels agree
\* with what they summarise, whatever the interleaving of requests, completions
\* and tasks.
THEOREM CountersAlwaysAgree == Spec => []CountersAgree
<1>1. IInv => CountersAgree
  BY DEF IInv
<1> QED BY <1>1, Invariance, PTL

\* A job is queued, running or retryable, never two of these, and no recorded
\* cancel names a queued or running job (enqueue, Retry, handle_completed).
THEOREM JobOwnedOnce == Spec => []OwnedOnce
<1>1. IInv => OwnedOnce
  BY DEF IInv
<1> QED BY <1>1, Invariance, PTL

\* The first job of a download plan, which may delete the destination tree, never
\* runs beside another job of its plan (is_eligible).
THEOREM RootAlwaysAlone == Spec => []RootRunsAlone
<1>1. IInv => RootRunsAlone
  BY DEF IInv
<1> QED BY <1>1, Invariance, PTL

\* A job that may clear the destination of its download plan is the only job of
\* the plan that was ever started (take_destination_clear_permission).
THEOREM ClearIsHarmless == Spec => []ClearsOnlyUntouchedTree
<1>1. IInv => ClearsOnlyUntouchedTree
  BY DEF IInv
<1> QED BY <1>1, Invariance, PTL

\* Every conflict prompt has its waiter or its answer, and nothing else has one:
\* no prompt is orphaned by a cancel, a retry or an apply-to-all decision, and no
\* decision reaches a job that is not asking (resolve_transfer_conflict).
THEOREM PromptsAlwaysMatch == Spec => []WaitersMatchPrompts
<1>1. IInv => WaitersMatchPrompts
  BY DEF IInv
<1> QED BY <1>1, Invariance, PTL

\* Whatever emptied a plan, a completion, a single cancel or a plan cancel, its root,
\* its started mark, its policy and its idle sessions are gone (cleanup_plan_if_idle).
THEOREM IdlePlanAlwaysClean == Spec => []IdlePlanKeepsNothing
<1>1. IInv => IdlePlanKeepsNothing
  BY DEF IInv
<1> QED BY <1>1, Invariance, PTL

\* A job's attempt has one terminal event, which only a retry of a retryable failure
\* takes back (cancel_plan, cancel, enqueue, the tasks).
THEOREM OutcomeIsFinal == Spec => OneOutcomePerAttempt
<1>1. IInv /\ [Next]_vars => OutcomeKept
  BY OutcomeStep DEF IInv, TypeOK
<1>2. IInv /\ [Next]_vars
        => [\A j \in Job : told[j] # "none" /\ told'[j] # told[j]
                             => told'[j] = "none" /\ j \in DOMAIN routes]_vars
  BY <1>1 DEF OutcomeKept
<1> QED BY <1>2, Invariance, PTL DEF Spec, OneOutcomePerAttempt

\* Up to MAX_PENDING_CANCELS cancels, so that no recorded one is evicted: a job whose
\* cancel was handled, before, while or after it was queued, does not start unless it
\* is retried (cancel, enqueue, record_pending_cancel, start_queued).
THEOREM CancelledStaysOut ==
  ASSUME MaxCancels <= MaxPendingCancels
  PROVE  Spec => CancelledJobNeverStarts
<1>1. Init => CancelInv
  <2>1. Init => DOMAIN tombs = {} /\ asked = {} /\ cancels = 0
    BY DEF Init
  <2> QED BY <2>1, FS_EmptySet, BoundAssumption DEF CancelInv, RecordsFit, AskedIsKept
<1>2. IInv /\ CancelInv /\ [Next]_vars => CancelInv'
  BY CancelInvStep
<1>3. IInv /\ CancelInv /\ [Next]_vars
        => [\A j \in Job : j \in asked /\ j \notin Running => j \notin Running']_vars
  <2> SUFFICES ASSUME IInv, CancelInv, [Next]_vars, NEW j \in Job, j \in asked, j \notin Running
               PROVE  j \notin Running'
    OBVIOUS
  <2>1. QueueShape /\ TaskShape /\ OwnedOnce /\ j \notin DOMAIN pending
    BY DEF IInv, TypeOK, CancelInv, AskedIsKept
  <2>2. ASSUME NEW k \in Job, StartNext(k), RunAdd(k) PROVE j \notin Running'
    BY <2>1, <2>2, StartedWasQueued DEF RunAdd
  <2> QED BY <2>1, <2>2, RunCases DEF RunKept, RunRemove
<1> QED BY <1>1, <1>2, <1>3, Invariance, PTL DEF Spec, CancelledJobNeverStarts
=============================================================================
