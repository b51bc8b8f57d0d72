------------------------- MODULE TransferRowsProofs -------------------------
(***************************************************************************)
(* Proofs about TransferRows, for every number of files, batch size and    *)
(* channel capacity.                                                       *)
(***************************************************************************)
EXTENDS TransferRows, FiniteSetTheorems, TLAPS

-----------------------------------------------------------------------------
(* The two channels. *)

\* Jobs are numbers, finitely many, and the plan's own row is none of them.
LEMMA JobsAreNats == Job \subseteq Nat /\ Root \notin Job /\ IsFiniteSet(Job) /\ First \in Job
<1>1. IsFiniteSet(1 .. Files)
  BY FS_Interval, RowsAssumption
<1> QED BY <1>1, RowsAssumption DEF Job, Root, First

\* What a queue is after something was sent.
LEMMA SentLast ==
  ASSUME NEW S, NEW q \in Seq(S), NEW e \in S
  PROVE  /\ Append(q, e) \in Seq(S)
         /\ Len(Append(q, e)) = Len(q) + 1
         /\ \A i \in 1 .. Len(q) : Append(q, e)[i] = q[i]
         /\ Append(q, e)[Len(q) + 1] = e
OBVIOUS

\* What a queue is after its first member was taken.
LEMMA TakenFirst ==
  ASSUME NEW S, NEW q \in Seq(S), q # <<>>
  PROVE  /\ Tail(q) \in Seq(S)
         /\ Len(q) \in Nat \ {0}
         /\ Len(Tail(q)) = Len(q) - 1
         /\ \A i \in 1 .. Len(Tail(q)) : Tail(q)[i] = q[i + 1]
         /\ Head(q) = q[1] /\ q[1] \in S
OBVIOUS

\* A channel after a step that adds elements of the set E.
Extends(q, r, S, E) ==
    /\ r \in Seq(S) /\ Len(q) \in Nat /\ Len(r) \in Nat /\ Len(q) <= Len(r)
    /\ \A i \in 1 .. Len(q) : r[i] = q[i]
    /\ \A i \in (Len(q) + 1) .. Len(r) : r[i] \in E

\* What a queue is after several things were sent at once.
LEMMA Joined ==
  ASSUME NEW S, NEW q \in Seq(S), NEW n \in Nat, NEW f \in [1 .. n -> S]
  PROVE  /\ q \o f \in Seq(S)
         /\ Len(q \o f) = Len(q) + n
         /\ \A i \in 1 .. Len(q) : (q \o f)[i] = q[i]
         /\ \A i \in 1 .. n : (q \o f)[Len(q) + i] = f[i]
         /\ Len(q) \in Nat
<1>1. f \in Seq(S) /\ Len(f) = n
  OBVIOUS
<1> QED BY <1>1

\* An event that is sent becomes the last of the channel.
LEMMA EmitOne ==
  ASSUME NEW t, NEW T, events \in Seq(EventRecords), Event(t, T) \in EventRecords, Emit(t, T)
  PROVE  /\ Extends(events, events', EventRecords, {Event(t, T)})
         /\ Len(events') = Len(events) + 1
         /\ events'[Len(events')] = Event(t, T)
<1> DEFINE e == Event(t, T)
           f == <<e>>
<1>0. e \in EventRecords
  OBVIOUS
<1> HIDE DEF e
<1>1. f \in [1 .. 1 -> EventRecords] /\ f[1] = e
  BY <1>0
<1>2. events' = events \o f
  BY DEF Emit, EmitSeq, e
<1> HIDE DEF f
<1>3. /\ events \o f \in Seq(EventRecords)
      /\ Len(events \o f) = Len(events) + 1
      /\ \A i \in 1 .. Len(events) : (events \o f)[i] = events[i]
      /\ \A i \in 1 .. 1 : (events \o f)[Len(events) + i] = f[i]
      /\ Len(events) \in Nat
  BY <1>1, Joined
<1>4. /\ events' \in Seq(EventRecords)
      /\ Len(events') = Len(events) + 1
      /\ \A i \in 1 .. Len(events) : events'[i] = events[i]
      /\ events'[Len(events) + 1] = e
      /\ Len(events) \in Nat
  BY <1>1, <1>2, <1>3
<1>5. Extends(events, events', EventRecords, {e})
  BY <1>4 DEF Extends
<1> QED BY <1>4, <1>5 DEF e

\* Events for several jobs are appended, one for each.
LEMMA EmitMany ==
  ASSUME NEW t \in JobEvents, NEW T \in SUBSET Job, events \in Seq(EventRecords), EmitAll(t, T)
  PROVE  /\ Extends(events, events', EventRecords, {Event(t, {j}) : j \in T})
         /\ \A j \in T : \E k \in (Len(events) + 1) .. Len(events') : events'[k] = Event(t, {j})
<1>1. Cardinality(T) \in Nat
  BY JobsAreNats, FS_Subset, FS_CardinalityType
<1>2. PICK n \in Nat : n = Cardinality(T)
  BY <1>1
<1>3. PICK order \in [1 .. n -> T] :
        /\ Range(order) = T
        /\ events' = events \o [i \in 1 .. n |-> Event(t, {order[i]})]
  BY <1>2 DEF EmitAll, EmitSeq
<1> DEFINE f == [i \in 1 .. n |-> Event(t, {order[i]})]
<1>4. \A j \in T : Event(t, {j}) \in EventRecords
  BY DEF Event, EventRecords
<1>5. f \in [1 .. n -> EventRecords] /\ \A i \in 1 .. n : f[i] = Event(t, {order[i]})
  BY <1>4
<1>6. events' = events \o f
  BY <1>3
<1>7. \A j \in T : \E i \in 1 .. n : order[i] = j
  BY <1>3 DEF Range
<1> HIDE DEF f
<1>8. /\ events' \in Seq(EventRecords)
      /\ Len(events') = Len(events) + n
      /\ \A i \in 1 .. Len(events) : events'[i] = events[i]
      /\ \A i \in 1 .. n : events'[Len(events) + i] = f[i]
      /\ Len(events) \in Nat
  <2>1. f \in [1 .. n -> EventRecords]
    BY <1>5
  <2>2. /\ events \o f \in Seq(EventRecords)
        /\ Len(events \o f) = Len(events) + n
        /\ \A i \in 1 .. Len(events) : (events \o f)[i] = events[i]
        /\ \A i \in 1 .. n : (events \o f)[Len(events) + i] = f[i]
        /\ Len(events) \in Nat
    BY <2>1, Joined
  <2> QED BY <2>2, <1>6
<1>9. ASSUME NEW i \in (Len(events) + 1) .. Len(events')
      PROVE  events'[i] \in {Event(t, {j}) : j \in T}
  <2>1. i - Len(events) \in 1 .. n /\ Len(events) + (i - Len(events)) = i
    BY <1>8
  <2>2. events'[i] = f[i - Len(events)]
    BY <2>1, <1>8
  <2>3. order[i - Len(events)] \in T
    BY <2>1
  <2> QED BY <2>1, <2>2, <2>3, <1>5
<1>10. ASSUME NEW j \in T
       PROVE  \E k \in (Len(events) + 1) .. Len(events') : events'[k] = Event(t, {j})
  <2>1. PICK i \in 1 .. n : order[i] = j
    BY <1>7
  <2>2. Len(events) + i \in (Len(events) + 1) .. Len(events')
    BY <1>8
  <2>3. events'[Len(events) + i] = Event(t, {j})
    BY <1>8, <1>5, <2>1
  <2> QED BY <2>2, <2>3
<1> DEFINE E == {Event(t, {j}) : j \in T}
<1>11. \A i \in (Len(events) + 1) .. Len(events') : events'[i] \in E
  BY <1>9
<1> HIDE DEF E
<1>12. Extends(events, events', EventRecords, E)
  BY <1>8, <1>11 DEF Extends
<1> QED BY <1>10, <1>12 DEF E

-----------------------------------------------------------------------------
(* Type correctness. *)

\* The events that the senders make.
LEMMA EventForms ==
  /\ Event("started", {Root}) \in EventRecords
  /\ \A T \in SUBSET Job : Event("progress", T) \in EventRecords
  /\ \A t \in PlanEvents : Event(t, {}) \in EventRecords
  /\ \A t \in JobEvents : \A j \in Job : Event(t, {j}) \in EventRecords
BY DEF Event, EventRecords

\* The jobs that an event of each type names.
LEMMA EventKinds ==
  ASSUME NEW e \in EventRecords
  PROVE  /\ e.type = "started" => e.ids = {Root}
         /\ e.type = "progress" => e.ids \subseteq Job
         /\ e.type \in PlanEvents => e.ids = {}
         /\ e.type \in JobEvents => \E j \in Job : e.ids = {j}
         /\ e = Event(e.type, e.ids)
BY DEF Event, EventRecords, PlanEvents, JobEvents, Final

\* The requests that planner and user make.
LEMMA RequestForms ==
  /\ \A t \in {"enqueue", "cancelPlan", "forget"} : Request(t, Root) \in RequestRecords
  /\ \A t \in {"cancel", "retry"} : \A r \in Rows : Request(t, r) \in RequestRecords
BY DEF Request, RequestRecords, Rows

\* The event of an action that reports one thing.
Adds(t, T) ==
    /\ Extends(events, events', EventRecords, {Event(t, T)})
    /\ Len(events') = Len(events) + 1
    /\ events'[Len(events')] = Event(t, T)

\* An event that is sent follows all that were sent before.
LEMMA EmitAdds ==
  ASSUME NEW t, NEW T, TypeOK, Event(t, T) \in EventRecords, Emit(t, T)
  PROVE  Adds(t, T)
BY EmitOne DEF Adds, TypeOK

\* The channel then holds events still.
LEMMA AddsTyped ==
  ASSUME NEW t, NEW T, Adds(t, T)
  PROVE  events' \in Seq(EventRecords)
BY DEF Adds, Extends

\* A request that is sent follows all that were sent before.
LEMMA SendAdds ==
  ASSUME NEW t, NEW r, TypeOK, Request(t, r) \in RequestRecords, Send(t, r)
  PROVE  /\ requests' \in Seq(RequestRecords)
         /\ Len(requests) \in Nat /\ Len(requests') = Len(requests) + 1
         /\ \A i \in 1 .. Len(requests) : requests'[i] = requests[i]
         /\ requests'[Len(requests')] = Request(t, r)
<1> DEFINE e == Request(t, r)
<1>1. e \in RequestRecords /\ requests \in Seq(RequestRecords)
  BY DEF TypeOK
<1>2. requests' = Append(requests, e)
  BY DEF Send
<1> HIDE DEF e
<1>3. Len(requests) \in Nat
  BY <1>1
<1>4. /\ requests' \in Seq(RequestRecords)
      /\ Len(requests') = Len(requests) + 1
      /\ \A i \in 1 .. Len(requests) : requests'[i] = requests[i]
      /\ requests'[Len(requests) + 1] = e
  BY <1>1, <1>2, SentLast
<1> QED BY <1>3, <1>4 DEF e

\* The manager takes the oldest request.
LEMMA HandlesTakes ==
  ASSUME NEW t, TypeOK, Handles(t)
  PROVE  /\ requests' \in Seq(RequestRecords)
         /\ Len(requests) \in Nat \ {0} /\ Len(requests') = Len(requests) - 1
         /\ \A i \in 1 .. Len(requests') : requests'[i] = requests[i + 1]
         /\ Head1 = requests[1] /\ Head1 \in RequestRecords
         /\ Head1.type = t /\ Head1.id \in Rows
<1>1. requests \in Seq(RequestRecords) /\ requests # <<>> /\ requests' = Tail(requests) /\ Head1.type = t
  BY DEF TypeOK, Handles
<1>2. /\ Tail(requests) \in Seq(RequestRecords)
      /\ Len(requests) \in Nat \ {0}
      /\ Len(Tail(requests)) = Len(requests) - 1
      /\ \A i \in 1 .. Len(Tail(requests)) : Tail(requests)[i] = requests[i + 1]
      /\ Head(requests) = requests[1] /\ requests[1] \in RequestRecords
  BY <1>1, TakenFirst
<1>3. \A e \in RequestRecords : e.id \in Rows
  BY DEF RequestRecords
<1> QED BY <1>1, <1>2, <1>3 DEF Head1

\* What a step of the planner or the handoff task does to the two channels.
LEMMA PlannerEvents ==
  ASSUME TypeOK
  PROVE  /\ StartTransfer => Adds("started", {Root})
         /\ EmitChild \/ FinishFlush
              => events' = events \/ \E T \in SUBSET Job : Adds("progress", T)
         /\ PlannerCancelled \/ HandoffCancelled => Adds("planCancelled", {})
         /\ PlannerFails => Adds("planFailed", {}) \/ Adds("planFailedFinal", {})
         /\ FinishComplete => Adds("planCompleted", {})
         /\ NothingPlanned => events' = events \/ Adds("planCancelled", {})
         /\ PlanningDropped \/ SendEnqueue \/ TakePlanningGuard => events' = events
<1>1. StartTransfer => Adds("started", {Root})
  BY EmitAdds, EventForms DEF StartTransfer
<1>2. ASSUME EmitChild \/ FinishFlush
      PROVE  events' = events \/ \E T \in SUBSET Job : Adds("progress", T)
  <2> DEFINE T == IF EmitChild THEN Unpublished(emitted') ELSE Unpublished(emitted)
  <2>1. T \in SUBSET Job
    BY <1>2, RowsAssumption DEF EmitChild, FinishFlush, Unpublished, Job, TypeOK
  <2>2. events' = events \/ Emit("progress", T)
    BY <1>2 DEF EmitChild, FinishFlush
  <2> HIDE DEF T
  <2>3. Event("progress", T) \in EventRecords
    BY <2>1, EventForms
  <2>4. events' = events \/ Adds("progress", T)
    BY <2>2, <2>3, EmitAdds
  <2> QED BY <2>1, <2>4
<1>3. \A t \in PlanEvents : Emit(t, {}) => Adds(t, {})
  BY EmitAdds, EventForms
<1>4. \A t \in {"planCompleted", "planCancelled", "planFailed", "planFailedFinal"} :
          Emit(t, {}) => Adds(t, {})
  BY <1>3 DEF PlanEvents
<1>5. PlannerCancelled \/ HandoffCancelled => Adds("planCancelled", {})
  BY <1>4 DEF PlannerCancelled, HandoffCancelled
<1>6. PlannerFails => Adds("planFailed", {}) \/ Adds("planFailedFinal", {})
  BY <1>4 DEF PlannerFails
<1>7. FinishComplete => Adds("planCompleted", {})
  BY <1>4 DEF FinishComplete
<1>8. NothingPlanned => events' = events \/ Adds("planCancelled", {})
  BY <1>4 DEF NothingPlanned
<1>9. PlanningDropped \/ SendEnqueue \/ TakePlanningGuard => events' = events
  BY DEF PlanningDropped, SendEnqueue, TakePlanningGuard
<1> QED BY <1>1, <1>2, <1>5, <1>6, <1>7, <1>8, <1>9

\* fail_planned_jobs reports every job.
LEMMA HandoffReports ==
  ASSUME TypeOK, HandoffFails
  PROVE  /\ Extends(events, events', EventRecords, {Event("failedFinal", {j}) : j \in 1 .. emitted})
         /\ \A j \in 1 .. emitted : \E k \in (Len(events) + 1) .. Len(events') :
                events'[k] = Event("failedFinal", {j})
<1>1. 1 .. emitted \in SUBSET Job /\ "failedFinal" \in JobEvents
  BY RowsAssumption DEF TypeOK, Job, JobEvents, Final
<1>2. EmitAll("failedFinal", 1 .. emitted) /\ events \in Seq(EventRecords)
  BY DEF HandoffFails, TypeOK
<1> DEFINE T == 1 .. emitted
<1>3. T \in SUBSET Job /\ EmitAll("failedFinal", T)
  BY <1>1, <1>2
<1> HIDE DEF T
<1>4. /\ Extends(events, events', EventRecords, {Event("failedFinal", {j}) : j \in T})
      /\ \A j \in T : \E k \in (Len(events) + 1) .. Len(events') :
                events'[k] = Event("failedFinal", {j})
  BY <1>1, <1>2, <1>3, EmitMany
<1> QED BY <1>4 DEF T

\* Planner and handoff task keep the types.
LEMMA PlannerTyped ==
  ASSUME TypeOK, StartTransfer \/ PlannerStep
  PROVE  TypeOK'
<1>1. events' \in Seq(EventRecords)
  <2>1. events' = events => events' \in Seq(EventRecords)
    BY DEF TypeOK
  <2>2. CASE HandoffFails
    BY <2>2, HandoffReports DEF Extends
  <2>3. CASE ~HandoffFails
    BY <2>1, <2>3, PlannerEvents, AddsTyped DEF PlannerStep
  <2> QED BY <2>2, <2>3
<1>2. requests' \in Seq(RequestRecords)
  <2>1. requests' = requests => requests' \in Seq(RequestRecords)
    BY DEF TypeOK
  <2>2. \A t \in {"enqueue", "cancelPlan", "forget"} : Send(t, Root) => requests' \in Seq(RequestRecords)
    BY SendAdds, RequestForms
  <2> QED BY <2>1, <2>2 DEF PlannerStep, StartTransfer, EmitChild, PlannerCancelled, PlannerFails,
            PlanningDropped, FinishFlush, FinishComplete, NothingPlanned, HandoffCancelled,
            HandoffFails, SendEnqueue, TakePlanningGuard
<1>3. CASE StartTransfer
  BY <1>1, <1>2, <1>3 DEF TypeOK, StartTransfer, planner, manager, store, user
<1>4. CASE EmitChild
  BY <1>1, <1>2, <1>4, RowsAssumption DEF TypeOK, EmitChild, planner, manager, store, user
<1>5. CASE PlannerCancelled
  BY <1>1, <1>2, <1>5 DEF TypeOK, PlannerCancelled, planner, manager, store, user
<1>6. CASE PlannerFails
  BY <1>1, <1>2, <1>6 DEF TypeOK, PlannerFails, planner, manager, store, user
<1>7. CASE PlanningDropped
  BY <1>1, <1>2, <1>7 DEF TypeOK, PlanningDropped, planner, manager, store, user
<1>8. CASE FinishFlush
  BY <1>1, <1>2, <1>8, RowsAssumption DEF TypeOK, FinishFlush, planner, manager, store, user
<1>9. CASE FinishComplete
  BY <1>1, <1>2, <1>9 DEF TypeOK, FinishComplete, planner, manager, store, user
<1>10. CASE NothingPlanned
  BY <1>1, <1>2, <1>10 DEF TypeOK, NothingPlanned, planner, manager, store, user
<1>11. CASE HandoffCancelled
  BY <1>1, <1>2, <1>11 DEF TypeOK, HandoffCancelled, planner, manager, store, user
<1>12. CASE HandoffFails
  <2>1. 1 .. emitted \subseteq Job
    BY RowsAssumption DEF TypeOK, Job
  <2>2. /\ out' \in [Job -> {"none"} \cup Final] /\ failures' \subseteq Job
        /\ job' \in [Job -> JobStates]
    BY <1>12, <2>1 DEF TypeOK, HandoffFails, Final, JobStates
  <2> QED BY <1>1, <1>2, <1>12, <2>2 DEF TypeOK, HandoffFails, store, user
<1>13. CASE SendEnqueue
  BY <1>1, <1>2, <1>13 DEF TypeOK, SendEnqueue, planner, manager, store, user
<1>14. CASE TakePlanningGuard
  BY <1>1, <1>2, <1>14 DEF TypeOK, TakePlanningGuard, planner, manager, store, user
<1> QED BY <1>3, <1>4, <1>5, <1>6, <1>7, <1>8, <1>9, <1>10, <1>11, <1>12, <1>13, <1>14 DEF PlannerStep

\* What a request that the manager handles makes it report.
LEMMA ManagerEvents ==
  ASSUME TypeOK
  PROVE  /\ EnqueueCancelled => Adds("planCancelled", {})
         /\ DoCancelPlan => \/ events' = events /\ Queued \cup Running = {}
                            \/ Adds("planCancelled", {}) /\ Queued \cup Running # {}
         /\ CancelQueued => Adds("skipped", {Head1.id})
         /\ RetryWithoutConnection => Adds("failed", {Head1.id})
         /\ \/ ForgetPlan \/ CancelRunning \/ CancelUnknown \/ Retry \/ RetryUnknown
            => events' = events
<1>1. Event("planCancelled", {}) \in EventRecords
  BY EventForms DEF PlanEvents
<1>2. EnqueueCancelled => Adds("planCancelled", {})
  BY <1>1, EmitAdds DEF EnqueueCancelled
<1>3. DoCancelPlan => \/ events' = events /\ Queued \cup Running = {}
                      \/ Adds("planCancelled", {}) /\ Queued \cup Running # {}
  BY <1>1, EmitAdds DEF DoCancelPlan
<1>4. \A t \in JobEvents : \A j \in Job : Emit(t, {j}) => Adds(t, {j})
  BY EmitAdds, EventForms
<1>5. "skipped" \in JobEvents /\ "failed" \in JobEvents
  BY DEF JobEvents, Final
<1>6. CancelQueued => Adds("skipped", {Head1.id})
  BY <1>4, <1>5 DEF CancelQueued, Queued
<1>7. RetryWithoutConnection => Adds("failed", {Head1.id})
  BY <1>4, <1>5 DEF RetryWithoutConnection, TypeOK
<1>8. \/ ForgetPlan \/ CancelRunning \/ CancelUnknown \/ Retry \/ RetryUnknown
      => events' = events
  BY DEF ForgetPlan, CancelRunning, CancelUnknown, Retry, RetryUnknown
<1> QED BY <1>2, <1>3, <1>6, <1>7, <1>8

\* enqueue reports every job it skips.
LEMMA EnqueueReports ==
  ASSUME TypeOK, Enqueue
  PROVE  LET skipped == recorded \cap 1 .. emitted
         IN  /\ Extends(events, events', EventRecords, {Event("skipped", {j}) : j \in skipped})
             /\ \A j \in skipped : \E k \in (Len(events) + 1) .. Len(events') :
                    events'[k] = Event("skipped", {j})
             /\ skipped \subseteq Job
<1> DEFINE T == recorded \cap 1 .. emitted
<1>1. T \in SUBSET Job /\ "skipped" \in JobEvents
  BY RowsAssumption DEF TypeOK, Job, JobEvents, Final
<1>2. EmitAll("skipped", T) /\ events \in Seq(EventRecords)
  BY DEF Enqueue, TypeOK
<1> HIDE DEF T
<1>3. /\ Extends(events, events', EventRecords, {Event("skipped", {j}) : j \in T})
      /\ \A j \in T : \E k \in (Len(events) + 1) .. Len(events') :
                events'[k] = Event("skipped", {j})
  BY <1>1, <1>2, EmitMany
<1> QED BY <1>1, <1>3 DEF T

\* So does the manager.
LEMMA ManagerTyped ==
  ASSUME TypeOK, HandleRequest
  PROVE  TypeOK'
<1>1. requests' \in Seq(RequestRecords)
  BY HandlesTakes DEF HandleRequest, EnqueueCancelled, Enqueue, ForgetPlan, CancelPlan, CancelRoot,
     CancelQueued, CancelRunning, CancelUnknown, Retry, RetryWithoutConnection, RetryUnknown
<1>2. ASSUME NEW t, Handles(t)
      PROVE  Head1.id \in Rows
  BY <1>2, HandlesTakes
<1>3. events' \in Seq(EventRecords)
  <2>1. events' = events => events' \in Seq(EventRecords)
    BY DEF TypeOK
  <2>2. CASE Enqueue
    BY <2>2, EnqueueReports DEF Extends
  <2>3. CASE ~Enqueue
    BY <2>1, <2>3, ManagerEvents, AddsTyped DEF HandleRequest, CancelPlan, CancelRoot
  <2> QED BY <2>2, <2>3
<1>4. ASSUME NEW J, NEW R, NEW known \in BOOLEAN, NEW recs \in SUBSET Rows,
             CleanupPlanIfIdle(J, R, known, recs)
      PROVE  rootKnown' \in BOOLEAN /\ recorded' \subseteq Rows
  BY <1>4 DEF CleanupPlanIfIdle
<1>5. CASE EnqueueCancelled
  <2>1. /\ job' \in [Job -> JobStates] /\ out' \in [Job -> {"none"} \cup Final]
    BY <1>5 DEF EnqueueCancelled, TypeOK, JobStates, Final
  <2> QED BY <1>1, <1>3, <1>5, <2>1 DEF EnqueueCancelled, Handles, TypeOK, planner, store, user
<1>6. CASE Enqueue
  <2>1. job' \in [Job -> JobStates]
    BY <1>6 DEF Enqueue, TypeOK, JobStates
  <2>2. out' \in [Job -> {"none"} \cup Final]
    BY <1>6 DEF Enqueue, TypeOK, Final
  <2>3. rootKnown' \in BOOLEAN /\ recorded' = {}
    BY <1>6 DEF Enqueue
  <2> QED BY <1>1, <1>3, <1>6, <2>1, <2>2, <2>3 DEF Enqueue, Handles, TypeOK, planner, store, user
<1>7. CASE ForgetPlan
  BY <1>1, <1>3, <1>7 DEF ForgetPlan, Handles, TypeOK, planner, store, user
<1>8. CASE CancelPlan \/ CancelRoot
  <2>1. DoCancelPlan /\ (Handles("cancelPlan") \/ Handles("cancel"))
    BY <1>8 DEF CancelPlan, CancelRoot
  <2>2. job' \in [Job -> JobStates]
    BY <2>1 DEF DoCancelPlan, TypeOK, JobStates
  <2>3. out' \in [Job -> {"none"} \cup Final]
    BY <2>1 DEF DoCancelPlan, TypeOK, Final, Dropped
  <2>4. stop' \subseteq Job /\ rootKnown' \in BOOLEAN /\ recorded' = {}
    BY <2>1 DEF DoCancelPlan, TypeOK, Running
  <2> QED BY <1>1, <1>3, <2>1, <2>2, <2>3, <2>4
          DEF DoCancelPlan, Handles, TypeOK, planner, store, user
<1>9. CASE CancelQueued
  <2>1. rootKnown' \in BOOLEAN /\ recorded' \subseteq Rows
    BY <1>4, <1>9 DEF CancelQueued, TypeOK
  <2>2. /\ job' \in [Job -> JobStates] /\ out' \in [Job -> {"none"} \cup Final]
    BY <1>9 DEF CancelQueued, TypeOK, JobStates, Final
  <2> QED BY <1>1, <1>3, <1>9, <2>1, <2>2 DEF CancelQueued, Handles, TypeOK, planner, store, user
<1>10. CASE CancelRunning
  <2>1. stop' \subseteq Job
    BY <1>10 DEF CancelRunning, Running, TypeOK
  <2> QED BY <1>1, <1>3, <1>10, <2>1 DEF CancelRunning, Handles, TypeOK, planner, store, user
<1>11. CASE CancelUnknown
  <2>1. recorded' \subseteq Rows
    BY <1>2, <1>11 DEF CancelUnknown, TypeOK
  <2> QED BY <1>1, <1>3, <1>11, <2>1 DEF CancelUnknown, Handles, TypeOK, planner, store, user
<1>12. CASE Retry
  <2>1. job' \in [Job -> JobStates] /\ routes' \subseteq Job
    BY <1>12 DEF Retry, TypeOK, JobStates
  <2> QED BY <1>1, <1>3, <1>12, <2>1 DEF Retry, Handles, TypeOK, planner, store, user
<1>13. CASE RetryWithoutConnection
  BY <1>1, <1>3, <1>13 DEF RetryWithoutConnection, Handles, TypeOK, planner, store, user
<1>14. CASE RetryUnknown
  BY <1>1, <1>3, <1>14 DEF RetryUnknown, Handles, TypeOK, planner, store, user
<1> QED BY <1>5, <1>6, <1>7, <1>8, <1>9, <1>10, <1>11, <1>12, <1>13, <1>14 DEF HandleRequest

\* What a job task reports.
LEMMA JobEventsOf ==
  ASSUME TypeOK, NEW j \in Job
  PROVE  /\ AskConflict(j) => Adds("conflict", {j})
         /\ BeginWork(j) => Adds("running", {j})
         /\ MakeProgress(j) => Adds("moved", {j})
         /\ EndAttempt(j) => \E r \in Final : /\ Adds(r, {j}) /\ out' = [out EXCEPT ![j] = r]
                                              /\ r \in Outcomes(j)
         /\ StartJob(j) \/ HandleCompleted(j) => events' = events
<1>1. \A t \in JobEvents : Emit(t, {j}) => Adds(t, {j})
  BY EmitAdds, EventForms
<1>2. \A t \in {"conflict", "running", "moved"} : Emit(t, {j}) => Adds(t, {j})
  BY <1>1 DEF JobEvents
<1>3. Outcomes(j) \subseteq Final
  BY DEF Outcomes, Final
<1>4. EndAttempt(j) => \E r \in Final : /\ Adds(r, {j}) /\ out' = [out EXCEPT ![j] = r]
                                        /\ r \in Outcomes(j)
  BY <1>1, <1>3 DEF EndAttempt, JobEvents
<1>5. StartJob(j) \/ HandleCompleted(j) => events' = events
  BY DEF StartJob, HandleCompleted
<1> QED BY <1>2, <1>4, <1>5 DEF AskConflict, BeginWork, MakeProgress

\* So do the jobs.
LEMMA JobTyped ==
  ASSUME TypeOK, NEW j \in Job, JobStep(j) \/ MakeProgress(j)
  PROVE  TypeOK'
<1>1. events' \in Seq(EventRecords)
  <2>1. events' = events => events' \in Seq(EventRecords)
    BY DEF TypeOK
  <2> QED BY <2>1, JobEventsOf, AddsTyped DEF JobStep
<1>2. CASE StartJob(j)
  <2>1. job' \in [Job -> JobStates] /\ stop' \subseteq Job
    BY <1>2 DEF StartJob, TypeOK, JobStates
  <2> QED BY <1>1, <1>2, <2>1 DEF StartJob, JobTask, TypeOK, planner, store, user
<1>3. CASE AskConflict(j)
  <2>1. job' \in [Job -> JobStates]
    BY <1>3 DEF AskConflict, TypeOK, JobStates
  <2> QED BY <1>1, <1>3, <2>1 DEF AskConflict, JobTask, TypeOK, planner, store, user
<1>4. CASE BeginWork(j)
  <2>1. job' \in [Job -> JobStates]
    BY <1>4 DEF BeginWork, TypeOK, JobStates
  <2> QED BY <1>1, <1>4, <2>1 DEF BeginWork, JobTask, TypeOK, planner, store, user
<1>5. CASE MakeProgress(j)
  BY <1>1, <1>5 DEF MakeProgress, JobTask, TypeOK, planner, store, user
<1>6. CASE EndAttempt(j)
  <2>1. /\ job' \in [Job -> JobStates] /\ out' \in [Job -> {"none"} \cup Final]
        /\ failures' \subseteq Job
    BY <1>6 DEF EndAttempt, Outcomes, TypeOK, JobStates, Final
  <2>2. stop' = stop /\ JobTask(j)
    BY <1>6 DEF EndAttempt
  <2> QED BY <1>1, <2>1, <2>2 DEF JobTask, TypeOK, planner, store, user
<1>7. CASE HandleCompleted(j)
  <2>1. rootKnown' \in BOOLEAN /\ recorded' \subseteq Rows
    BY <1>7 DEF HandleCompleted, CleanupPlanIfIdle, TypeOK
  <2>2. job' \in [Job -> JobStates] /\ stop' \subseteq Job /\ routes' \subseteq Job
    BY <1>7 DEF HandleCompleted, TypeOK, JobStates
  <2> QED BY <1>1, <1>7, <2>1, <2>2 DEF HandleCompleted, TypeOK, planner, store, user
<1> QED BY <1>2, <1>3, <1>4, <1>5, <1>6, <1>7 DEF JobStep

\* The store takes the oldest event.
LEMMA StoreTakes ==
  ASSUME TypeOK, ApplyEvent
  PROVE  /\ events' \in Seq(EventRecords)
         /\ Len(events) \in Nat \ {0} /\ Len(events') = Len(events) - 1
         /\ \A i \in 1 .. Len(events') : events'[i] = events[i + 1]
         /\ events[1] \in EventRecords /\ Reduce(events[1])
<1>1. events \in Seq(EventRecords) /\ events # <<>> /\ events' = Tail(events) /\ Reduce(Head(events))
  BY DEF TypeOK, ApplyEvent
<1>2. /\ Tail(events) \in Seq(EventRecords)
      /\ Len(events) \in Nat \ {0}
      /\ Len(Tail(events)) = Len(events) - 1
      /\ \A i \in 1 .. Len(Tail(events)) : Tail(events)[i] = events[i + 1]
      /\ Head(events) = events[1] /\ events[1] \in EventRecords
  BY <1>1, TakenFirst
<1> QED BY <1>1, <1>2

\* What one event may do to the store, by its type.
LEMMA ReduceCases ==
  ASSUME NEW e \in EventRecords, Reduce(e)
  PROVE  \/ e = Event("started", {Root}) /\ ApplyStarted
         \/ \E T \in SUBSET Job : e = Event("progress", T) /\ ApplyProgress(T)
         \/ e = Event("planCompleted", {}) /\ ApplyPlanCompleted
         \/ e = Event("planCancelled", {}) /\ SetPlanCancelled
         \/ e = Event("planFailed", {}) /\ SetPlanFailed("failed")
         \/ e = Event("planFailedFinal", {}) /\ SetPlanFailed("failedFinal")
         \/ \E j \in Job : e = Event("running", {j}) /\ ApplyRunning(j)
         \/ \E j \in Job : e = Event("conflict", {j}) /\ ApplyConflict(j)
         \/ \E j \in Job : e = Event("moved", {j}) /\ ApplyMoved(j)
         \/ \E j \in Job, t \in Final : e = Event(t, {j}) /\ SetTransferTerminal(j, t)
<1>1. /\ e.type = "started" => e.ids = {Root}
      /\ e.type = "progress" => e.ids \subseteq Job
      /\ e.type \in PlanEvents => e.ids = {}
      /\ e.type \in JobEvents => \E j \in Job : e.ids = {j}
      /\ e = Event(e.type, e.ids)
  BY EventKinds
<1>2. PICK t, T : t = e.type /\ T = e.ids
  OBVIOUS
<1>3. CASE t = "started"
  BY <1>1, <1>2, <1>3 DEF Reduce, Final
<1>4. CASE t = "progress"
  BY <1>1, <1>2, <1>4 DEF Reduce, Final
<1>5. CASE t \in PlanEvents
  BY <1>1, <1>2, <1>5 DEF Reduce, Final, PlanEvents
<1>6. CASE t \in JobEvents
  <2>1. PICK j \in Job : T = {j}
    BY <1>1, <1>2, <1>6
  <2>2. e = Event(t, {j})
    BY <1>1, <1>2, <2>1
  <2> QED BY <1>2, <1>6, <2>1, <2>2 DEF Reduce, Final, JobEvents
<1> QED BY <1>2, <1>3, <1>4, <1>5, <1>6 DEF Reduce, PlanEvents, JobEvents

\* So does the store.
LEMMA StoreTyped ==
  ASSUME TypeOK, ApplyEvent
  PROVE  TypeOK'
<1> DEFINE StoreOK == /\ plan \in {"absent", "planning", "queued", "gone"} \cup TerminalPlan
                      /\ kids \subseteq Job
                      /\ rows \in [Rows -> RowStates]
                      /\ conflicts \subseteq Job
<1>1. events' \in Seq(EventRecords) /\ events[1] \in EventRecords /\ Reduce(events[1])
  BY StoreTakes
<1>2. StoreOK
  BY DEF TypeOK
<1>3. Job \subseteq Rows /\ Root \in Rows /\ Final \subseteq RowStates
  BY DEF Rows, RowStates
<1>4. ApplyStarted => StoreOK'
  BY <1>2, <1>3 DEF ApplyStarted, RowStates, TerminalPlan
<1>5. \A T \in SUBSET Job : ApplyProgress(T) => StoreOK'
  BY <1>2, <1>3 DEF ApplyProgress, RowStates, TerminalPlan
<1>6. ApplyPlanCompleted => StoreOK'
  BY <1>2, <1>3 DEF ApplyPlanCompleted, RowStates, TerminalPlan, Final
<1>7. SetPlanCancelled => StoreOK'
  BY <1>2, <1>3 DEF SetPlanCancelled, RowStates, TerminalPlan, Final
<1>8. \A t \in {"failed", "failedFinal"} : SetPlanFailed(t) => StoreOK'
  BY <1>2, <1>3 DEF SetPlanFailed, RowStates, TerminalPlan, Final
<1>9. \A j \in Job : ApplyRunning(j) \/ ApplyConflict(j) \/ ApplyMoved(j) => StoreOK'
  BY <1>2, <1>3 DEF ApplyRunning, ApplyConflict, ApplyMoved, RowStates
<1>10. ASSUME NEW j \in Job, NEW t \in Final, SetTransferTerminal(j, t)
       PROVE  StoreOK'
  <2> DEFINE rs == IF Present(j) THEN [rows EXCEPT ![j] = t] ELSE rows
  <2>1. rs \in [Rows -> RowStates]
    BY <1>2, <1>3
  <2>2. kids' = kids /\ conflicts' \subseteq conflicts /\ FinalizePlanForJob(j, rs)
    BY <1>10 DEF SetTransferTerminal
  <2> HIDE DEF rs
  <2>3. /\ plan' \in {"absent", "planning", "queued", "gone"} \cup TerminalPlan
        /\ rows' \in [Rows -> RowStates]
    BY <1>2, <1>3, <2>1, <2>2 DEF FinalizePlanForJob, RowStates, TerminalPlan, Final
  <2> QED BY <1>2, <2>2, <2>3
<1>11. StoreOK'
  <2> HIDE DEF StoreOK
  <2> QED BY <1>1, <1>4, <1>5, <1>6, <1>7, <1>8, <1>9, <1>10, ReduceCases
<1> QED BY <1>1, <1>11 DEF ApplyEvent, TypeOK, planner, manager, user

\* So does the user.
LEMMA UserTyped ==
  ASSUME TypeOK, UserStep
  PROVE  TypeOK'
<1>1. Job \subseteq Rows /\ Root \in Rows
  BY DEF Rows
<1>2. \A r \in Rows : \A t \in {"cancel", "retry"} : Send(t, r) => requests' \in Seq(RequestRecords)
  BY SendAdds, RequestForms
<1>3. ASSUME NEW r \in Rows, CancelTransfer(r)
      PROVE  TypeOK'
  <2>1. requests' \in Seq(RequestRecords)
    BY <1>2, <1>3 DEF CancelTransfer, TypeOK
  <2>2. rows' \in [Rows -> RowStates]
    BY <1>3 DEF CancelTransfer, MarkCancelling, TypeOK, RowStates
  <2>3. asks' \in 0 .. MaxAsks
    BY <1>3, RowsAssumption DEF CancelTransfer, TypeOK
  <2> QED BY <1>3, <2>1, <2>2, <2>3 DEF CancelTransfer, TypeOK, manager
<1>4. ASSUME NEW j \in Job, RetryTransfer(j)
      PROVE  TypeOK'
  <2>1. requests' \in Seq(RequestRecords)
    BY <1>1, <1>2, <1>4 DEF RetryTransfer
  <2>2. asks' \in 0 .. MaxAsks
    BY <1>4, RowsAssumption DEF RetryTransfer, TypeOK
  <2> QED BY <1>4, <2>1, <2>2 DEF RetryTransfer, TypeOK, planner, manager, store
<1>5. ASSUME NEW j \in Job, NEW all \in BOOLEAN, ResolveConflict(j, all)
      PROVE  TypeOK'
  <2>1. job' \in [Job -> JobStates] /\ conflicts' \subseteq Job
    BY <1>5 DEF ResolveConflict, TypeOK, JobStates
  <2> QED BY <1>5, <2>1 DEF ResolveConflict, TypeOK, planner, user
<1>6. CASE ClearTerminal
  <2>1. rows' \in [Rows -> RowStates]
    BY <1>6 DEF ClearTerminal, TypeOK, RowStates
  <2>2. plan' \in {"absent", "planning", "queued", "gone"} \cup TerminalPlan
    BY <1>6 DEF ClearTerminal, TypeOK
  <2> QED BY <1>6, <2>1, <2>2 DEF ClearTerminal, TypeOK, planner, manager
<1> QED BY <1>3, <1>4, <1>5, <1>6 DEF UserStep

\* The first state is well-formed.
LEMMA InitTyped == Init => TypeOK
<1> SUFFICES ASSUME Init PROVE TypeOK
  OBVIOUS
<1>1. requests \in Seq(RequestRecords) /\ events \in Seq(EventRecords)
  BY DEF Init
<1>2. /\ job \in [Job -> JobStates] /\ rows \in [Rows -> RowStates]
      /\ out \in [Job -> {"none"} \cup Final]
  BY DEF Init, JobStates, RowStates
<1>3. {cancelled, cleared, dropped} \subseteq BOOLEAN
  BY DEF Init
<1>4. emitted \in 0 .. Files /\ published \in 0 .. emitted /\ asks \in 0 .. MaxAsks
  BY RowsAssumption DEF Init
<1> QED BY <1>1, <1>2, <1>3, <1>4 DEF Init, TypeOK

\* Every step keeps the types.
LEMMA Typed ==
  ASSUME TypeOK, [Next]_vars
  PROVE  TypeOK'
<1>1. CASE UNCHANGED vars
  BY <1>1 DEF TypeOK, vars, planner, manager, store, user
<1> QED BY <1>1, PlannerTyped, ManagerTyped, JobTyped, StoreTyped, UserTyped DEF Next

\* Every variable keeps its type, and every event and request the shape that its
\* reader expects (apply_event, TransferManager::handle_request).
THEOREM TypeCorrect == Spec => []TypeOK
BY InitTyped, Typed, PTL DEF Spec

-----------------------------------------------------------------------------
(* The handoff: what was asked of the manager, and in which order. *)

\* What is asked for after a request was sent; a plan cancel goes behind the jobs.
LEMMA SendAsked ==
  ASSUME NEW t, NEW r, TypeOK, Request(t, r) \in RequestRecords, Send(t, r)
  PROVE  /\ Asked(t)'
         /\ \A u : u # t => (Asked(u)' <=> Asked(u))
         /\ t # "enqueue" /\ CancelBehindJobs => CancelBehindJobs'
         /\ t = "cancelPlan" => CancelBehindJobs'
<1>1. /\ Len(requests) \in Nat /\ Len(requests') = Len(requests) + 1
      /\ \A i \in 1 .. Len(requests) : requests'[i] = requests[i]
      /\ requests'[Len(requests')] = Request(t, r)
  BY SendAdds
<1>2. requests'[Len(requests')].type = t
  BY <1>1 DEF Request
<1>3. Asked(t)'
  BY <1>1, <1>2 DEF Asked
<1>4. ASSUME NEW u, u # t
      PROVE  Asked(u)' <=> Asked(u)
  BY <1>1, <1>2, <1>4 DEF Asked
<1>5. ASSUME t # "enqueue", CancelBehindJobs
      PROVE  CancelBehindJobs'
  <2>1. ASSUME NEW i \in 1 .. Len(requests'), requests'[i].type = "enqueue"
        PROVE  \E k \in 1 .. Len(requests') : k > i /\ requests'[k].type = "cancelPlan"
    <3>1. i \in 1 .. Len(requests) /\ requests[i].type = "enqueue"
      BY <1>1, <1>2, <1>5, <2>1
    <3>2. PICK k \in 1 .. Len(requests) : k > i /\ requests[k].type = "cancelPlan"
      BY <1>5, <3>1 DEF CancelBehindJobs
    <3> QED BY <1>1, <3>2
  <2> QED BY <2>1 DEF CancelBehindJobs
<1>6. ASSUME t = "cancelPlan"
      PROVE  CancelBehindJobs'
  <2>1. ASSUME NEW i \in 1 .. Len(requests'), requests'[i].type = "enqueue"
        PROVE  \E k \in 1 .. Len(requests') : k > i /\ requests'[k].type = "cancelPlan"
    <3>1. i < Len(requests')
      BY <1>1, <1>2, <1>6, <2>1
    <3> QED BY <1>1, <1>2, <1>6, <3>1
  <2> QED BY <2>1 DEF CancelBehindJobs
<1> QED BY <1>3, <1>4, <1>5, <1>6

\* What is asked for after a request was taken; the cancel behind the jobs stays.
LEMMA TakeAsked ==
  ASSUME NEW t, TypeOK, Handles(t)
  PROVE  /\ Asked(t)
         /\ \A u : Asked(u)' => Asked(u)
         /\ \A u : u # t /\ Asked(u) => Asked(u)'
         /\ CancelBehindJobs => CancelBehindJobs'
         /\ t = "enqueue" /\ CancelBehindJobs => Asked("cancelPlan")'
<1>1. /\ Len(requests) \in Nat \ {0} /\ Len(requests') = Len(requests) - 1
      /\ \A i \in 1 .. Len(requests') : requests'[i] = requests[i + 1]
      /\ requests[1].type = t
  BY HandlesTakes
<1>2. \A i \in 1 .. Len(requests) : i > 1 => i - 1 \in 1 .. Len(requests') /\ requests'[i - 1] = requests[i]
  BY <1>1
<1>3. Asked(t)
  BY <1>1 DEF Asked
<1>4. ASSUME NEW u, Asked(u)'
      PROVE  Asked(u)
  <2>1. PICK i \in 1 .. Len(requests') : requests'[i].type = u
    BY <1>4 DEF Asked
  <2>2. i + 1 \in 1 .. Len(requests) /\ requests[i + 1].type = u
    BY <1>1, <2>1
  <2> QED BY <2>2 DEF Asked
<1>5. ASSUME NEW u, u # t, Asked(u)
      PROVE  Asked(u)'
  <2>1. PICK i \in 1 .. Len(requests) : requests[i].type = u
    BY <1>5 DEF Asked
  <2>2. i > 1
    BY <1>1, <1>5, <2>1
  <2>3. i - 1 \in 1 .. Len(requests') /\ requests'[i - 1].type = u
    BY <1>2, <2>1, <2>2
  <2> QED BY <2>3 DEF Asked
<1>6. ASSUME CancelBehindJobs
      PROVE  CancelBehindJobs'
  <2>1. ASSUME NEW i \in 1 .. Len(requests'), requests'[i].type = "enqueue"
        PROVE  \E k \in 1 .. Len(requests') : k > i /\ requests'[k].type = "cancelPlan"
    <3>1. i + 1 \in 1 .. Len(requests) /\ requests[i + 1].type = "enqueue"
      BY <1>1, <2>1
    <3>2. PICK k \in 1 .. Len(requests) : k > i + 1 /\ requests[k].type = "cancelPlan"
      BY <1>6, <3>1 DEF CancelBehindJobs
    <3>3. k - 1 \in 1 .. Len(requests') /\ k - 1 > i /\ requests'[k - 1].type = "cancelPlan"
      BY <1>1, <1>2, <3>1, <3>2
    <3> QED BY <3>3
  <2> QED BY <2>1 DEF CancelBehindJobs
<1>7. ASSUME t = "enqueue", CancelBehindJobs
      PROVE  Asked("cancelPlan")'
  <2>1. PICK k \in 1 .. Len(requests) : k > 1 /\ requests[k].type = "cancelPlan"
    BY <1>1, <1>7 DEF CancelBehindJobs
  <2>2. k - 1 \in 1 .. Len(requests') /\ requests'[k - 1].type = "cancelPlan"
    BY <1>2, <2>1
  <2> QED BY <2>2 DEF Asked
<1> QED BY <1>3, <1>4, <1>5, <1>6, <1>7

\* The jobs are sent once.
LEMMA OneEnqueueSent ==
  ASSUME NEW t, NEW r, TypeOK, Request(t, r) \in RequestRecords, Send(t, r),
         OneEnqueue, t = "enqueue" => ~Asked("enqueue")
  PROVE  OneEnqueue'
<1>1. /\ Len(requests) \in Nat /\ Len(requests') = Len(requests) + 1
      /\ \A i \in 1 .. Len(requests) : requests'[i] = requests[i]
      /\ requests'[Len(requests')] = Request(t, r)
  BY SendAdds
<1>2. requests'[Len(requests')].type = t
  BY <1>1 DEF Request
<1>3. CASE t # "enqueue"
  <2>1. \A i \in 1 .. Len(requests') : requests'[i].type = "enqueue" =>
            i \in 1 .. Len(requests) /\ requests[i].type = "enqueue"
    BY <1>1, <1>2, <1>3
  <2> QED BY <2>1 DEF OneEnqueue
<1>4. CASE t = "enqueue"
  <2>1. \A i \in 1 .. Len(requests') : requests'[i].type = "enqueue" => i = Len(requests')
    BY <1>1, <1>4 DEF Asked
  <2> QED BY <2>1 DEF OneEnqueue
<1> QED BY <1>3, <1>4

\* The jobs are taken once.
LEMMA OneEnqueueTaken ==
  ASSUME NEW t, TypeOK, Handles(t), OneEnqueue
  PROVE  OneEnqueue' /\ (t = "enqueue" => ~Asked("enqueue")')
<1>1. /\ Len(requests) \in Nat \ {0} /\ Len(requests') = Len(requests) - 1
      /\ \A i \in 1 .. Len(requests') : requests'[i] = requests[i + 1]
      /\ requests[1].type = t
  BY HandlesTakes
<1>2. ASSUME NEW i \in 1 .. Len(requests'), NEW k \in 1 .. Len(requests'),
             requests'[i].type = "enqueue", requests'[k].type = "enqueue"
      PROVE  i = k
  <2>1. i + 1 \in 1 .. Len(requests) /\ k + 1 \in 1 .. Len(requests)
    BY <1>1
  <2>2. i + 1 = k + 1
    BY <1>1, <1>2, <2>1 DEF OneEnqueue
  <2> QED BY <2>2
<1>3. ASSUME t = "enqueue", NEW i \in 1 .. Len(requests'), requests'[i].type = "enqueue"
      PROVE  FALSE
  <2>1. i + 1 \in 1 .. Len(requests) /\ 1 \in 1 .. Len(requests) /\ i + 1 # 1
    BY <1>1
  <2> QED BY <1>1, <1>3, <2>1 DEF OneEnqueue
<1> QED BY <1>2, <1>3 DEF OneEnqueue, Asked

\* Steps other than the handover of the jobs bring no job in that was not tried.
Calm ==
    /\ NoJobs => NoJobs'
    /\ Untried' \subseteq Untried
    /\ RetriesHaveFailed'

\* A step that leaves the jobs alone makes none wait.
LEMMA CalmIfKept ==
  ASSUME RetriesHaveFailed, job' = job, out' = out, routes' \subseteq routes
  PROVE  Calm
BY DEF Calm, NoJobs, Untried, RetriesHaveFailed

\* Only an enqueue makes jobs wait for their first attempt.
LEMMA ManagerCalm ==
  ASSUME TypeOK, RetriesHaveFailed, HandleRequest, ~Enqueue, ~EnqueueCancelled
  PROVE  Calm
<1>1. CASE ForgetPlan \/ CancelRunning \/ CancelUnknown \/ RetryWithoutConnection \/ RetryUnknown
  <2>1. job' = job /\ out' = out /\ routes' = routes
    BY <1>1 DEF ForgetPlan, CancelRunning, CancelUnknown, RetryWithoutConnection, RetryUnknown
  <2> QED BY <2>1, CalmIfKept
<1>2. CASE CancelPlan \/ CancelRoot
  <2>1. DoCancelPlan
    BY <1>2 DEF CancelPlan, CancelRoot
  <2>2. /\ routes' = routes
        /\ \A j \in Job : job'[j] = IF job[j] = "queued" THEN "done" ELSE job[j]
        /\ \A j \in Job : job[j] # "queued" => out'[j] = out[j]
    BY <2>1 DEF DoCancelPlan, Queued, TypeOK
  <2>3. Untried' = {}
    BY <2>2 DEF Untried
  <2> QED BY <2>2, <2>3 DEF Calm, NoJobs, RetriesHaveFailed, TypeOK
<1>3. CASE CancelQueued
  <2>1. PICK d \in Job : /\ job[d] = "queued" /\ routes' = routes
                         /\ job' = [job EXCEPT ![d] = "done"]
                         /\ out' = [out EXCEPT ![d] = "skipped"]
    BY <1>3 DEF CancelQueued, Queued
  <2> QED BY <2>1 DEF Calm, NoJobs, Untried, RetriesHaveFailed, TypeOK
<1>4. CASE Retry
  <2>1. PICK d \in Job : /\ d \in routes /\ routes' = routes \ {d} /\ out' = out
                         /\ job' = [job EXCEPT ![d] = "queued"]
    BY <1>4 DEF Retry, TypeOK
  <2>2. job[d] = "done" /\ out[d] = "failed"
    BY <2>1 DEF RetriesHaveFailed
  <2> QED BY <2>1, <2>2 DEF Calm, NoJobs, Untried, RetriesHaveFailed, TypeOK
<1> QED BY <1>1, <1>2, <1>3, <1>4 DEF HandleRequest

\* A job's own steps make none wait for its first attempt.
LEMMA JobCalm ==
  ASSUME TypeOK, RetriesHaveFailed, NEW d \in Job, JobStep(d) \/ MakeProgress(d)
  PROVE  Calm
<1>1. CASE StartJob(d) \/ AskConflict(d) \/ BeginWork(d)
  <2>1. /\ routes' = routes /\ out' = out /\ job[d] \notin {"none", "done"}
        /\ \E s \in {"opening", "asking", "working"} : job' = [job EXCEPT ![d] = s]
    BY <1>1 DEF StartJob, AskConflict, BeginWork, JobTask
  <2> QED BY <2>1 DEF Calm, NoJobs, Untried, RetriesHaveFailed, TypeOK
<1>2. CASE MakeProgress(d)
  BY <1>2, CalmIfKept DEF MakeProgress, JobTask
<1>3. CASE EndAttempt(d)
  <2>1. /\ routes' = routes /\ job' = [job EXCEPT ![d] = "ended"] /\ job[d] \notin {"none", "done"}
        /\ \A k \in Job : k # d => out'[k] = out[k]
    BY <1>3 DEF EndAttempt, Outcomes, JobTask, TypeOK
  <2> QED BY <2>1 DEF Calm, NoJobs, Untried, RetriesHaveFailed, TypeOK
<1>4. CASE HandleCompleted(d)
  <2>1. /\ out' = out /\ job' = [job EXCEPT ![d] = "done"] /\ job[d] = "ended"
        /\ routes' = IF out[d] = "failed" THEN routes \cup {d} ELSE routes \ {d}
    BY <1>4 DEF HandleCompleted
  <2> QED BY <2>1 DEF Calm, NoJobs, Untried, RetriesHaveFailed, TypeOK
<1> QED BY <1>1, <1>2, <1>3, <1>4 DEF JobStep

\* Neither do the user's.
LEMMA UserCalm ==
  ASSUME TypeOK, RetriesHaveFailed, UserStep
  PROVE  Calm
<1>1. ASSUME NEW d \in Job, NEW all \in BOOLEAN, ResolveConflict(d, all)
      PROVE  Calm
  <2>1. /\ out' = out /\ routes' = routes
        /\ \A k \in Job : job'[k] = job[k] \/ (job[k] = "asking" /\ job'[k] = "answered")
    BY <1>1 DEF ResolveConflict, TypeOK
  <2> QED BY <2>1 DEF Calm, NoJobs, Untried, RetriesHaveFailed, TypeOK
<1>2. CASE \/ \E r \in Rows : CancelTransfer(r)
           \/ \E j \in Job : RetryTransfer(j)
           \/ ClearTerminal
  <2>1. job' = job /\ out' = out /\ routes' = routes
    BY <1>2 DEF CancelTransfer, RetryTransfer, ClearTerminal, manager
  <2> QED BY <2>1, CalmIfKept
<1> QED BY <1>1, <1>2 DEF UserStep

\* The guard is in place from the start of planning to the end of the handoff.
LEMMA GuardStep ==
  ASSUME TypeOK, GuardInPlace, [Next]_vars
  PROVE  GuardInPlace'
<1>1. CASE StartTransfer \/ PlannerStep
  BY <1>1 DEF GuardInPlace, PlannerStep, StartTransfer, EmitChild, PlannerCancelled, PlannerFails,
     PlanningDropped, FinishFlush, FinishComplete, NothingPlanned, HandoffCancelled,
     HandoffFails, SendEnqueue, TakePlanningGuard
<1>2. CASE HandleRequest
  <2>1. \E t : Handles(t)
    BY <1>2 DEF HandleRequest, EnqueueCancelled, Enqueue, ForgetPlan, CancelPlan, CancelRoot,
     CancelQueued, CancelRunning, CancelUnknown, Retry, RetryWithoutConnection, RetryUnknown
  <2> QED BY <2>1 DEF Handles, planner, GuardInPlace
<1>3. ASSUME NEW j \in Job, JobStep(j) \/ MakeProgress(j)
      PROVE  GuardInPlace'
  BY <1>3 DEF JobStep, StartJob, AskConflict, BeginWork, EndAttempt, HandleCompleted, MakeProgress,
     JobTask, planner, GuardInPlace
<1>4. CASE ApplyEvent \/ UserStep \/ UNCHANGED vars
  BY <1>4 DEF ApplyEvent, UserStep, CancelTransfer, RetryTransfer, ResolveConflict, ClearTerminal,
     vars, planner, GuardInPlace
<1> QED BY <1>1, <1>2, <1>3, <1>4 DEF Next

\* Planner and handoff task send the jobs first and the cancel behind them.
LEMMA PlannerHandoff ==
  ASSUME HandoffInv, StartTransfer \/ PlannerStep
  PROVE  HandedOverOnce' /\ CancelFollows' /\ RetriesHaveFailed'
<1>0. TypeOK /\ HandedOverOnce /\ CancelFollows /\ RetriesHaveFailed
  BY DEF HandoffInv
<1>1. CASE \/ StartTransfer \/ EmitChild \/ PlannerCancelled \/ PlannerFails \/ PlanningDropped
           \/ FinishFlush \/ FinishComplete
  <2>1. /\ requests' = requests /\ job' = job /\ out' = out /\ routes' = routes
        /\ pc \notin {"sent", "over"} /\ pc' \notin {"sent", "over"}
    BY <1>1 DEF StartTransfer, EmitChild, PlannerCancelled, PlannerFails, PlanningDropped,
       FinishFlush, FinishComplete, manager
  <2> QED BY <1>0, <2>1
          DEF HandedOverOnce, CancelFollows, RetriesHaveFailed, Asked, NoJobs, OneEnqueue
<1>2. CASE NothingPlanned \/ HandoffCancelled \/ HandoffFails
  <2>1. /\ pc \notin {"sent", "over"} /\ pc' = "over" /\ Send("forget", Root)
    BY <1>2 DEF NothingPlanned, HandoffCancelled, HandoffFails
  <2>2. Request("forget", Root) \in RequestRecords
    BY RequestForms
  <2>3. ~Asked("enqueue") /\ NoJobs /\ OneEnqueue
    BY <1>0, <2>1 DEF HandedOverOnce
  <2>4. ~Asked("enqueue")' /\ OneEnqueue'
    BY <1>0, <2>1, <2>2, <2>3, SendAsked, OneEnqueueSent
  <2>5. CancelBehindJobs'
    BY <2>4 DEF CancelBehindJobs, Asked
  <2>6. RetriesHaveFailed' /\ Untried' = {}
    <3>1. routes = {} /\ routes' = routes
      BY <1>0, <1>2, <2>3 DEF RetriesHaveFailed, NoJobs, TypeOK, NothingPlanned, HandoffCancelled,
         HandoffFails, manager
    <3>2. \A j \in Job : job'[j] # "queued"
      BY <1>0, <1>2, <2>3 DEF NoJobs, TypeOK, NothingPlanned, HandoffCancelled,
         HandoffFails, manager
    <3> QED BY <3>1, <3>2 DEF RetriesHaveFailed, Untried
  <2> QED BY <2>1, <2>4, <2>5, <2>6 DEF HandedOverOnce, CancelFollows
<1>3. CASE SendEnqueue
  <2>1. /\ pc = "planned" /\ pc' = "sent" /\ Send("enqueue", Root)
        /\ job' = job /\ routes' = routes /\ out' = out
    BY <1>3 DEF SendEnqueue, manager
  <2>2. Request("enqueue", Root) \in RequestRecords
    BY RequestForms
  <2>3. ~Asked("enqueue") /\ ~Asked("cancelPlan") /\ NoJobs /\ OneEnqueue
    BY <1>0, <2>1 DEF HandedOverOnce
  <2>4. ~Asked("cancelPlan")' /\ OneEnqueue'
    BY <1>0, <2>1, <2>2, <2>3, SendAsked, OneEnqueueSent
  <2> QED BY <1>0, <2>1, <2>3, <2>4
          DEF HandedOverOnce, CancelFollows, RetriesHaveFailed, NoJobs
<1>4. CASE TakePlanningGuard
  <2>1. /\ pc = "sent" /\ pc' = "over" /\ token' = token
        /\ job' = job /\ routes' = routes /\ out' = out
        /\ IF token THEN Send("cancelPlan", Root) ELSE requests' = requests
    BY <1>4 DEF TakePlanningGuard, manager
  <2>2. Request("cancelPlan", Root) \in RequestRecords
    BY RequestForms
  <2>3. CASE token
    <3>1. /\ Asked("cancelPlan")' /\ (Asked("enqueue")' <=> Asked("enqueue"))
          /\ CancelBehindJobs'
      BY <1>0, <2>1, <2>2, <2>3, SendAsked
    <3>2. OneEnqueue'
      BY <1>0, <2>1, <2>2, <2>3, OneEnqueueSent DEF HandedOverOnce
    <3> QED BY <1>0, <2>1, <3>1, <3>2
            DEF HandedOverOnce, CancelFollows, RetriesHaveFailed, NoJobs
  <2>4. CASE ~token
    BY <1>0, <2>1, <2>4
       DEF HandedOverOnce, CancelFollows, RetriesHaveFailed, Asked, NoJobs, OneEnqueue
  <2> QED BY <2>3, <2>4
<1> QED BY <1>1, <1>2, <1>3, <1>4 DEF PlannerStep

\* The manager takes them in this order; recorded cancels keep jobs from waiting.
LEMMA ManagerHandoff ==
  ASSUME HandoffInv, HandleRequest
  PROVE  HandedOverOnce' /\ CancelFollows' /\ RetriesHaveFailed'
<1>0. TypeOK /\ HandedOverOnce /\ CancelFollows /\ RetriesHaveFailed /\ OneEnqueue
  BY DEF HandoffInv, HandedOverOnce
<1>1. PICK t : /\ Handles(t)
               /\ Enqueue \/ EnqueueCancelled => t = "enqueue"
               /\ t = "cancelPlan" => CancelPlan
  BY DEF HandleRequest, EnqueueCancelled, Enqueue, ForgetPlan, CancelPlan, CancelRoot,
     CancelQueued, CancelRunning, CancelUnknown, Retry, RetryWithoutConnection, RetryUnknown
<1>2. /\ Asked(t) /\ \A u : Asked(u)' => Asked(u)
      /\ \A u : u # t /\ Asked(u) => Asked(u)'
      /\ CancelBehindJobs => CancelBehindJobs'
      /\ t = "enqueue" /\ CancelBehindJobs => Asked("cancelPlan")'
  BY <1>0, <1>1, TakeAsked
<1>3. OneEnqueue' /\ (t = "enqueue" => ~Asked("enqueue")')
  BY <1>0, <1>1, OneEnqueueTaken
<1>4. pc' = pc /\ token' = token
  BY <1>1 DEF Handles, planner
<1>5. CASE Enqueue \/ EnqueueCancelled
  <2>1. t = "enqueue" /\ pc \in {"sent", "over"} /\ NoJobs
    BY <1>0, <1>1, <1>2, <1>5 DEF HandedOverOnce
  <2>2. routes = {} /\ routes' = routes
    BY <1>0, <1>5, <2>1 DEF RetriesHaveFailed, NoJobs, TypeOK, Enqueue, EnqueueCancelled
  <2>3. pc = "over" /\ token => CancelBehindJobs' /\ Asked("cancelPlan")'
    BY <1>0, <1>2, <2>1 DEF CancelFollows
  <2> QED BY <1>0, <1>2, <1>3, <1>4, <2>1, <2>2, <2>3
          DEF HandedOverOnce, CancelFollows, RetriesHaveFailed
<1>6. CASE ~(Enqueue \/ EnqueueCancelled)
  <2>1. Calm
    BY <1>0, <1>6, ManagerCalm
  <2>2. t = "cancelPlan" => Untried' = {}
    <3> SUFFICES ASSUME t = "cancelPlan" PROVE Untried' = {}
      OBVIOUS
    <3>1. DoCancelPlan
      BY <1>1 DEF CancelPlan
    <3>2. \A j \in Job : job'[j] # "queued"
      BY <1>0, <3>1 DEF DoCancelPlan, Queued, TypeOK
    <3> QED BY <3>2 DEF Untried
  <2>3. HandedOverOnce'
    BY <1>0, <1>2, <1>3, <1>4, <2>1 DEF HandedOverOnce, Calm
  <2>4. CancelFollows'
    BY <1>0, <1>2, <1>4, <2>1, <2>2 DEF CancelFollows, Calm
  <2> QED BY <2>1, <2>3, <2>4 DEF Calm
<1> QED BY <1>5, <1>6

\* A step that brings no jobs, and at most a request of the user.
LEMMA OtherHandoff ==
  ASSUME HandoffInv, Calm, pc' = pc, pc = "over" => token' = token,
         \/ requests' = requests
         \/ \E t \in {"cancel", "retry"}, r \in Rows : Send(t, r)
  PROVE  HandedOverOnce' /\ CancelFollows' /\ RetriesHaveFailed'
<1>0. TypeOK /\ HandedOverOnce /\ CancelFollows /\ RetriesHaveFailed /\ OneEnqueue
  BY DEF HandoffInv, HandedOverOnce
<1>1. /\ \A u \in {"enqueue", "cancelPlan"} : Asked(u)' <=> Asked(u)
      /\ CancelBehindJobs => CancelBehindJobs'
      /\ OneEnqueue'
  <2>1. CASE requests' = requests
    BY <1>0, <2>1 DEF Asked, CancelBehindJobs, OneEnqueue
  <2>2. ASSUME NEW t \in {"cancel", "retry"}, NEW r \in Rows, Send(t, r)
        PROVE  /\ \A u \in {"enqueue", "cancelPlan"} : Asked(u)' <=> Asked(u)
               /\ CancelBehindJobs => CancelBehindJobs'
               /\ OneEnqueue'
    <3>1. Request(t, r) \in RequestRecords
      BY RequestForms
    <3> QED BY <1>0, <2>2, <3>1, SendAsked, OneEnqueueSent
  <2> QED BY <2>1, <2>2
<1>2. HandedOverOnce'
  BY <1>0, <1>1 DEF HandedOverOnce, Calm
<1>3. CancelFollows'
  BY <1>0, <1>1 DEF CancelFollows, Calm
<1> QED BY <1>2, <1>3 DEF Calm

\* Every step keeps the handoff in order.
LEMMA HandoffStep ==
  ASSUME HandoffInv, [Next]_vars
  PROVE  HandoffInv'
<1>0. TypeOK /\ GuardInPlace /\ RetriesHaveFailed
  BY DEF HandoffInv
<1>1. TypeOK' /\ GuardInPlace'
  BY <1>0, Typed, GuardStep
<1>2. CASE StartTransfer \/ PlannerStep
  BY <1>1, <1>2, PlannerHandoff DEF HandoffInv
<1>3. CASE HandleRequest
  BY <1>1, <1>3, ManagerHandoff DEF HandoffInv
<1>4. ASSUME NEW j \in Job, JobStep(j) \/ MakeProgress(j)
      PROVE  HandoffInv'
  <2>1. pc' = pc /\ token' = token /\ requests' = requests
    BY <1>4 DEF JobStep, StartJob, AskConflict, BeginWork, EndAttempt, HandleCompleted,
       MakeProgress, JobTask, planner
  <2> QED BY <1>0, <1>1, <1>4, <2>1, JobCalm, OtherHandoff DEF HandoffInv
<1>5. CASE ApplyEvent \/ UNCHANGED vars
  <2>1. /\ pc' = pc /\ token' = token /\ requests' = requests
        /\ job' = job /\ out' = out /\ routes' = routes
    BY <1>5 DEF ApplyEvent, vars, planner, manager
  <2>2. Calm
    BY <1>0, <2>1, CalmIfKept
  <2> QED BY <1>1, <2>1, <2>2, OtherHandoff DEF HandoffInv
<1>6. CASE UserStep
  <2>1. /\ pc' = pc
        /\ pc = "over" => token' = token
    BY <1>0, <1>6 DEF UserStep, CancelTransfer, RetryTransfer, ResolveConflict, ClearTerminal,
       planner, GuardInPlace
  <2>2. \/ requests' = requests
        \/ \E t \in {"cancel", "retry"}, r \in Rows : Send(t, r)
    BY <1>6 DEF UserStep, CancelTransfer, RetryTransfer, ResolveConflict, ClearTerminal, Rows
  <2> QED BY <1>0, <1>1, <1>6, <2>1, <2>2, UserCalm, OtherHandoff DEF HandoffInv
<1> QED BY <1>2, <1>3, <1>4, <1>5, <1>6 DEF Next

\* At first nothing was handed over.
LEMMA HandoffInit == Init => HandoffInv
<1> SUFFICES ASSUME Init PROVE HandoffInv
  OBVIOUS
<1>1. TypeOK
  BY InitTyped
<1>2. Len(requests) = 0 /\ pc = "idle" /\ guard = FALSE /\ routes = {} /\ NoJobs
  BY DEF Init, NoJobs
<1> QED BY <1>1, <1>2 DEF HandoffInv, GuardInPlace, HandedOverOnce, CancelFollows,
           RetriesHaveFailed, Asked, OneEnqueue

\* Planner, handoff task, manager and user keep the handoff in order: the guard is in
\* place until the jobs were sent, and a cancel it took follows them.
THEOREM HandoffInvariance == Spec => []HandoffInv
BY HandoffInit, HandoffStep, PTL DEF Spec

\* A cancel that the planning token took leaves no job of the plan waiting for its
\* first attempt (take_planning_guard, enqueue, cancel_plan).
THEOREM PlanningCancelAlwaysWins == Spec => []PlanningCancelWins
<1>1. HandoffInv => PlanningCancelWins
  <2> SUFFICES ASSUME HandoffInv, pc = "over", token, requests = <<>>, NEW j \in Queued
               PROVE  out[j] # "none"
    BY DEF PlanningCancelWins
  <2>1. ~Asked("cancelPlan")
    BY DEF Asked
  <2>2. Untried = {}
    BY <2>1 DEF HandoffInv, CancelFollows
  <2> QED BY <2>2 DEF Untried, Queued
<1> QED BY <1>1, HandoffInvariance, PTL

-----------------------------------------------------------------------------
(* The dialogs. *)

\* Events that ask nothing of the job leave its dialog with its end.
LEMMA DialogKept ==
  ASSUME NEW j \in Job, DialogEnds(j), NEW E, Extends(events, events', EventRecords, E),
         conflicts' \subseteq conflicts,
         \A e \in E : ~(e.type = "conflict" /\ e.ids = {j})
  PROVE  DialogEnds(j)'
<1>1. /\ Len(events) \in Nat /\ Len(events') \in Nat /\ Len(events) <= Len(events')
      /\ \A i \in 1 .. Len(events) : events'[i] = events[i]
      /\ \A i \in (Len(events) + 1) .. Len(events') : events'[i] \in E
  BY DEF Extends
<1>2. \A k \in 1 .. Len(events) : EndsAt(k, j) => k \in 1 .. Len(events') /\ EndsAt(k, j)'
  BY <1>1 DEF EndsAt
<1>3. ASSUME j \in conflicts'
      PROVE  \E k \in 1 .. Len(events') : EndsAt(k, j)'
  <2>1. PICK k \in 1 .. Len(events) : EndsAt(k, j)
    BY <1>3 DEF DialogEnds
  <2> QED BY <1>2, <2>1
<1>4. ASSUME NEW i \in 1 .. Len(events'), events'[i].type = "conflict" /\ events'[i].ids = {j}
      PROVE  \E k \in 1 .. Len(events') : k > i /\ EndsAt(k, j)'
  <2>1. i \in 1 .. Len(events) \/ i \in (Len(events) + 1) .. Len(events')
    BY <1>1
  <2>2. i \in 1 .. Len(events) /\ events[i].type = "conflict" /\ events[i].ids = {j}
    BY <1>1, <1>4, <2>1
  <2>3. PICK k \in 1 .. Len(events) : k > i /\ EndsAt(k, j)
    BY <2>2 DEF DialogEnds
  <2> QED BY <1>2, <2>3
<1> QED BY <1>3, <1>4 DEF DialogEnds

\* So does a step that sends nothing.
LEMMA DialogSame ==
  ASSUME NEW j \in Job, DialogEnds(j), events' = events, conflicts' \subseteq conflicts
  PROVE  DialogEnds(j)'
BY DEF DialogEnds, EndsAt

\* The event that ends an attempt is behind everything the attempt has sent.
LEMMA DialogClosed ==
  ASSUME NEW j \in Job, NEW r \in Final, Adds(r, {j})
  PROVE  DialogEnds(j)'
<1>1. Len(events) \in Nat /\ Len(events') = Len(events) + 1
  BY DEF Adds, Extends
<1>2. PICK n \in Nat \ {0} : n = Len(events')
  BY <1>1
<1>3. n \in 1 .. Len(events') /\ EndsAt(n, j)'
  BY <1>2 DEF Adds, Event, EndsAt
<1>4. \A i \in 1 .. Len(events') : events'[i].type = "conflict" => i < n
  BY <1>2 DEF Adds, Event, Final
<1> QED BY <1>3, <1>4 DEF DialogEnds

\* So does an event of another kind or of another job.
LEMMA DialogAdds ==
  ASSUME NEW j \in Job, DialogEnds(j), NEW t, NEW T, Adds(t, T), conflicts' \subseteq conflicts,
         t # "conflict" \/ T # {j}
  PROVE  DialogEnds(j)'
<1> DEFINE e == Event(t, T)
<1>1. ~(e.type = "conflict" /\ e.ids = {j})
  BY DEF Event
<1>2. Extends(events, events', EventRecords, {e})
  BY DEF Adds
<1> HIDE DEF e
<1> QED BY <1>1, <1>2, DialogKept

\* So do the events of several jobs.
LEMMA DialogMany ==
  ASSUME NEW j \in Job, DialogEnds(j), NEW t, NEW T, t # "conflict", conflicts' \subseteq conflicts,
         Extends(events, events', EventRecords, {Event(t, {k}) : k \in T})
  PROVE  DialogEnds(j)'
<1> DEFINE E == {Event(t, {k}) : k \in T}
<1>1. \A e \in E : ~(e.type = "conflict" /\ e.ids = {j})
  BY DEF Event
<1>2. Extends(events, events', EventRecords, E)
  OBVIOUS
<1> HIDE DEF E
<1> QED BY <1>1, <1>2, DialogKept

\* The planner opens no dialog.
LEMMA PlannerDialogs ==
  ASSUME HandoffInv, DialogsEnd, StartTransfer \/ PlannerStep
  PROVE  DialogsEnd'
<1>0. TypeOK
  BY DEF HandoffInv
<1>1. conflicts' = conflicts
  BY DEF PlannerStep, StartTransfer, EmitChild, PlannerCancelled, PlannerFails,
     PlanningDropped, FinishFlush, FinishComplete, NothingPlanned, HandoffCancelled,
     HandoffFails, SendEnqueue, TakePlanningGuard, store
<1>2. CASE HandoffFails
  <2>1. \A j \in Job : job[j] = "none"
    BY <1>2 DEF HandoffInv, HandedOverOnce, HandoffFails, NoJobs
  <2>2. Busy = {}
    BY <2>1 DEF Busy
  <2>3. Extends(events, events', EventRecords, {Event("failedFinal", {j}) : j \in 1 .. emitted})
    BY <1>0, <1>2, HandoffReports
  <2> QED BY <1>1, <2>2, <2>3, DialogMany DEF DialogsEnd
<1>3. CASE ~HandoffFails
  <2>1. Busy' = Busy
    BY <1>3 DEF PlannerStep, StartTransfer, EmitChild, PlannerCancelled, PlannerFails,
       PlanningDropped, FinishFlush, FinishComplete, NothingPlanned, HandoffCancelled,
       SendEnqueue, TakePlanningGuard, manager, Busy
  <2>2. events' = events \/ \E t, T : t # "conflict" /\ Adds(t, T)
    BY <1>0, <1>3, PlannerEvents DEF PlannerStep
  <2>3. ASSUME NEW j \in Job \ Busy
        PROVE  DialogEnds(j)'
    BY <1>1, <2>2, DialogSame, DialogAdds DEF DialogsEnd
  <2> QED BY <2>1, <2>3 DEF DialogsEnd
<1> QED BY <1>2, <1>3

\* The manager opens none and sends the end of those it stops.
LEMMA ManagerDialogs ==
  ASSUME HandoffInv, DialogsEnd, HandleRequest
  PROVE  DialogsEnd'
<1>0. TypeOK
  BY DEF HandoffInv
<1>1. PICK t : Handles(t) /\ (Enqueue \/ EnqueueCancelled => t = "enqueue")
  BY DEF HandleRequest, EnqueueCancelled, Enqueue, ForgetPlan, CancelPlan, CancelRoot,
     CancelQueued, CancelRunning, CancelUnknown, Retry, RetryWithoutConnection, RetryUnknown
<1>2. conflicts' = conflicts
  BY <1>1 DEF Handles, store
<1>3. CASE Enqueue \/ EnqueueCancelled
  <2>1. NoJobs
    BY <1>0, <1>1, <1>3, TakeAsked DEF HandoffInv, HandedOverOnce
  <2>2. Busy = {}
    BY <2>1 DEF Busy, NoJobs
  <2>3. ASSUME NEW j \in Job
        PROVE  DialogEnds(j)'
    <3>1. DialogEnds(j)
      BY <2>2 DEF DialogsEnd
    <3>2. CASE Enqueue
      BY <1>0, <1>2, <3>1, <3>2, EnqueueReports, DialogMany
    <3>3. CASE EnqueueCancelled
      BY <1>0, <1>2, <3>1, <3>3, ManagerEvents, DialogAdds
    <3> QED BY <1>3, <3>2, <3>3
  <2> QED BY <2>3 DEF DialogsEnd
<1>4. CASE ~(Enqueue \/ EnqueueCancelled)
  <2>1. \A j \in Job \ Busy' : j \in Job \ Busy
    <3>1. CASE CancelPlan \/ CancelRoot
      BY <1>0, <3>1 DEF CancelPlan, CancelRoot, DoCancelPlan, Queued, Busy, TypeOK
    <3>2. CASE CancelQueued
      BY <1>0, <3>2 DEF CancelQueued, Queued, Busy, TypeOK
    <3>3. CASE Retry
      <4>1. PICK d \in Job : job[d] = "done" /\ job' = [job EXCEPT ![d] = "queued"]
        BY <1>0, <3>3 DEF Retry, HandoffInv, RetriesHaveFailed, TypeOK
      <4> QED BY <1>0, <4>1 DEF Busy, TypeOK
    <3> QED BY <1>4, <3>1, <3>2, <3>3 DEF HandleRequest, ForgetPlan, CancelRunning, CancelUnknown,
               RetryWithoutConnection, RetryUnknown, Busy
  <2>2. events' = events \/ \E u, T : u # "conflict" /\ Adds(u, T)
    BY <1>0, <1>4, ManagerEvents DEF HandleRequest, CancelPlan, CancelRoot
  <2>3. ASSUME NEW j \in Job \ Busy
        PROVE  DialogEnds(j)'
    BY <1>2, <2>2, DialogSame, DialogAdds DEF DialogsEnd
  <2> QED BY <2>1, <2>3 DEF DialogsEnd
<1> QED BY <1>3, <1>4

\* A job that asks is busy, and it ends with an event.
LEMMA JobDialogs ==
  ASSUME TypeOK, DialogsEnd, NEW d \in Job, JobStep(d) \/ MakeProgress(d)
  PROVE  DialogsEnd'
<1>1. conflicts' = conflicts /\ \A k \in Job : k # d => job'[k] = job[k]
  BY DEF JobStep, StartJob, AskConflict, BeginWork, EndAttempt, HandleCompleted, MakeProgress,
     JobTask, store, TypeOK
<1>2. \/ events' = events
      \/ \E t \in {"conflict", "running", "moved"} \cup Final : Adds(t, {d})
  BY JobEventsOf DEF JobStep
<1>3. ASSUME NEW j \in Job \ Busy', j # d
      PROVE  DialogEnds(j)'
  <2>1. j \notin Busy /\ {d} # {j}
    BY <1>1, <1>3 DEF Busy
  <2>2. DialogEnds(j)
    BY <2>1 DEF DialogsEnd
  <2> QED BY <1>1, <1>2, <2>1, <2>2, DialogSame, DialogAdds
<1>4. ASSUME d \notin Busy'
      PROVE  DialogEnds(d)'
  <2>1. EndAttempt(d) \/ HandleCompleted(d)
    BY <1>4 DEF JobStep, StartJob, AskConflict, BeginWork, MakeProgress, Busy, TypeOK
  <2>2. CASE EndAttempt(d)
    BY <2>2, JobEventsOf, DialogClosed
  <2>3. CASE HandleCompleted(d)
    <3>1. DialogEnds(d)
      BY <2>3 DEF HandleCompleted, Busy, DialogsEnd
    <3> QED BY <1>1, <2>3, <3>1, DialogSame DEF HandleCompleted
  <2> QED BY <2>1, <2>2, <2>3
<1> QED BY <1>3, <1>4 DEF DialogsEnd

\* The store opens a dialog for a question and closes it for an end.
LEMMA StoreDialogs ==
  ASSUME TypeOK, DialogsEnd, ApplyEvent
  PROVE  DialogsEnd'
<1>1. /\ Len(events) \in Nat \ {0} /\ Len(events') = Len(events) - 1
      /\ \A i \in 1 .. Len(events') : events'[i] = events[i + 1]
      /\ events[1] \in EventRecords /\ Reduce(events[1])
  BY StoreTakes
<1>2. Busy' = Busy
  BY DEF ApplyEvent, manager, Busy
<1>3. \/ conflicts' = conflicts /\ events[1].type \notin Final
      \/ \E d \in Job : events[1].type = "conflict" /\ events[1].ids = {d} /\ conflicts' = conflicts \cup {d}
      \/ \E d \in Job : events[1].ids = {d} /\ conflicts' = conflicts \ {d}
  <2> DEFINE e == events[1]
  <2>1. ASSUME NEW d \in Job, e = Event("conflict", {d}), ApplyConflict(d)
        PROVE  e.type = "conflict" /\ e.ids = {d} /\ conflicts' = conflicts \cup {d}
    BY <2>1 DEF Event, ApplyConflict
  <2>2. ASSUME NEW d \in Job, NEW t \in Final, e = Event(t, {d}), SetTransferTerminal(d, t)
        PROVE  e.ids = {d} /\ conflicts' = conflicts \ {d}
    BY <2>2 DEF Event, SetTransferTerminal
  <2>3. ASSUME NEW t \in {"started", "progress", "running", "moved"} \cup PlanEvents, NEW T, e = Event(t, T)
        PROVE  e.type \notin Final
    BY <2>3 DEF Event, Final, PlanEvents
  <2>4. ApplyStarted \/ ApplyPlanCompleted \/ SetPlanCancelled => conflicts' = conflicts
    BY DEF ApplyStarted, ApplyPlanCompleted, SetPlanCancelled
  <2>5. \A t : SetPlanFailed(t) \/ ApplyProgress(t) \/ ApplyRunning(t) \/ ApplyMoved(t)
                 => conflicts' = conflicts
    BY DEF SetPlanFailed, ApplyProgress, ApplyRunning, ApplyMoved
  <2>6. e \in EventRecords /\ Reduce(e)
    BY <1>1
  <2> HIDE DEF e
  <2>7. \/ conflicts' = conflicts /\ e.type \notin Final
        \/ \E d \in Job : e.type = "conflict" /\ e.ids = {d} /\ conflicts' = conflicts \cup {d}
        \/ \E d \in Job : e.ids = {d} /\ conflicts' = conflicts \ {d}
    BY <2>1, <2>2, <2>3, <2>4, <2>5, <2>6, ReduceCases DEF PlanEvents
  <2> QED BY <2>7 DEF e
<1>4. ASSUME NEW j \in Job \ Busy
      PROVE  DialogEnds(j)'
  <2>0. DialogEnds(j)
    BY DEF DialogsEnd
  <2>1. \A k \in 1 .. Len(events) : k > 1 /\ EndsAt(k, j)
            => k - 1 \in 1 .. Len(events') /\ EndsAt(k - 1, j)'
    BY <1>1 DEF EndsAt
  <2>2. ASSUME NEW i \in 1 .. Len(events'), events'[i].type = "conflict" /\ events'[i].ids = {j}
        PROVE  \E k \in 1 .. Len(events') : k > i /\ EndsAt(k, j)'
    <3>1. i + 1 \in 1 .. Len(events) /\ events[i + 1].type = "conflict" /\ events[i + 1].ids = {j}
      BY <1>1, <2>2
    <3>2. PICK k \in 1 .. Len(events) : k > i + 1 /\ EndsAt(k, j)
      BY <2>0, <3>1 DEF DialogEnds
    <3>3. k - 1 \in 1 .. Len(events') /\ k - 1 > i /\ EndsAt(k - 1, j)'
      BY <2>1, <3>2
    <3> QED BY <3>3
  <2>3. ASSUME j \in conflicts'
        PROVE  \E k \in 1 .. Len(events') : EndsAt(k, j)'
    <3>1. \E k \in 1 .. Len(events) : k > 1 /\ EndsAt(k, j)
      <4>1. CASE events[1].type = "conflict" /\ events[1].ids = {j}
        BY <1>1, <2>0, <4>1 DEF DialogEnds
      <4>2. CASE ~(events[1].type = "conflict" /\ events[1].ids = {j})
        <5>1. j \in conflicts /\ ~EndsAt(1, j)
          BY <1>3, <2>3, <4>2 DEF EndsAt
        <5> QED BY <2>0, <5>1 DEF DialogEnds
      <4> QED BY <4>1, <4>2
    <3> QED BY <2>1, <3>1
  <2> QED BY <2>2, <2>3 DEF DialogEnds
<1> QED BY <1>2, <1>4 DEF DialogsEnd

\* The user closes dialogs and opens none.
LEMMA UserDialogs ==
  ASSUME TypeOK, DialogsEnd, UserStep \/ UNCHANGED vars
  PROVE  DialogsEnd'
<1>1. events' = events /\ conflicts' \subseteq conflicts
  BY DEF UserStep, CancelTransfer, RetryTransfer, ResolveConflict, ClearTerminal, vars, store
<1>2. Busy' = Busy
  BY DEF UserStep, CancelTransfer, RetryTransfer, ResolveConflict, ClearTerminal, vars, manager,
     Busy, TypeOK
<1> QED BY <1>1, <1>2, DialogSame DEF DialogsEnd

\* No dialog stays for a job that is over once the events are applied: the end of an
\* attempt is behind its question in the channel (set_transfer_terminal).
THEOREM ConflictsAlwaysLive == Spec => []ConflictsAreLive
<1>1. Init => DialogsEnd
  <2> SUFFICES ASSUME Init PROVE DialogsEnd
    OBVIOUS
  <2>1. Len(events) = 0 /\ conflicts = {}
    BY DEF Init
  <2> QED BY <2>1 DEF DialogsEnd, DialogEnds
<1>2. HandoffInv /\ DialogsEnd /\ [Next]_vars => DialogsEnd'
  <2>1. HandoffInv => TypeOK
    BY DEF HandoffInv
  <2> QED BY <2>1, PlannerDialogs, ManagerDialogs, JobDialogs, StoreDialogs, UserDialogs DEF Next
<1>3. HandoffInv /\ DialogsEnd => ConflictsAreLive
  <2> SUFFICES ASSUME HandoffInv, DialogsEnd, events = <<>>, NEW j \in conflicts
               PROVE  j \in Running
    BY DEF ConflictsAreLive
  <2>1. j \in Job
    BY DEF HandoffInv, TypeOK
  <2>2. j \in Busy
    BY <2>1 DEF DialogsEnd, DialogEnds
  <2> QED BY <2>2 DEF Busy, Running
<1> QED BY <1>1, <1>2, <1>3, HandoffInvariance, PTL DEF Spec

-----------------------------------------------------------------------------
(* The rows. Steps that add to the event channel, or leave it alone. *)

\* A channel that stays as it is has nothing new.
LEMMA SameExtends ==
  ASSUME TypeOK, events' = events
  PROVE  Extends(events, events', EventRecords, {})
BY DEF TypeOK, Extends

\* The places of a channel to which events were added.
LEMMA GrownIndex ==
  ASSUME NEW E, Extends(events, events', EventRecords, E)
  PROVE  /\ Len(events) \in Nat /\ Len(events') \in Nat /\ Len(events) <= Len(events')
         /\ \A i \in 1 .. Len(events) : i \in 1 .. Len(events') /\ events'[i] = events[i]
         /\ \A i \in 1 .. Len(events') : \/ i \in 1 .. Len(events) /\ events'[i] = events[i]
                                         \/ i > Len(events) /\ events'[i] \in E
BY DEF Extends

\* The types under way after events were added.
LEMMA QueueGrows ==
  ASSUME NEW E, Extends(events, events', EventRecords, E), NEW T
  PROVE  /\ InQueue(T) => InQueue(T)'
         /\ (\A e \in E : e.type \notin T) => (InQueue(T)' => InQueue(T))
<1>1. InQueue(T) => InQueue(T)'
  BY GrownIndex DEF InQueue
<1>2. ASSUME \A e \in E : e.type \notin T, InQueue(T)'
      PROVE  InQueue(T)
  <2>1. PICK i \in 1 .. Len(events') : events'[i].type \in T
    BY <1>2 DEF InQueue
  <2> QED BY <1>2, <2>1, GrownIndex DEF InQueue
<1> QED BY <1>1, <1>2

\* Only a progress event announces files.
LEMMA AnnouncedGrows ==
  ASSUME NEW E, Extends(events, events', EventRecords, E), \A e \in E : e.type # "progress", NEW j
  PROVE  Announced(j)' <=> Announced(j)
<1>1. ASSUME Announced(j) PROVE Announced(j)'
  <2>1. PICK i \in 1 .. Len(events) : events[i].type = "progress" /\ j \in events[i].ids
    BY <1>1 DEF Announced
  <2> QED BY <2>1, GrownIndex DEF Announced
<1>2. ASSUME Announced(j)' PROVE Announced(j)
  <2>1. PICK i \in 1 .. Len(events') : events'[i].type = "progress" /\ j \in events'[i].ids
    BY <1>2 DEF Announced
  <2> QED BY <2>1, GrownIndex DEF Announced
<1> QED BY <1>1, <1>2

\* The phase in which the planner reports files.
Early == {"idle", "planning", "finishing"}

\* After planning, events are added behind those of planning.
LEMMA PlanningFirstGrows ==
  ASSUME TypeOK, PlanningComesFirst, NEW E, Extends(events, events', EventRecords, E),
         \A e \in E : e.type \notin {"started", "progress"},
         plan' = plan, pc # "idle", pc' \notin Early
  PROVE  PlanningComesFirst'
<1>1. ASSUME NEW i \in 1 .. Len(events'), events'[i].type = "progress", NEW k \in 1 .. i
      PROVE  events'[k].type \in {"started", "progress"}
  <2>1. i \in 1 .. Len(events) /\ events[i].type = "progress"
    BY <1>1, GrownIndex
  <2>2. k \in 1 .. Len(events) /\ events'[k] = events[k]
    BY <2>1, GrownIndex
  <2> QED BY <2>1, <2>2 DEF PlanningComesFirst
<1>2. ASSUME NEW i \in 1 .. Len(events'), events'[i].type = "started"
      PROVE  i = 1 /\ plan' = "absent"
  BY <1>2, GrownIndex DEF PlanningComesFirst
<1>3. ASSUME plan' = "absent"
      PROVE  Len(events') > 0 /\ events'[1].type = "started"
  <2>1. Len(events) > 0 /\ events[1].type = "started"
    BY <1>3 DEF PlanningComesFirst
  <2> QED BY <2>1, GrownIndex
<1>4. ASSUME InQueue({"progress"})'
      PROVE  plan' \in {"absent", "planning"}
  BY <1>4, QueueGrows DEF PlanningComesFirst
<1> QED BY <1>1, <1>2, <1>3, <1>4 DEF PlanningComesFirst, Early

\* Events of other kinds announce no files.
LEMMA FilesGrow ==
  ASSUME FilesAreAnnounced, NEW E, Extends(events, events', EventRecords, E),
         \A e \in E : e.type # "progress",
         plan' = plan, kids' = kids, rows' = rows, published' = published
  PROVE  FilesAreAnnounced'
<1>1. \A j \in Job : Announced(j)' <=> Announced(j)
  BY AnnouncedGrows
<1> QED BY <1>1 DEF FilesAreAnnounced, Present

\* Events that do not report a job leave it unknown.
LEMMA PristineGrows ==
  ASSUME NEW j \in Job, Pristine(j), NEW E, Extends(events, events', EventRecords, E),
         \A e \in E : ~Reports(e, j), plan' = plan, rows' = rows
  PROVE  Pristine(j)'
<1>1. ASSUME NEW i \in 1 .. Len(events')
      PROVE  ~Reports(events'[i], j)
  BY GrownIndex DEF Pristine
<1> QED BY <1>1 DEF Pristine

\* Events that do not report a job contradict nothing about it.
LEMMA AgreeGrows ==
  ASSUME NEW j \in Job, NEW n \in Nat, Agree(j, n), NEW E, Extends(events, events', EventRecords, E),
         \A e \in E : e.type # "progress" /\ ~Reports(e, j), out'[j] = out[j]
  PROVE  Agree(j, n)'
<1>1. ASSUME NEW i \in 1 .. Len(events'), i >= n
      PROVE  /\ events'[i].type # "progress"
             /\ Reports(events'[i], j) => events'[i].type = out'[j]
  BY <1>1, GrownIndex DEF Agree
<1> QED BY <1>1 DEF Agree

\* So its outcome stays told.
LEMMA ToldGrows ==
  ASSUME NEW j \in Job, Told(j), NEW E, Extends(events, events', EventRecords, E),
         \A e \in E : e.type # "progress" /\ ~Reports(e, j),
         out'[j] = out[j], plan' = plan, rows' = rows
  PROVE  Told(j)'
<1>1. CASE InTheRow(j)
  <2>1. Agree(j, 1)'
    BY <1>1, AgreeGrows DEF InTheRow
  <2> QED BY <1>1, <2>1 DEF InTheRow, Told
<1>2. CASE OnItsWay(j)
  <2>1. PICK k \in 1 .. Len(events) : events[k] = Event(out[j], {j}) /\ Agree(j, k)
    BY <1>2 DEF OnItsWay
  <2>2. k \in Nat /\ k \in 1 .. Len(events') /\ events'[k] = Event(out'[j], {j})
    BY <2>1, GrownIndex
  <2>3. Agree(j, k)'
    BY <2>1, <2>2, AgreeGrows
  <2> QED BY <2>2, <2>3 DEF OnItsWay, Told
<1>3. CASE WithThePlan(j)
  BY <1>3, PristineGrows, QueueGrows DEF WithThePlan, Told
<1> QED BY <1>1, <1>2, <1>3 DEF Told

\* The end of an attempt is the last thing in the channel.
LEMMA ToldLast ==
  ASSUME NEW j \in Job, out'[j] \in Final, Adds(out'[j], {j})
  PROVE  Told(j)'
<1>1. PICK n \in Nat \ {0} : n = Len(events')
  BY DEF Adds, Extends
<1>2. n \in 1 .. Len(events') /\ events'[n] = Event(out'[j], {j})
  BY <1>1 DEF Adds
<1>3. Agree(j, n)'
  <2>1. \A i \in 1 .. Len(events') : i >= n => i = n
    BY <1>1
  <2>2. Event(out'[j], {j}).type = out'[j] /\ out'[j] # "progress"
    BY DEF Event, Final
  <2> QED BY <1>2, <2>1, <2>2 DEF Agree
<1>4. OnItsWay(j)'
  BY <1>2, <1>3 DEF OnItsWay
<1> QED BY <1>4 DEF Told

\* The same, when several jobs end in one step.
LEMMA ToldTogether ==
  ASSUME NEW t \in Final, NEW T, NEW j \in Job, j \in T, out'[j] = t,
         Extends(events, events', EventRecords, {Event(t, {k}) : k \in T}),
         \E k \in (Len(events) + 1) .. Len(events') : events'[k] = Event(t, {j})
  PROVE  Told(j)'
<1> DEFINE E == {Event(t, {k}) : k \in T}
<1>1. \A e \in E : e.type = t
  BY DEF Event
<1>2. Extends(events, events', EventRecords, E)
  OBVIOUS
<1> HIDE DEF E
<1>3. PICK n \in (Len(events) + 1) .. Len(events') : events'[n] = Event(t, {j})
  OBVIOUS
<1>4. n \in 1 .. Len(events') /\ n > Len(events)
  BY <1>2, <1>3, GrownIndex
<1>5. ASSUME NEW i \in 1 .. Len(events'), i >= n
      PROVE  events'[i].type = t
  <2>1. i > Len(events)
    BY <1>2, <1>4, <1>5, GrownIndex
  <2>2. events'[i] \in E
    BY <1>2, <2>1, GrownIndex
  <2> QED BY <1>1, <2>2
<1>6. Agree(j, n)'
  BY <1>5 DEF Agree, Final
<1> QED BY <1>3, <1>4, <1>6 DEF Told, OnItsWay

-----------------------------------------------------------------------------
(* The rows: who waits to be tried. *)

\* Only the handoff task asks for an enqueue.
LEMMA EnqueueAskedBefore ==
  ASSUME TypeOK, [Next]_vars, ~SendEnqueue, Asked("enqueue")'
  PROVE  Asked("enqueue")
<1>1. CASE requests' = requests
  BY <1>1 DEF Asked
<1>2. ASSUME NEW t \in {"cancel", "retry", "forget", "cancelPlan"}, NEW r \in Rows, Send(t, r),
             Request(t, r) \in RequestRecords
      PROVE  Asked("enqueue")
  BY <1>2, SendAsked
<1>3. ASSUME NEW t, Handles(t)
      PROVE  Asked("enqueue")
  BY <1>3, TakeAsked
<1>4. CASE StartTransfer \/ PlannerStep
  <2>1. \/ requests' = requests
        \/ \E t \in {"forget", "cancelPlan"} : Send(t, Root)
    BY <1>4 DEF PlannerStep, StartTransfer, EmitChild, PlannerCancelled, PlannerFails,
       PlanningDropped, FinishFlush, FinishComplete, NothingPlanned, HandoffCancelled,
       HandoffFails, TakePlanningGuard
  <2> QED BY <1>1, <1>2, <2>1, RequestForms DEF Rows
<1>5. CASE HandleRequest
  BY <1>3, <1>5 DEF HandleRequest, EnqueueCancelled, Enqueue, ForgetPlan, CancelPlan, CancelRoot,
     CancelQueued, CancelRunning, CancelUnknown, Retry, RetryWithoutConnection, RetryUnknown
<1>6. ASSUME NEW j \in Job, JobStep(j) \/ MakeProgress(j)
      PROVE  Asked("enqueue")
  BY <1>1, <1>6 DEF JobStep, StartJob, AskConflict, BeginWork, EndAttempt, HandleCompleted,
       MakeProgress, JobTask
<1>7. CASE UserStep
  <2>1. \/ requests' = requests
        \/ \E t \in {"cancel", "retry"}, r \in Rows : Send(t, r)
    BY <1>7 DEF UserStep, CancelTransfer, RetryTransfer, ResolveConflict, ClearTerminal, Rows
  <2> QED BY <1>1, <1>2, <2>1, RequestForms
<1>8. CASE ApplyEvent \/ UNCHANGED vars
  BY <1>1, <1>8 DEF ApplyEvent, vars
<1> QED BY <1>4, <1>5, <1>6, <1>7, <1>8 DEF Next

\* Only planner and handoff task move on in planning.
LEMMA PlaceKept ==
  ASSUME [Next]_vars, ~StartTransfer, ~PlannerStep
  PROVE  pc' = pc /\ emitted' = emitted /\ published' = published
<1>1. CASE HandleRequest
  <2>1. \E t : Handles(t)
    BY <1>1 DEF HandleRequest, EnqueueCancelled, Enqueue, ForgetPlan, CancelPlan, CancelRoot,
     CancelQueued, CancelRunning, CancelUnknown, Retry, RetryWithoutConnection, RetryUnknown
  <2> QED BY <2>1 DEF Handles, planner
<1>2. ASSUME NEW j \in Job, JobStep(j) \/ MakeProgress(j)
      PROVE  pc' = pc /\ emitted' = emitted /\ published' = published
  BY <1>2 DEF JobStep, StartJob, AskConflict, BeginWork, EndAttempt, HandleCompleted, MakeProgress,
     JobTask, planner
<1>3. CASE ApplyEvent \/ UserStep \/ UNCHANGED vars
  BY <1>3 DEF ApplyEvent, UserStep, CancelTransfer, RetryTransfer, ResolveConflict, ClearTerminal,
     vars, planner
<1> QED BY <1>1, <1>2, <1>3 DEF Next

\* Jobs that may still get to the manager might have before.
LEMMA FreshBefore ==
  ASSUME TypeOK, [Next]_vars, Fresh'
  PROVE  Fresh
<1>1. CASE SendEnqueue
  BY <1>1 DEF SendEnqueue, Fresh
<1>2. CASE ~SendEnqueue
  <2>1. Asked("enqueue")' => Asked("enqueue")
    BY <1>2, EnqueueAskedBefore
  <2>2. pc' \in {"idle", "planning", "finishing", "planned"}
          => pc \in {"idle", "planning", "finishing", "planned"}
    <3>1. CASE StartTransfer \/ PlannerStep
      BY <3>1 DEF PlannerStep, StartTransfer, EmitChild, PlannerCancelled, PlannerFails,
         PlanningDropped, FinishFlush, FinishComplete, NothingPlanned, HandoffCancelled,
         HandoffFails, SendEnqueue, TakePlanningGuard
    <3>2. CASE ~(StartTransfer \/ PlannerStep)
      BY <3>2, PlaceKept
    <3> QED BY <3>1, <3>2
  <2> QED BY <2>1, <2>2 DEF Fresh
<1> QED BY <1>1, <1>2

\* But for the handover, no step makes jobs wait for their first attempt.
LEMMA CalmAfterwards ==
  ASSUME HandoffInv, [Next]_vars, ~Enqueue, ~EnqueueCancelled, ~HandoffFails
  PROVE  Calm
<1>0. TypeOK /\ RetriesHaveFailed
  BY DEF HandoffInv
<1>1. CASE StartTransfer \/ PlannerStep \/ ApplyEvent \/ UNCHANGED vars
  <2>1. job' = job /\ out' = out /\ routes' = routes
    BY <1>1 DEF PlannerStep, StartTransfer, EmitChild, PlannerCancelled, PlannerFails,
       PlanningDropped, FinishFlush, FinishComplete, NothingPlanned, HandoffCancelled,
       SendEnqueue, TakePlanningGuard, ApplyEvent, vars, manager
  <2> QED BY <1>0, <2>1, CalmIfKept
<1> QED BY <1>0, <1>1, ManagerCalm, JobCalm, UserCalm DEF Next

\* The handover finds no jobs in the manager.
LEMMA HandoverIsFresh ==
  ASSUME HandoffInv, Enqueue \/ EnqueueCancelled \/ HandoffFails
  PROVE  Fresh /\ NoJobs
<1>0. TypeOK /\ HandedOverOnce
  BY DEF HandoffInv
<1>1. CASE Enqueue \/ EnqueueCancelled
  <2>1. Handles("enqueue")
    BY <1>1 DEF Enqueue, EnqueueCancelled
  <2>2. Asked("enqueue")
    BY <1>0, <2>1, TakeAsked
  <2> QED BY <1>0, <2>2 DEF Fresh, HandedOverOnce
<1>2. CASE HandoffFails
  BY <1>0, <1>2 DEF HandoffFails, Fresh, HandedOverOnce
<1> QED BY <1>1, <1>2

\* Nobody starts to wait for a first attempt except when the jobs are handed over.
LEMMA WaitedBefore ==
  ASSUME HandoffInv, [Next]_vars, NEW j \in Job, Fresh' \/ j \in Untried'
  PROVE  Fresh \/ j \in Untried
<1>1. TypeOK
  BY DEF HandoffInv
<1>2. CASE Fresh'
  BY <1>1, <1>2, FreshBefore
<1>3. CASE j \in Untried'
  BY <1>3, CalmAfterwards, HandoverIsFresh DEF Calm
<1> QED BY <1>2, <1>3

\* After the handover no new jobs come to wait.
LEMMA LateIsLate ==
  ASSUME HandoffInv, [Next]_vars, ~Fresh
  PROVE  ~Fresh' /\ (NoJobs => NoJobs') /\ (Untried = {} => Untried' = {})
<1>1. TypeOK
  BY DEF HandoffInv
<1>2. Calm
  BY CalmAfterwards, HandoverIsFresh
<1> QED BY <1>1, <1>2, FreshBefore DEF Calm

\* A job that was handed over does not go away.
LEMMA JobsStay ==
  ASSUME HandoffInv, [Next]_vars, NEW k \in Job, job[k] # "none"
  PROVE  job'[k] # "none"
<1>0. TypeOK
  BY DEF HandoffInv
<1>1. CASE Enqueue \/ EnqueueCancelled \/ HandoffFails
  BY <1>1, HandoverIsFresh DEF NoJobs
<1>2. CASE /\ ~(Enqueue \/ EnqueueCancelled \/ HandoffFails)
           /\ StartTransfer \/ PlannerStep \/ ApplyEvent \/ UNCHANGED vars
  BY <1>2 DEF PlannerStep, StartTransfer, EmitChild, PlannerCancelled, PlannerFails,
       PlanningDropped, FinishFlush, FinishComplete, NothingPlanned, HandoffCancelled,
       SendEnqueue, TakePlanningGuard, ApplyEvent, vars, manager
<1>3. CASE HandleRequest /\ ~(Enqueue \/ EnqueueCancelled)
  BY <1>0, <1>3 DEF HandleRequest, ForgetPlan, CancelPlan, CancelRoot, DoCancelPlan,
     CancelQueued, CancelRunning, CancelUnknown, Retry, RetryWithoutConnection, RetryUnknown, TypeOK
<1>4. ASSUME NEW j \in Job, JobStep(j) \/ MakeProgress(j)
      PROVE  job'[k] # "none"
  BY <1>0, <1>4 DEF JobStep, StartJob, AskConflict, BeginWork, EndAttempt, HandleCompleted,
       MakeProgress, TypeOK
<1>5. CASE UserStep
  BY <1>0, <1>5 DEF UserStep, CancelTransfer, RetryTransfer, ResolveConflict, ClearTerminal, manager, TypeOK
<1> QED BY <1>1, <1>2, <1>3, <1>4, <1>5 DEF Next

\* Before the handover there are no jobs.
LEMMA FreshHasNoJobs ==
  ASSUME HandoffInv, Fresh
  PROVE  NoJobs /\ Untried = {}
<1>1. NoJobs
  BY DEF HandoffInv, HandedOverOnce, Fresh
<1> QED BY <1>1 DEF NoJobs, Untried

\* Jobs come into being when they are handed over.
LEMMA NoNewJobs ==
  ASSUME HandoffInv, [Next]_vars, ~Enqueue, ~EnqueueCancelled, ~HandoffFails,
         NEW k \in Job, job[k] = "none"
  PROVE  job'[k] = "none" /\ out'[k] = out[k]
<1>0. TypeOK
  BY DEF HandoffInv
<1>2. CASE StartTransfer \/ PlannerStep \/ ApplyEvent \/ UNCHANGED vars
  BY <1>2 DEF PlannerStep, StartTransfer, EmitChild, PlannerCancelled, PlannerFails,
       PlanningDropped, FinishFlush, FinishComplete, NothingPlanned, HandoffCancelled,
       SendEnqueue, TakePlanningGuard, ApplyEvent, vars, manager
<1>3. CASE HandleRequest
  <2>1. CASE Retry
    BY <1>0, <2>1 DEF Retry, HandoffInv, RetriesHaveFailed, TypeOK
  <2> QED BY <1>0, <1>3, <2>1 DEF HandleRequest, ForgetPlan, CancelPlan, CancelRoot, DoCancelPlan, Queued,
     CancelQueued, CancelRunning, CancelUnknown, RetryWithoutConnection, RetryUnknown, TypeOK
<1>4. ASSUME NEW j \in Job, JobStep(j) \/ MakeProgress(j)
      PROVE  job'[k] = "none" /\ out'[k] = out[k]
  BY <1>0, <1>4 DEF JobStep, StartJob, AskConflict, BeginWork, EndAttempt, Outcomes, HandleCompleted,
       MakeProgress, TypeOK
<1>5. CASE UserStep
  BY <1>0, <1>5 DEF UserStep, CancelTransfer, RetryTransfer, ResolveConflict, ClearTerminal, manager, TypeOK
<1> QED BY <1>2, <1>3, <1>4, <1>5 DEF Next

\* Jobs are handed over when all of them were published.
LEMMA PublishedStep ==
  ASSUME HandoffInv, JobsArePublished, [Next]_vars
  PROVE  JobsArePublished'
<1>0. TypeOK /\ HandedOverOnce
  BY DEF HandoffInv
<1>1. CASE Enqueue \/ EnqueueCancelled
  <2>1. Handles("enqueue")
    BY <1>1 DEF Enqueue, EnqueueCancelled
  <2>2. Asked("enqueue") /\ NoJobs
    BY <1>0, <2>1, TakeAsked DEF HandedOverOnce
  <2>3. published = emitted /\ published' = published /\ emitted' = emitted
    BY <2>1, <2>2 DEF JobsArePublished, Handles, planner
  <2>5. \A j \in Job : /\ j <= emitted => job'[j] # "none"
                       /\ ~(j <= emitted) => out'[j] = out[j]
    <3>1. CASE EnqueueCancelled
      BY <1>0, <3>1 DEF EnqueueCancelled, TypeOK
    <3>2. CASE Enqueue
      <4> DEFINE skipped == recorded \cap 1 .. emitted
      <4>1. /\ job' = [j \in Job |-> IF j \in skipped THEN "done"
                                   ELSE IF j <= emitted THEN "queued" ELSE job[j]]
            /\ out' = [j \in Job |-> IF j \in skipped THEN "skipped" ELSE out[j]]
        BY <3>2 DEF Enqueue
      <4>2. \A j \in Job : j \in skipped => j <= emitted
        BY <1>0 DEF TypeOK, Job
      <4> HIDE DEF skipped
      <4> QED BY <4>1, <4>2
    <3> QED BY <1>1, <3>1, <3>2
  <2>4. \A j \in Job : ~(j <= emitted) => job'[j] = "none"
    <3>1. CASE EnqueueCancelled
      BY <1>0, <2>2, <3>1 DEF EnqueueCancelled, NoJobs, TypeOK
    <3>2. CASE Enqueue
      <4> DEFINE skipped == recorded \cap 1 .. emitted
      <4>1. job' = [j \in Job |-> IF j \in skipped THEN "done"
                                   ELSE IF j <= emitted THEN "queued" ELSE job[j]]
        BY <3>2 DEF Enqueue
      <4>2. \A j \in Job : j \in skipped => j <= emitted
        BY <1>0 DEF TypeOK, Job
      <4> HIDE DEF skipped
      <4> QED BY <2>2, <4>1, <4>2 DEF NoJobs
    <3> QED BY <1>1, <3>1, <3>2
  <2> QED BY <2>2, <2>3, <2>4, <2>5 DEF JobsArePublished, NoJobs
<1>2. CASE HandoffFails
  <2>1. published = emitted /\ published' = published /\ emitted' = emitted /\ NoJobs
    BY <1>0, <1>2 DEF JobsArePublished, HandoffFails, HandedOverOnce
  <2>2. \A j \in Job : IF j <= emitted THEN job'[j] = "done"
                       ELSE job'[j] = "none" /\ out'[j] = out[j]
    BY <1>0, <1>2, <2>1 DEF HandoffFails, NoJobs, TypeOK
  <2> QED BY <2>1, <2>2 DEF JobsArePublished, NoJobs
<1>3. CASE ~(Enqueue \/ EnqueueCancelled \/ HandoffFails)
  <2>1. \A j \in Job : IF job'[j] = "none" THEN job[j] = "none" /\ out'[j] = out[j]
                                          ELSE job[j] # "none"
    BY <1>3, NoNewJobs, JobsStay
  <2>2. CASE ~(StartTransfer \/ PlannerStep)
    <3>1. pc' = pc /\ emitted' = emitted /\ published' = published
      BY <2>2, PlaceKept
    <3>2. Asked("enqueue")' => Asked("enqueue")
      BY <1>0, <2>2, EnqueueAskedBefore DEF PlannerStep
    <3> QED BY <2>1, <3>1, <3>2 DEF JobsArePublished
  <2>3. CASE SendEnqueue
    BY <2>1, <2>3 DEF SendEnqueue, JobsArePublished
  <2>4. CASE TakePlanningGuard
    <3>1. Asked("enqueue")' => Asked("enqueue")
      BY <1>0, <2>4, EnqueueAskedBefore DEF TakePlanningGuard, SendEnqueue
    <3> QED BY <2>1, <2>4, <3>1 DEF TakePlanningGuard, JobsArePublished
  <2>5. CASE (StartTransfer \/ PlannerStep) /\ ~SendEnqueue /\ ~TakePlanningGuard
    <3>1. /\ pc \notin {"sent", "over"} /\ pc' \notin {"sent"}
          /\ pc' \in {"finishing", "planned"} => published' = emitted'
      BY <1>3, <2>5 DEF PlannerStep, StartTransfer, EmitChild, PlannerCancelled, PlannerFails,
       PlanningDropped, FinishFlush, FinishComplete, NothingPlanned, HandoffCancelled, JobsArePublished
    <3>2. ~Asked("enqueue") /\ NoJobs
      BY <1>0, <3>1 DEF HandedOverOnce
    <3>3. ~Asked("enqueue")'
      BY <1>0, <2>5, <3>2, EnqueueAskedBefore
    <3> QED BY <2>1, <3>1, <3>2, <3>3 DEF JobsArePublished, NoJobs
  <2> QED BY <2>2, <2>3, <2>4, <2>5
<1> QED BY <1>1, <1>2, <1>3

\* Reports of handed-over jobs, and of a plan that is over, may be added.
LEMMA ReportsGrow ==
  ASSUME HandoffInv, ReportsFollow, [Next]_vars, NEW E, Extends(events, events', EventRecords, E),
         \A e \in E : \A j \in Job : Reports(e, j) => job'[j] # "none",
         \/ \A e \in E : e.type \notin {"planFailed", "planFailedFinal"}
         \/ ~Fresh' /\ NoJobs',
         \/ \A e \in E : e.type # "planCancelled"
         \/ ~Fresh' /\ Untried' = {}
  PROVE  ReportsFollow'
<1>1. ASSUME NEW i \in 1 .. Len(events'), NEW j \in Job, Reports(events'[i], j)
      PROVE  job'[j] # "none"
  <2>1. CASE i \in 1 .. Len(events) /\ events'[i] = events[i]
    BY <1>1, <2>1, JobsStay DEF ReportsFollow
  <2>2. CASE events'[i] \in E
    BY <1>1, <2>2
  <2> QED BY <2>1, <2>2, GrownIndex
<1>2. ASSUME InQueue({"planFailed", "planFailedFinal"})'
      PROVE  ~Fresh' /\ NoJobs'
  BY <1>2, QueueGrows, LateIsLate DEF ReportsFollow
<1>3. ASSUME InQueue({"planCancelled"})'
      PROVE  ~Fresh' /\ Untried' = {}
  BY <1>3, QueueGrows, LateIsLate DEF ReportsFollow
<1> QED BY <1>1, <1>2, <1>3 DEF ReportsFollow

\* Reports of jobs that no longer wait may be added.
LEMMA WaitingGrows ==
  ASSUME HandoffInv, WaitingIsPristine, [Next]_vars, NEW E, Extends(events, events', EventRecords, E),
         plan' = plan, rows' = rows, published' = published,
         \A e \in E : \A j \in Job : Reports(e, j) => ~Fresh' /\ j \notin Untried'
  PROVE  WaitingIsPristine'
<1> SUFFICES ASSUME NEW j \in 1 .. published', Fresh' \/ j \in Untried'
             PROVE  Pristine(j)'
  BY DEF WaitingIsPristine
<1>1. j \in Job /\ j \in 1 .. published
  BY RowsAssumption DEF HandoffInv, TypeOK, Job
<1>2. Pristine(j)
  BY <1>1, WaitedBefore DEF WaitingIsPristine
<1>3. \A e \in E : ~Reports(e, j)
  BY <1>1
<1> QED BY <1>1, <1>2, <1>3, PristineGrows

\* Everything but the outcomes, for a step that leaves the store alone.
LEMMA GrownStep ==
  ASSUME RowsInv, [Next]_vars, NEW E, Extends(events, events', EventRecords, E),
         \/ events' = events /\ (pc' = pc \/ (pc = "planning" /\ pc' # "idle"))
         \/ pc # "idle" /\ pc' \notin Early,
         \A e \in E : e.type \notin {"started", "progress"},
         plan' = plan, kids' = kids, rows' = rows, published' = published,
         \A e \in E : \A j \in Job : Reports(e, j) => job'[j] # "none" /\ ~Fresh' /\ j \notin Untried',
         \/ \A e \in E : e.type \notin {"planFailed", "planFailedFinal"}
         \/ ~Fresh' /\ NoJobs',
         \/ \A e \in E : e.type # "planCancelled"
         \/ ~Fresh' /\ Untried' = {}
  PROVE  PlanningComesFirst' /\ FilesAreAnnounced' /\ ReportsFollow' /\ WaitingIsPristine'
<1>0. /\ HandoffInv /\ TypeOK /\ PlanningComesFirst /\ FilesAreAnnounced /\ ReportsFollow
      /\ WaitingIsPristine
  BY DEF RowsInv, HandoffInv
<1>1. PlanningComesFirst'
  <2>1. CASE events' = events /\ (pc' = pc \/ (pc = "planning" /\ pc' # "idle"))
    BY <1>0, <2>1 DEF PlanningComesFirst, InQueue
  <2>2. CASE pc # "idle" /\ pc' \notin Early
    BY <1>0, <2>2, PlanningFirstGrows
  <2> QED BY <2>1, <2>2
<1>2. FilesAreAnnounced'
  BY <1>0, FilesGrow
<1>3. ReportsFollow'
  BY <1>0, ReportsGrow
<1>4. WaitingIsPristine'
  BY <1>0, WaitingGrows
<1> QED BY <1>1, <1>2, <1>3, <1>4

\* The two most frequent cases: nothing is reported, and one thing is.
LEMMA QuietStep ==
  ASSUME RowsInv, [Next]_vars, events' = events,
         pc' = pc \/ (pc = "planning" /\ pc' # "idle") \/ (pc # "idle" /\ pc' \notin Early),
         plan' = plan, kids' = kids, rows' = rows, published' = published
  PROVE  PlanningComesFirst' /\ FilesAreAnnounced' /\ ReportsFollow' /\ WaitingIsPristine'
<1>1. Extends(events, events', EventRecords, {})
  BY SameExtends DEF RowsInv, HandoffInv
<1> QED BY <1>1, GrownStep

\* What adding one such event leaves of the invariant.
LEMMA AddedStep ==
  ASSUME RowsInv, [Next]_vars, NEW t, NEW T, Adds(t, T), pc # "idle", pc' \notin Early,
         t \notin {"started", "progress", "planFailed", "planFailedFinal"},
         plan' = plan, kids' = kids, rows' = rows, published' = published,
         \A j \in Job : t \in JobEvents /\ T = {j} => job'[j] # "none" /\ ~Fresh' /\ j \notin Untried',
         t = "planCancelled" => ~Fresh' /\ Untried' = {}
  PROVE  PlanningComesFirst' /\ FilesAreAnnounced' /\ ReportsFollow' /\ WaitingIsPristine'
<1> DEFINE e == Event(t, T)
           E == {e}
<1>1. e.type = t /\ e.ids = T
  BY DEF Event
<1>2. Extends(events, events', EventRecords, E)
  BY DEF Adds
<1>3. \A j \in Job : Reports(e, j) => job'[j] # "none" /\ ~Fresh' /\ j \notin Untried'
  BY <1>1 DEF Reports
<1> HIDE DEF e
<1>4. /\ \A x \in E : x.type = t
      /\ \A x \in E : \A j \in Job : Reports(x, j) => job'[j] # "none" /\ ~Fresh' /\ j \notin Untried'
  BY <1>1, <1>3
<1> HIDE DEF E
<1>5. /\ \A x \in E : x.type \notin {"started", "progress"}
      /\ \A x \in E : x.type \notin {"planFailed", "planFailedFinal"}
      /\ \/ \A x \in E : x.type # "planCancelled"
         \/ ~Fresh' /\ Untried' = {}
  BY <1>4
<1> QED BY <1>2, <1>4, <1>5, GrownStep

-----------------------------------------------------------------------------
(* The rows: the planner and the handoff task. *)

\* Without jobs there are no outcomes to be told.
LEMMA NothingTried ==
  ASSUME NoJobs'
  PROVE  OutcomesAreTold'
BY DEF NoJobs, OutcomesAreTold, Tried

\* While the planner walks, the store has heard of no job.
LEMMA EarlyPristine ==
  ASSUME RowsInv, pc \in Early, NEW j \in Job
  PROVE  Pristine(j)
<1>0. HandoffInv /\ TypeOK /\ Fresh
  BY DEF RowsInv, HandoffInv, Fresh, Early
<1>1. NoJobs
  BY <1>0, FreshHasNoJobs
<1>2. CASE j \in 1 .. published
  BY <1>0, <1>2 DEF RowsInv, WaitingIsPristine
<1>3. CASE j \notin 1 .. published
  <2>1. ~(j <= published)
    BY <1>0, <1>3 DEF TypeOK, Job
  <2>2. rows[j] = "absent"
    BY <2>1 DEF RowsInv, FilesAreAnnounced, Present
  <2>3. plan \in {"absent", "planning"}
    BY DEF RowsInv, PlanningComesFirst, Early
  <2>4. \A i \in 1 .. Len(events) : ~Reports(events[i], j)
    BY <1>1 DEF RowsInv, ReportsFollow, NoJobs
  <2> QED BY <2>2, <2>3, <2>4 DEF Pristine
<1> QED BY <1>2, <1>3

\* queue_progress: the files that were not published yet.
LEMMA PublishRows ==
  ASSUME RowsInv, [Next]_vars, pc = "planning", pc' \in {"planning", "finishing"},
         NEW T \in SUBSET Job, Adds("progress", T),
         \A j \in Job : j \in T <=> j <= published' /\ ~(j <= published),
         \A j \in Job : j <= published => j <= published',
         published' \in 0 .. Files,
         plan' = plan, kids' = kids, rows' = rows, NoJobs'
  PROVE  PlanningComesFirst' /\ FilesAreAnnounced' /\ ReportsFollow' /\ WaitingIsPristine'
<1> DEFINE e == Event("progress", T)
<1>0. HandoffInv /\ TypeOK /\ PlanningComesFirst /\ FilesAreAnnounced /\ ReportsFollow
  BY DEF RowsInv, HandoffInv
<1>1. e.type = "progress" /\ e.ids = T
  BY DEF Event
<1>2. Extends(events, events', EventRecords, {e}) /\ events'[Len(events')] = e /\ Len(events') = Len(events) + 1
  BY DEF Adds
<1> HIDE DEF e
<1>3. PICK n \in Nat \ {0} : n = Len(events')
  BY <1>2 DEF Extends
<1>4. \A j \in Job : ~Reports(e, j)
  BY <1>1 DEF Reports, JobEvents, Final
<1>5. PlanningComesFirst'
  <2>1. \A i \in 1 .. Len(events') : events'[i].type \in {"started", "progress"}
    BY <1>0, <1>1, <1>2, GrownIndex DEF PlanningComesFirst
  <2>2. \A i \in 1 .. Len(events') : events'[i].type = "started" => i = 1 /\ plan' = "absent"
    BY <1>0, <1>1, <1>2, GrownIndex DEF PlanningComesFirst
  <2>3. plan' = "absent" => Len(events') > 0 /\ events'[1].type = "started"
    BY <1>0, <1>2, GrownIndex DEF PlanningComesFirst
  <2>4. plan' \in {"absent", "planning"}
    BY <1>0 DEF PlanningComesFirst
  <2>5. \A i \in 1 .. Len(events') : \A k \in 1 .. i : k \in 1 .. Len(events')
    BY <1>3
  <2> QED BY <2>1, <2>2, <2>3, <2>4, <2>5 DEF PlanningComesFirst
<1>6. FilesAreAnnounced'
  <2>1. ASSUME NEW j \in Job
        PROVE  Announced(j)' <=> Announced(j) \/ j \in T
    <3>1. ASSUME Announced(j) PROVE Announced(j)'
      <4>1. PICK i \in 1 .. Len(events) : events[i].type = "progress" /\ j \in events[i].ids
        BY <3>1 DEF Announced
      <4> QED BY <1>2, <4>1, GrownIndex DEF Announced
    <3>2. ASSUME j \in T PROVE Announced(j)'
      BY <1>1, <1>2, <1>3, <3>2 DEF Announced
    <3>3. ASSUME Announced(j)' PROVE Announced(j) \/ j \in T
      <4>1. PICK i \in 1 .. Len(events') : events'[i].type = "progress" /\ j \in events'[i].ids
        BY <3>3 DEF Announced
      <4>2. CASE i \in 1 .. Len(events) /\ events'[i] = events[i]
        BY <4>1, <4>2 DEF Announced
      <4>3. CASE events'[i] \in {e}
        BY <1>1, <4>1, <4>3
      <4> QED BY <1>2, <4>2, <4>3, GrownIndex
    <3> QED BY <3>1, <3>2, <3>3
  <2>2. ASSUME NEW j \in Job
        PROVE  j <= published' <=> j \in kids' \/ Announced(j)'
    BY <1>0, <2>1 DEF FilesAreAnnounced
  <2> QED BY <1>0, <2>2 DEF FilesAreAnnounced, Present
<1>7. ReportsFollow'
  BY <1>0, <1>1, <1>2, <1>4, ReportsGrow
<1>8. WaitingIsPristine'
  <2>1. \A j \in 1 .. published' : j \in Job
    BY RowsAssumption DEF Job
  <2>2. \A j \in Job : Pristine(j)
    BY EarlyPristine DEF Early
  <2>3. \A j \in Job : Pristine(j)'
    BY <1>2, <1>4, <2>2, PristineGrows
  <2> QED BY <2>1, <2>3 DEF WaitingIsPristine
<1> QED BY <1>5, <1>6, <1>7, <1>8

\* All of the rows' invariant but the part proved before.
RowsPart ==
    /\ PlanningComesFirst /\ FilesAreAnnounced /\ ReportsFollow
    /\ WaitingIsPristine /\ OutcomesAreTold

\* The planner's walk sends the events of planning, in their order.
LEMMA WalkRows ==
  ASSUME RowsInv,
         \/ StartTransfer \/ EmitChild \/ PlannerCancelled \/ PlannerFails \/ PlanningDropped
         \/ FinishFlush \/ FinishComplete
  PROVE  RowsPart'
<1>0. HandoffInv /\ TypeOK /\ HandedOverOnce /\ [Next]_vars
  BY DEF RowsInv, HandoffInv, Next, PlannerStep
<1>1. /\ pc \in Early /\ requests' = requests /\ job' = job /\ out' = out
      /\ plan' = plan /\ kids' = kids /\ rows' = rows
  BY DEF StartTransfer, EmitChild, PlannerCancelled, PlannerFails, PlanningDropped,
       FinishFlush, FinishComplete, manager, store, Early
<1>2. NoJobs /\ ~Asked("enqueue")
  BY <1>0, <1>1 DEF HandedOverOnce, Early
<1>3. NoJobs' /\ ~Asked("enqueue")' /\ Untried' = {}
  BY <1>1, <1>2 DEF NoJobs, Asked, Untried
<1>4. OutcomesAreTold'
  BY <1>3, NothingTried
<1>5. CASE StartTransfer
  <2>1. /\ pc = "idle" /\ pc' = "planning" /\ published' = published /\ Adds("started", {Root})
    BY <1>0, <1>5, PlannerEvents DEF StartTransfer
  <2> DEFINE e == Event("started", {Root})
  <2>2. e.type = "started" /\ \A j \in Job : ~Reports(e, j)
    BY DEF Event, Reports, JobEvents, Final
  <2>3. Extends(events, events', EventRecords, {e}) /\ events'[Len(events')] = e /\ Len(events') = Len(events) + 1
    BY <2>1 DEF Adds
  <2> HIDE DEF e
  <2>4. plan = "absent" /\ Len(events) = 0
    BY <2>1 DEF RowsInv, PlanningComesFirst
  <2>5. Len(events') = 1 /\ \A i \in 1 .. Len(events') : events'[i] = e /\ i = 1
    BY <2>3, <2>4
  <2>6. PlanningComesFirst'
    BY <1>1, <2>1, <2>2, <2>4, <2>5 DEF PlanningComesFirst, InQueue
  <2>7. FilesAreAnnounced'
    BY <1>1, <2>1, <2>2, <2>3, FilesGrow DEF RowsInv
  <2>8. ReportsFollow'
    BY <1>0, <2>2, <2>3, ReportsGrow DEF RowsInv
  <2>9. WaitingIsPristine'
    BY <1>0, <1>1, <2>1, <2>2, <2>3, WaitingGrows DEF RowsInv
  <2> QED BY <1>4, <2>6, <2>7, <2>8, <2>9 DEF RowsPart
<1>6. CASE EmitChild \/ FinishFlush
  <2>1. /\ pc = "planning" /\ pc' \in {"planning", "finishing"}
        /\ \/ events' = events /\ published' = published
           \/ published' \in published .. Files /\ Emit("progress", (published + 1) .. published')
    BY <1>0, <1>6, RowsAssumption DEF EmitChild, FinishFlush, Unpublished, TypeOK
  <2>2. CASE events' = events /\ published' = published
    BY <1>0, <1>1, <1>4, <2>1, <2>2, QuietStep DEF RowsPart
  <2>3. CASE published' \in published .. Files /\ Emit("progress", (published + 1) .. published')
    <3> DEFINE T == (published + 1) .. published'
    <3>1. /\ T \in SUBSET Job
          /\ \A j \in Job : j \in T <=> j <= published' /\ ~(j <= published)
          /\ \A j \in Job : j <= published => j <= published'
          /\ published' \in 0 .. Files
      BY <1>0, <2>3, RowsAssumption DEF Job, TypeOK
    <3>2. Emit("progress", T)
      BY <2>3
    <3> HIDE DEF T
    <3>3. Adds("progress", T)
      BY <1>0, <3>1, <3>2, EmitAdds, EventForms
    <3> QED BY <1>0, <1>1, <1>3, <1>4, <2>1, <3>1, <3>3, PublishRows DEF RowsPart
  <2> QED BY <2>1, <2>2, <2>3
<1>7. CASE PlannerCancelled
  <2>1. pc # "idle" /\ pc' = "none" /\ published' = published /\ Adds("planCancelled", {})
    BY <1>0, <1>7, PlannerEvents DEF PlannerCancelled
  <2>2. ~Fresh' /\ \A j \in Job : {} # {j}
    BY <1>3, <2>1 DEF Fresh
  <2> QED BY <1>0, <1>1, <1>3, <1>4, <2>1, <2>2, AddedStep DEF Early, RowsPart
<1>8. CASE PlannerFails
  <2>1. PICK t \in {"planFailed", "planFailedFinal"} : Adds(t, {})
    BY <1>0, <1>8, PlannerEvents
  <2>2. pc # "idle" /\ pc' = "none" /\ published' = published
    BY <1>8 DEF PlannerFails
  <2>3. ~Fresh' /\ \A j \in Job : {} # {j}
    BY <1>3, <2>2 DEF Fresh
  <2> DEFINE e == Event(t, {})
  <2>4. e.type = t /\ \A j \in Job : ~Reports(e, j)
    BY DEF Event, Reports, JobEvents, Final
  <2>5. Extends(events, events', EventRecords, {e})
    BY <2>1 DEF Adds
  <2> HIDE DEF e
  <2> QED BY <1>0, <1>1, <1>3, <1>4, <2>2, <2>3, <2>4, <2>5, GrownStep DEF Early, RowsPart
<1>9. CASE PlanningDropped
  <2>1. pc # "idle" /\ pc' = "none" /\ published' = published /\ events' = events
    BY <1>9 DEF PlanningDropped
  <2> QED BY <1>0, <1>1, <1>4, <2>1, QuietStep DEF Early, RowsPart
<1>10. CASE FinishComplete
  <2>1. pc # "idle" /\ pc' = "planned" /\ published' = published /\ Adds("planCompleted", {})
    BY <1>0, <1>10, PlannerEvents DEF FinishComplete
  <2>2. \A j \in Job : {} # {j}
    OBVIOUS
  <2> QED BY <1>0, <1>1, <1>3, <1>4, <2>1, <2>2, AddedStep DEF Early, RowsPart
<1> QED BY <1>5, <1>6, <1>7, <1>8, <1>9, <1>10

\* The handoff task reports the end of a plan that has no jobs.
LEMMA HandoffRows ==
  ASSUME RowsInv,
         NothingPlanned \/ HandoffCancelled \/ HandoffFails \/ SendEnqueue \/ TakePlanningGuard
  PROVE  RowsPart'
<1>0. HandoffInv /\ TypeOK /\ HandedOverOnce /\ [Next]_vars
  BY DEF RowsInv, HandoffInv, Next, PlannerStep
<1>1. /\ pc \in {"none", "planned", "sent"} /\ pc' \in {"sent", "over"}
      /\ published' = published
      /\ plan' = plan /\ kids' = kids /\ rows' = rows
  BY DEF NothingPlanned, HandoffCancelled, HandoffFails, SendEnqueue, TakePlanningGuard, store
<1>2. pc # "idle" /\ pc' \notin Early
  BY <1>1 DEF Early
<1>3. CASE SendEnqueue \/ TakePlanningGuard
  <2>1. events' = events /\ job' = job /\ out' = out
    BY <1>3 DEF SendEnqueue, TakePlanningGuard, manager
  <2>2. PlanningComesFirst' /\ FilesAreAnnounced' /\ ReportsFollow' /\ WaitingIsPristine'
    BY <1>0, <1>1, <1>2, <2>1, QuietStep
  <2>3. Extends(events, events', EventRecords, {})
    BY <1>0, <2>1, SameExtends
  <2>4. ASSUME NEW j \in Job, Tried(j)'
        PROVE  Told(j)'
    <3>1. Told(j)
      BY <2>1, <2>4 DEF RowsInv, OutcomesAreTold, Tried
    <3> QED BY <1>1, <2>1, <2>3, <3>1, ToldGrows
  <2> QED BY <2>2, <2>4 DEF RowsPart, OutcomesAreTold
<1>4. CASE NothingPlanned \/ HandoffCancelled \/ HandoffFails
  <2>1. pc \in {"none", "planned"} /\ pc' = "over" /\ ~SendEnqueue
    BY <1>4 DEF NothingPlanned, HandoffCancelled, HandoffFails, SendEnqueue
  <2>2. NoJobs /\ ~Asked("enqueue")
    BY <1>0, <2>1 DEF HandedOverOnce
  <2>3. ~Fresh'
    BY <1>0, <2>1, <2>2, EnqueueAskedBefore DEF Fresh
  <2>4. CASE NothingPlanned \/ HandoffCancelled
    <3>1. job' = job /\ out' = out
      BY <2>4 DEF NothingPlanned, HandoffCancelled, manager
    <3>2. NoJobs' /\ Untried' = {}
      BY <2>2, <3>1 DEF NoJobs, Untried
    <3>3. events' = events \/ Adds("planCancelled", {})
      BY <1>0, <2>4, PlannerEvents
    <3>4. \A j \in Job : {} # {j}
      OBVIOUS
    <3>5. CASE events' = events
      BY <1>0, <1>1, <1>2, <3>2, <3>5, QuietStep, NothingTried DEF RowsPart
    <3>6. CASE Adds("planCancelled", {})
      BY <1>0, <1>1, <1>2, <2>3, <3>2, <3>4, <3>6, AddedStep, NothingTried DEF RowsPart
    <3> QED BY <3>3, <3>5, <3>6
  <2>5. CASE HandoffFails
    <3> DEFINE T == 1 .. emitted
               E == {Event("failedFinal", {j}) : j \in T}
    <3>1. /\ Extends(events, events', EventRecords, E)
          /\ \A j \in T : \E k \in (Len(events) + 1) .. Len(events') :
                events'[k] = Event("failedFinal", {j})
      BY <1>0, <2>5, HandoffReports
    <3>2. \A e \in E : e.type = "failedFinal" /\ \A j \in Job : Reports(e, j) => j \in T
      BY DEF Event, Reports
    <3>3. \A j \in Job : /\ j \in T => job'[j] = "done" /\ out'[j] = "failedFinal"
                         /\ j \notin T => job'[j] = "none"
      BY <1>0, <2>2, <2>5 DEF HandoffFails, NoJobs, Job, TypeOK
    <3>4. Untried' = {}
      BY <3>3 DEF Untried
    <3> HIDE DEF E
    <3>5. PlanningComesFirst' /\ FilesAreAnnounced' /\ ReportsFollow' /\ WaitingIsPristine'
      <4>1. \A e \in E : e.type \notin {"started", "progress", "planFailed", "planFailedFinal", "planCancelled"}
        BY <3>2
      <4>2. \A e \in E : \A j \in Job : Reports(e, j) => job'[j] # "none" /\ ~Fresh' /\ j \notin Untried'
        BY <2>3, <3>2, <3>3, <3>4
      <4> QED BY <1>0, <1>1, <1>2, <3>1, <4>1, <4>2, GrownStep
    <3>6. ASSUME NEW j \in Job, Tried(j)'
          PROVE  Told(j)'
      <4>1. j \in T /\ out'[j] = "failedFinal"
        BY <3>3, <3>6 DEF Tried
      <4> QED BY <3>1, <4>1, ToldTogether DEF Final, E
    <3> QED BY <3>5, <3>6 DEF RowsPart, OutcomesAreTold
  <2> QED BY <1>4, <2>4, <2>5
<1> QED BY <1>3, <1>4

-----------------------------------------------------------------------------
(* The rows: the manager and the job tasks. *)

\* A step that reports one thing about one job, which it does not leave untried.
LEMMA OneReports ==
  ASSUME RowsInv, [Next]_vars, NEW d \in Job, job[d] # "none", job'[d] # "none", d \notin Untried',
         NEW t \in JobEvents, Adds(t, {d}),
         pc' = pc, published' = published, plan' = plan, kids' = kids, rows' = rows,
         \A j \in Job : j # d => job'[j] = job[j] /\ out'[j] = out[j],
         Tried(d)' => out'[d] = t /\ t \in Final
  PROVE  RowsPart'
<1>0. HandoffInv /\ TypeOK
  BY DEF RowsInv, HandoffInv
<1>1. ~Fresh
  BY <1>0, FreshHasNoJobs DEF NoJobs
<1>2. ~Fresh' /\ pc # "idle" /\ pc' \notin Early
  BY <1>0, <1>1, LateIsLate DEF Fresh, Early
<1>3. t \notin {"started", "progress", "planFailed", "planFailedFinal", "planCancelled"}
  BY DEF JobEvents, Final
<1>4. \A j \in Job : {d} = {j} => j = d
  OBVIOUS
<1>5. PlanningComesFirst' /\ FilesAreAnnounced' /\ ReportsFollow' /\ WaitingIsPristine'
  BY <1>2, <1>3, <1>4, AddedStep
<1> DEFINE e == Event(t, {d})
<1>6. /\ Extends(events, events', EventRecords, {e}) /\ e.type = t
      /\ \A j \in Job : Reports(e, j) => j = d
  BY <1>4 DEF Adds, Event, Reports
<1> HIDE DEF e
<1>7. ASSUME NEW j \in Job, Tried(j)'
      PROVE  Told(j)'
  <2>1. CASE j = d
    BY <1>7, <2>1, ToldLast
  <2>2. CASE j # d
    <3>1. Told(j)
      BY <1>7, <2>2 DEF RowsInv, OutcomesAreTold, Tried
    <3>2. \A x \in {e} : x.type # "progress" /\ ~Reports(x, j)
      BY <1>3, <1>6, <2>2
    <3> QED BY <1>6, <2>2, <3>1, <3>2, ToldGrows
  <2> QED BY <2>1, <2>2
<1> QED BY <1>5, <1>7 DEF RowsPart, OutcomesAreTold

\* A step that reports nothing and brings no job to an end.
LEMMA NothingReported ==
  ASSUME RowsInv, [Next]_vars, events' = events,
         pc' = pc, published' = published, plan' = plan, kids' = kids, rows' = rows,
         \A j \in Job : Tried(j)' => Tried(j) /\ out'[j] = out[j]
  PROVE  RowsPart'
<1>0. HandoffInv /\ TypeOK
  BY DEF RowsInv, HandoffInv
<1>1. PlanningComesFirst' /\ FilesAreAnnounced' /\ ReportsFollow' /\ WaitingIsPristine'
  BY QuietStep
<1>2. Extends(events, events', EventRecords, {})
  BY <1>0, SameExtends
<1>3. ASSUME NEW j \in Job, Tried(j)'
      PROVE  Told(j)'
  BY <1>2, <1>3, ToldGrows DEF RowsInv, OutcomesAreTold
<1> QED BY <1>1, <1>3 DEF RowsPart, OutcomesAreTold

\* The plan is reported cancelled: the jobs that were never tried end with it.
LEMMA PlanReported ==
  ASSUME RowsInv, [Next]_vars, Adds("planCancelled", {}),
         pc \in {"sent", "over"}, pc' = pc, published' = published,
         plan' = plan, kids' = kids, rows' = rows,
         ~Fresh', Untried' = {},
         \A j \in Job : Tried(j)' =>
            \/ Tried(j) /\ out'[j] = out[j]
            \/ out'[j] = "skipped" /\ j \in 1 .. published /\ (Fresh \/ j \in Untried)
  PROVE  RowsPart'
<1>0. HandoffInv /\ TypeOK
  BY DEF RowsInv, HandoffInv
<1>1. pc # "idle" /\ pc' \notin Early /\ \A j \in Job : {} # {j}
  BY DEF Early
<1>2. PlanningComesFirst' /\ FilesAreAnnounced' /\ ReportsFollow' /\ WaitingIsPristine'
  BY <1>1, AddedStep
<1> DEFINE e == Event("planCancelled", {})
<1>3. /\ Extends(events, events', EventRecords, {e}) /\ e.type = "planCancelled"
      /\ \A j \in Job : ~Reports(e, j)
      /\ events'[Len(events')] = e /\ Len(events') = Len(events) + 1
  <2>1. e.type = "planCancelled" /\ \A j \in Job : ~Reports(e, j)
    BY DEF Event, Reports, JobEvents, Final
  <2> QED BY <2>1 DEF Adds
<1> HIDE DEF e
<1>4. InQueue({"planCancelled"})'
  <2>1. Len(events') \in 1 .. Len(events') /\ events'[Len(events')].type = "planCancelled"
    BY <1>3, GrownIndex
  <2> QED BY <2>1 DEF InQueue
<1>5. ASSUME NEW j \in Job, Tried(j)'
      PROVE  Told(j)'
  <2>1. CASE Tried(j) /\ out'[j] = out[j]
    <3>1. Told(j)
      BY <2>1 DEF RowsInv, OutcomesAreTold
    <3> QED BY <1>3, <2>1, <3>1, ToldGrows
  <2>2. CASE out'[j] = "skipped" /\ j \in 1 .. published /\ (Fresh \/ j \in Untried)
    <3>1. Pristine(j)
      BY <2>2 DEF RowsInv, WaitingIsPristine
    <3>2. Pristine(j)'
      BY <1>3, <3>1, PristineGrows
    <3> QED BY <1>4, <2>2, <3>2 DEF Told, WithThePlan, Final
  <2> QED BY <1>5, <2>1, <2>2
<1> QED BY <1>2, <1>5 DEF RowsPart, OutcomesAreTold

\* The jobs arrive unknown to the rows, or are reported as skipped.
LEMMA EnqueueRows ==
  ASSUME RowsInv, Enqueue
  PROVE  RowsPart'
<1>0. HandoffInv /\ TypeOK /\ HandedOverOnce /\ OneEnqueue /\ [Next]_vars
  BY DEF RowsInv, HandoffInv, HandedOverOnce, Next, HandleRequest
<1>1. Handles("enqueue")
  BY DEF Enqueue
<1>2. Asked("enqueue") /\ ~Asked("enqueue")' /\ NoJobs /\ Fresh
  BY <1>0, <1>1, TakeAsked, OneEnqueueTaken DEF HandedOverOnce, Fresh
<1>3. /\ pc \in {"sent", "over"} /\ pc' = pc /\ published' = published
      /\ plan' = plan /\ kids' = kids /\ rows' = rows
  BY <1>0, <1>1, <1>2 DEF Handles, planner, store, HandedOverOnce
<1>4. ~Fresh' /\ pc # "idle" /\ pc' \notin Early
  BY <1>2, <1>3 DEF Fresh, Early
<1> DEFINE T == recorded \cap 1 .. emitted
           E == {Event("skipped", {j}) : j \in T}
<1>5. /\ Extends(events, events', EventRecords, E)
      /\ \A j \in T : \E k \in (Len(events) + 1) .. Len(events') : events'[k] = Event("skipped", {j})
  BY <1>0, EnqueueReports
<1>6. \A e \in E : e.type = "skipped" /\ \A j \in Job : Reports(e, j) => j \in T
  BY DEF Event, Reports
<1>7. /\ job' = [j \in Job |-> IF j \in T THEN "done" ELSE IF j <= emitted THEN "queued" ELSE job[j]]
      /\ out' = [j \in Job |-> IF j \in T THEN "skipped" ELSE out[j]]
  BY DEF Enqueue
<1> HIDE DEF E, T
<1>8. \A j \in Job : /\ j \in T => job'[j] = "done" /\ out'[j] = "skipped"
                     /\ j \notin T => job'[j] \in {"none", "queued"} /\ out'[j] = "none"
  <2>1. \A j \in Job : job[j] = "none" /\ out[j] = "none"
    BY <1>2 DEF NoJobs, RowsInv, JobsArePublished
  <2>2. \A j \in Job : /\ j \in T => job'[j] = "done"
                       /\ j \notin T => job'[j] \in {"none", "queued"}
    BY <1>7, <2>1
  <2>3. \A j \in Job : /\ j \in T => out'[j] = "skipped"
                       /\ j \notin T => out'[j] = "none"
    BY <1>7, <2>1
  <2> QED BY <2>2, <2>3
<1>9. PlanningComesFirst' /\ FilesAreAnnounced' /\ ReportsFollow' /\ WaitingIsPristine'
  <2>1. \A e \in E : e.type \notin {"started", "progress", "planFailed", "planFailedFinal", "planCancelled"}
    BY <1>6
  <2>2. \A e \in E : \A j \in Job : Reports(e, j) => job'[j] # "none" /\ ~Fresh' /\ j \notin Untried'
    BY <1>4, <1>6, <1>8 DEF Untried
  <2> QED BY <1>0, <1>3, <1>4, <1>5, <2>1, <2>2, GrownStep
<1>10. ASSUME NEW j \in Job, Tried(j)'
       PROVE  Told(j)'
  <2>1. j \in T /\ out'[j] = "skipped"
    BY <1>8, <1>10 DEF Tried
  <2> QED BY <1>5, <2>1, ToldTogether DEF Final, E
<1> QED BY <1>9, <1>10 DEF RowsPart, OutcomesAreTold

\* The manager reports what it cancels, job by job or as a plan.
LEMMA ManagerRows ==
  ASSUME RowsInv, HandleRequest
  PROVE  RowsPart'
<1>0. HandoffInv /\ TypeOK /\ HandedOverOnce /\ OneEnqueue /\ RetriesHaveFailed /\ [Next]_vars
  BY DEF RowsInv, HandoffInv, HandedOverOnce, Next
<1>1. /\ pc' = pc /\ published' = published
      /\ plan' = plan /\ kids' = kids /\ rows' = rows
  <2>1. \E t : Handles(t)
    BY DEF HandleRequest, EnqueueCancelled, Enqueue, ForgetPlan, CancelPlan, CancelRoot,
     CancelQueued, CancelRunning, CancelUnknown, Retry, RetryWithoutConnection, RetryUnknown
  <2> QED BY <2>1 DEF Handles, planner, store
<1>2. CASE Enqueue
  BY <1>2, EnqueueRows
<1>3. CASE EnqueueCancelled
  <2>1. Handles("enqueue")
    BY <1>3 DEF EnqueueCancelled
  <2>2. Asked("enqueue") /\ ~Asked("enqueue")' /\ NoJobs /\ Fresh /\ pc \in {"sent", "over"} /\ published = emitted
    BY <1>0, <2>1, TakeAsked, OneEnqueueTaken DEF HandedOverOnce, Fresh, RowsInv, JobsArePublished
  <2>3. ~Fresh'
    BY <1>1, <2>2 DEF Fresh
  <2>4. \A j \in Job : IF j <= emitted THEN job'[j] = "done" /\ out'[j] = "skipped" ELSE job'[j] = "none"
    BY <1>0, <1>3, <2>2 DEF EnqueueCancelled, NoJobs, TypeOK
  <2>5. Untried' = {}
    BY <2>4 DEF Untried
  <2>6. \A j \in Job : Tried(j)' => out'[j] = "skipped" /\ j \in 1 .. published
    BY <1>0, <2>2, <2>4 DEF Tried, TypeOK, Job
  <2>7. Adds("planCancelled", {})
    BY <1>0, <1>3, ManagerEvents
  <2> QED BY <1>0, <1>1, <2>2, <2>3, <2>5, <2>6, <2>7, PlanReported
<1>4. CASE CancelPlan \/ CancelRoot
  <2>1. DoCancelPlan
    BY <1>4 DEF CancelPlan, CancelRoot
  <2>2. /\ \A j \in Job : job'[j] = IF job[j] = "queued" THEN "done" ELSE job[j]
        /\ \A j \in Job : out'[j] = IF job[j] = "queued" /\ out[j] = "none" THEN "skipped" ELSE out[j]
    BY <1>0, <2>1 DEF DoCancelPlan, Queued, Dropped, TypeOK
  <2>3. CASE events' = events /\ Queued \cup Running = {}
    <3>1. \A j \in Job : job'[j] = job[j] /\ out'[j] = out[j]
      BY <2>2, <2>3 DEF Queued
    <3>2. \A j \in Job : Tried(j)' => Tried(j)
      BY <3>1 DEF Tried
    <3> QED BY <1>0, <1>1, <2>3, <3>1, <3>2, NothingReported
  <2>4. CASE Adds("planCancelled", {}) /\ Queued \cup Running # {}
    <3>1. ~NoJobs
      BY <2>4 DEF NoJobs, Queued, Running
    <3>2. ~Fresh /\ pc \in {"sent", "over"}
      BY <1>0, <3>1, FreshHasNoJobs DEF HandedOverOnce
    <3>3. ~Fresh'
      BY <1>0, <3>2, LateIsLate
    <3>4. Untried' = {}
      BY <2>2 DEF Untried
    <3>5. ASSUME NEW j \in Job, Tried(j)'
          PROVE  \/ Tried(j) /\ out'[j] = out[j]
                 \/ out'[j] = "skipped" /\ j \in 1 .. published /\ j \in Untried
      <4>1. CASE j \in Untried
        <5>1. j <= published
          BY <4>1 DEF RowsInv, JobsArePublished, Untried
        <5>2. j \in 1 .. published
          BY <1>0, <5>1 DEF TypeOK, Job
        <5> QED BY <2>2, <4>1, <5>2 DEF Untried
      <4>2. CASE j \notin Untried
        BY <2>2, <3>5, <4>2 DEF Untried, Tried
      <4> QED BY <4>1, <4>2
    <3> QED BY <1>0, <1>1, <2>4, <3>2, <3>3, <3>4, <3>5, PlanReported
  <2> QED BY <1>0, <2>1, <2>3, <2>4, ManagerEvents
<1>5. CASE CancelQueued
  <2>1. PICK d \in Job : d = Head1.id /\ job[d] = "queued"
    BY <1>5 DEF CancelQueued, Queued
  <2>2. /\ Adds("skipped", {d})
        /\ job' = [job EXCEPT ![d] = "done"] /\ out' = [out EXCEPT ![d] = "skipped"]
    BY <1>0, <1>5, <2>1, ManagerEvents DEF CancelQueued
  <2>3. /\ job'[d] = "done" /\ out'[d] = "skipped" /\ d \notin Untried'
        /\ \A j \in Job : j # d => job'[j] = job[j] /\ out'[j] = out[j]
    BY <1>0, <2>2 DEF TypeOK, Untried
  <2>4. "skipped" \in JobEvents /\ "skipped" \in Final
    BY DEF JobEvents, Final
  <2> QED BY <1>0, <1>1, <2>1, <2>2, <2>3, <2>4, OneReports
<1>6. CASE RetryWithoutConnection
  <2>1. PICK d \in Job : d = Head1.id /\ d \in routes
    BY <1>0, <1>6 DEF RetryWithoutConnection, TypeOK
  <2>2. Adds("failed", {d}) /\ job' = job /\ out' = out
    BY <1>0, <1>6, <2>1, ManagerEvents DEF RetryWithoutConnection
  <2>3. job[d] = "done" /\ out[d] = "failed" /\ d \notin Untried'
    BY <1>0, <2>1, <2>2 DEF RetriesHaveFailed, Untried
  <2>4. "failed" \in JobEvents /\ "failed" \in Final
    BY DEF JobEvents, Final
  <2> QED BY <1>0, <1>1, <2>1, <2>2, <2>3, <2>4, OneReports
<1>7. CASE Retry
  <2>1. PICK d \in Job : d = Head1.id /\ d \in routes
    BY <1>0, <1>7 DEF Retry, TypeOK
  <2>2. events' = events /\ job' = [job EXCEPT ![d] = "queued"] /\ out' = out
    BY <1>7, <2>1 DEF Retry
  <2>3. job[d] = "done" /\ out[d] = "failed"
    BY <1>0, <2>1 DEF RetriesHaveFailed
  <2>4. \A j \in Job : Tried(j)' => Tried(j)
    BY <1>0, <2>2, <2>3 DEF Tried, TypeOK
  <2> QED BY <1>0, <1>1, <2>2, <2>4, NothingReported
<1>8. CASE ForgetPlan \/ CancelRunning \/ CancelUnknown \/ RetryUnknown
  <2>1. events' = events /\ job' = job /\ out' = out
    BY <1>8 DEF ForgetPlan, CancelRunning, CancelUnknown, RetryUnknown
  <2>2. \A j \in Job : Tried(j)' => Tried(j)
    BY <2>1 DEF Tried
  <2> QED BY <1>0, <1>1, <2>1, <2>2, NothingReported
<1> QED BY <1>2, <1>3, <1>4, <1>5, <1>6, <1>7, <1>8 DEF HandleRequest

\* A job reports its end with the outcome it came to.
LEMMA JobRows ==
  ASSUME RowsInv, NEW d \in Job, JobStep(d) \/ MakeProgress(d)
  PROVE  RowsPart'
<1>0. HandoffInv /\ TypeOK /\ [Next]_vars
  BY DEF RowsInv, HandoffInv, Next
<1>1. /\ pc' = pc /\ published' = published
      /\ plan' = plan /\ kids' = kids /\ rows' = rows
  BY DEF JobStep, StartJob, AskConflict, BeginWork, EndAttempt, HandleCompleted, MakeProgress,
     JobTask, planner, store
<1>2. CASE StartJob(d)
  <2>1. events' = events /\ job' = [job EXCEPT ![d] = "opening"] /\ out' = out
    BY <1>2 DEF StartJob
  <2>2. \A j \in Job : Tried(j)' => Tried(j)
    BY <1>0, <2>1 DEF Tried, TypeOK
  <2> QED BY <1>0, <1>1, <2>1, <2>2, NothingReported
<1>3. CASE HandleCompleted(d)
  <2>1. events' = events /\ job[d] = "ended" /\ job' = [job EXCEPT ![d] = "done"] /\ out' = out
    BY <1>3 DEF HandleCompleted
  <2>2. \A j \in Job : Tried(j)' => Tried(j)
    BY <1>0, <2>1 DEF Tried, TypeOK
  <2> QED BY <1>0, <1>1, <2>1, <2>2, NothingReported
<1>4. CASE AskConflict(d) \/ BeginWork(d) \/ MakeProgress(d)
  <2>1. PICK t \in {"conflict", "running", "moved"} : Adds(t, {d})
    BY <1>0, <1>4, JobEventsOf
  <2>2. /\ job[d] # "none" /\ job'[d] \in {"asking", "working"} /\ out' = out
        /\ \A j \in Job : j # d => job'[j] = job[j]
    BY <1>0, <1>4 DEF AskConflict, BeginWork, MakeProgress, TypeOK
  <2>3. t \in JobEvents /\ d \notin Untried' /\ ~Tried(d)'
    BY <2>2 DEF JobEvents, Untried, Tried
  <2> QED BY <1>0, <1>1, <2>1, <2>2, <2>3, OneReports
<1>5. CASE EndAttempt(d)
  <2>1. PICK r \in Final : Adds(r, {d}) /\ out' = [out EXCEPT ![d] = r]
    BY <1>0, <1>5, JobEventsOf
  <2>2. /\ job[d] # "none" /\ job'[d] = "ended" /\ out'[d] = r
        /\ \A j \in Job : j # d => job'[j] = job[j] /\ out'[j] = out[j]
    BY <1>0, <1>5, <2>1 DEF EndAttempt, Outcomes, TypeOK
  <2>3. r \in JobEvents /\ d \notin Untried'
    BY <2>2 DEF JobEvents, Untried
  <2> QED BY <1>0, <1>1, <2>1, <2>2, <2>3, OneReports
<1> QED BY <1>2, <1>3, <1>4, <1>5 DEF JobStep

-----------------------------------------------------------------------------
(* The rows: the store. *)

\* What the end of an attempt does to rows and plan.
LEMMA TerminalEffect ==
  ASSUME TypeOK, NEW d \in Job, NEW t \in Final, SetTransferTerminal(d, t)
  PROVE  /\ kids' = kids
         /\ \A j \in Job : rows'[j] = IF j = d /\ Present(d) THEN t ELSE rows[j]
         /\ \/ plan' = plan /\ rows'[Root] = rows[Root]
            \/ /\ plan' = IF \E k \in kids : rows'[k] \in Bad THEN "failed" ELSE "completed"
               /\ PlanFound /\ ~PlanOver
               /\ rows'[Root] = IF Present(Root) THEN plan' ELSE rows[Root]
               /\ \A k \in kids : rows'[k] \in Final
<1> DEFINE rs == IF Present(d) THEN [rows EXCEPT ![d] = t] ELSE rows
<1>0. Root \notin Job /\ Root \in Rows /\ Job \subseteq Rows
  BY JobsAreNats DEF Rows
<1>1. /\ rs \in [Rows -> RowStates] /\ rs[Root] = rows[Root]
      /\ \A j \in Job : rs[j] = IF j = d /\ Present(d) THEN t ELSE rows[j]
  BY <1>0 DEF TypeOK, RowStates, Present
<1>2. kids' = kids /\ FinalizePlanForJob(d, rs) /\ kids \subseteq Job
  BY DEF SetTransferTerminal, TypeOK
<1> HIDE DEF rs
<1>3. CASE PlanFound /\ d \in kids /\ ~PlanOver /\ AllFinished(rs)
  <2> DEFINE s == IF \E k \in kids : rs[k] \in Bad THEN "failed" ELSE "completed"
  <2>0. plan' = s /\ rows' = IF Present(Root) THEN [rs EXCEPT ![Root] = s] ELSE rs
    BY <1>2, <1>3 DEF FinalizePlanForJob, Bad
  <2>a. s \in {"failed", "completed"}
    OBVIOUS
  <2>b. /\ \A j \in Job : rows'[j] = rs[j]
        /\ rows'[Root] = IF Present(Root) THEN plan' ELSE rs[Root]
    <3> HIDE DEF s
    <3> QED BY <1>0, <1>1, <2>0
  <2>1. /\ plan' = IF \E k \in kids : rows'[k] \in Bad THEN "failed" ELSE "completed"
        /\ rows'[Root] = IF Present(Root) THEN plan' ELSE rows[Root]
        /\ \A j \in Job : rows'[j] = rs[j]
    BY <1>1, <1>2, <2>0, <2>b
  <2>2. \A k \in kids : rows'[k] \in Final
    BY <1>2, <1>3, <2>1 DEF AllFinished
  <2> QED BY <1>1, <1>2, <1>3, <2>1, <2>2
<1>4. CASE ~(PlanFound /\ d \in kids /\ ~PlanOver /\ AllFinished(rs))
  BY <1>1, <1>2, <1>4 DEF FinalizePlanForJob
<1> QED BY <1>3, <1>4

\* What the report of a running attempt does.
LEMMA LiveEffect ==
  ASSUME TypeOK, NEW d \in Job, ApplyRunning(d) \/ ApplyConflict(d) \/ ApplyMoved(d)
  PROVE  /\ kids' = kids /\ plan' = plan /\ rows'[Root] = rows[Root]
         /\ \A j \in Job : j # d => rows'[j] = rows[j]
         /\ rows'[d] \in {"running", "waiting", rows[d]}
<1>0. Root \notin Job /\ Root \in Rows /\ Job \subseteq Rows
  BY JobsAreNats DEF Rows
<1> QED BY <1>0 DEF ApplyRunning, ApplyConflict, ApplyMoved, TypeOK

\* What the events of the plan do.
LEMMA PlanEffect ==
  ASSUME TypeOK
  PROVE  /\ ApplyStarted =>
              /\ kids' = kids /\ \A j \in Job : rows'[j] = rows[j]
              /\ plan = "absent" => plan' = "planning"
              /\ rows[Root] = "absent" => rows'[Root] = "planning"
         /\ \A T \in SUBSET Job : ApplyProgress(T) /\ plan = "planning" =>
              /\ plan' = plan /\ kids' = kids \cup T /\ rows'[Root] = rows[Root]
              /\ \A j \in Job : rows'[j] = IF j \in T /\ ~Present(j) THEN "queued" ELSE rows[j]
         /\ ApplyPlanCompleted =>
              /\ kids' = kids /\ \A j \in Job : rows'[j] = rows[j]
              /\ \/ plan' = plan /\ rows'[Root] = rows[Root] /\ plan \notin {"planning", "queued"}
                 \/ /\ plan \in {"planning", "queued"}
                    /\ plan' = IF kids = {} THEN "completed" ELSE "queued"
                    /\ rows'[Root] = IF Present(Root) THEN plan' ELSE rows[Root]
         /\ SetPlanCancelled =>
              /\ kids' = kids
              /\ \/ /\ plan' = plan /\ rows' = rows
                    /\ \/ plan \notin {"planning", "queued", "completed"}
                       \/ \A r \in kids \cup {Root} : Present(r) => rows[r] \in Final
                 \/ /\ plan' = "cancelled" /\ plan \in {"planning", "queued", "completed"}
                    /\ \E r \in kids \cup {Root} : Present(r) /\ rows[r] \notin Final
                    /\ \A j \in Job : rows'[j] = IF j \in kids /\ Present(j) /\ rows[j] \notin Final
                                                 THEN "skipped" ELSE rows[j]
         /\ \A t \in {"failed", "failedFinal"} : SetPlanFailed(t) =>
              /\ kids' = kids
              /\ (plan' = plan /\ rows' = rows) \/ (plan' = "failed" /\ plan # "gone")
              /\ \A j \in Job : ~Present(j) => rows'[j] = rows[j]
              /\ plan = "absent" => plan' = "absent"
<1>0. Root \notin Job /\ Root \in Rows /\ Job \subseteq Rows
  BY JobsAreNats DEF Rows
<1>t. rows \in [Rows -> RowStates] /\ plan \in {"absent", "planning", "queued", "gone", "completed", "cancelled", "failed"}
  BY DEF TypeOK, TerminalPlan
<1>1. ApplyStarted =>
              /\ kids' = kids /\ \A j \in Job : rows'[j] = rows[j]
              /\ plan = "absent" => plan' = "planning"
              /\ rows[Root] = "absent" => rows'[Root] = "planning"
  BY <1>0, <1>t DEF ApplyStarted, Present
<1>2. \A T \in SUBSET Job : ApplyProgress(T) /\ plan = "planning" =>
              /\ plan' = plan /\ kids' = kids \cup T /\ rows'[Root] = rows[Root]
              /\ \A j \in Job : rows'[j] = IF j \in T /\ ~Present(j) THEN "queued" ELSE rows[j]
  BY <1>0, <1>t DEF ApplyProgress, PlanFound, PlanOver, TerminalPlan
<1>3. ApplyPlanCompleted =>
              /\ kids' = kids /\ \A j \in Job : rows'[j] = rows[j]
              /\ \/ plan' = plan /\ rows'[Root] = rows[Root] /\ plan \notin {"planning", "queued"}
                 \/ /\ plan \in {"planning", "queued"}
                    /\ plan' = IF kids = {} THEN "completed" ELSE "queued"
                    /\ rows'[Root] = IF Present(Root) THEN plan' ELSE rows[Root]
  BY <1>0, <1>t DEF ApplyPlanCompleted, PlanFound, PlanOver, TerminalPlan
<1>4. SetPlanCancelled =>
              /\ kids' = kids
              /\ \/ /\ plan' = plan /\ rows' = rows
                    /\ \/ plan \notin {"planning", "queued", "completed"}
                       \/ \A r \in kids \cup {Root} : Present(r) => rows[r] \in Final
                 \/ /\ plan' = "cancelled" /\ plan \in {"planning", "queued", "completed"}
                    /\ \E r \in kids \cup {Root} : Present(r) /\ rows[r] \notin Final
                    /\ \A j \in Job : rows'[j] = IF j \in kids /\ Present(j) /\ rows[j] \notin Final
                                                 THEN "skipped" ELSE rows[j]
  BY <1>0, <1>t DEF SetPlanCancelled, PlanFound
<1>5. \A t \in {"failed", "failedFinal"} : SetPlanFailed(t) =>
              /\ kids' = kids
              /\ (plan' = plan /\ rows' = rows) \/ (plan' = "failed" /\ plan # "gone")
              /\ \A j \in Job : ~Present(j) => rows'[j] = rows[j]
              /\ plan = "absent" => plan' = "absent"
  BY <1>0, <1>t DEF SetPlanFailed, PlanFound
<1> QED BY <1>1, <1>2, <1>3, <1>4, <1>5

\* The events behind the first move up.
LEMMA ShiftedIndex ==
  ASSUME TypeOK, ApplyEvent
  PROVE  /\ Len(events) \in Nat \ {0} /\ Len(events') \in Nat
         /\ \A i \in 1 .. Len(events') : i + 1 \in 1 .. Len(events) /\ events'[i] = events[i + 1]
         /\ \A i \in 1 .. Len(events) : i > 1 => i - 1 \in 1 .. Len(events') /\ events'[i - 1] = events[i]
         /\ 1 \in 1 .. Len(events)
BY StoreTakes

\* The types under way after the store took an event.
LEMMA QueueShifts ==
  ASSUME TypeOK, ApplyEvent, NEW T
  PROVE  /\ InQueue(T)' => InQueue(T)
         /\ InQueue(T) => InQueue(T)' \/ events[1].type \in T
<1>1. ASSUME InQueue(T)' PROVE InQueue(T)
  <2>1. PICK i \in 1 .. Len(events') : events'[i].type \in T
    BY <1>1 DEF InQueue
  <2> QED BY <2>1, ShiftedIndex DEF InQueue
<1>2. ASSUME InQueue(T), events[1].type \notin T PROVE InQueue(T)'
  <2>1. PICK i \in 1 .. Len(events) : events[i].type \in T
    BY <1>2 DEF InQueue
  <2>2. i > 1
    BY <1>2, <2>1
  <2>3. i - 1 \in 1 .. Len(events') /\ events'[i - 1].type \in T
    BY <2>1, <2>2, ShiftedIndex
  <2> QED BY <2>3 DEF InQueue
<1> QED BY <1>1, <1>2

\* The files that are announced after the store took an event.
LEMMA AnnouncedShifts ==
  ASSUME TypeOK, ApplyEvent, NEW j
  PROVE  Announced(j) <=> Announced(j)' \/ (events[1].type = "progress" /\ j \in events[1].ids)
<1>1. ASSUME Announced(j)' PROVE Announced(j)
  <2>1. PICK i \in 1 .. Len(events') : events'[i].type = "progress" /\ j \in events'[i].ids
    BY <1>1 DEF Announced
  <2> QED BY <2>1, ShiftedIndex DEF Announced
<1>2. ASSUME events[1].type = "progress" /\ j \in events[1].ids PROVE Announced(j)
  BY <1>2, ShiftedIndex DEF Announced
<1>3. ASSUME Announced(j), ~(events[1].type = "progress" /\ j \in events[1].ids) PROVE Announced(j)'
  <2>1. PICK i \in 1 .. Len(events) : events[i].type = "progress" /\ j \in events[i].ids
    BY <1>3 DEF Announced
  <2>2. i > 1
    BY <1>3, <2>1
  <2>3. i - 1 \in 1 .. Len(events') /\ events'[i - 1].type = "progress" /\ j \in events'[i - 1].ids
    BY <2>1, <2>2, ShiftedIndex
  <2> QED BY <2>3 DEF Announced
<1> QED BY <1>1, <1>2, <1>3

\* Reports that agreed do so when one was taken.
LEMMA AgreeShifts ==
  ASSUME TypeOK, ApplyEvent, NEW j \in Job, NEW n \in Nat \ {0}, Agree(j, n)
  PROVE  /\ n = 1 => Agree(j, 1)'
         /\ n > 1 => Agree(j, n - 1)'
<1>0. out' = out
  BY DEF ApplyEvent, manager
<1>1. ASSUME NEW m \in Nat, m + 1 >= n
      PROVE  Agree(j, m)'
  <2>1. ASSUME NEW i \in 1 .. Len(events'), i >= m
        PROVE  /\ events'[i].type # "progress"
               /\ Reports(events'[i], j) => events'[i].type = out'[j]
    <3>1. i + 1 \in 1 .. Len(events) /\ events'[i] = events[i + 1] /\ i + 1 >= n
      BY <1>1, <2>1, ShiftedIndex
    <3> QED BY <1>0, <3>1 DEF Agree
  <2> QED BY <2>1 DEF Agree
<1> QED BY <1>1

\* The store changes neither jobs nor requests.
LEMMA StoreKeeps ==
  ASSUME ApplyEvent
  PROVE  /\ job' = job /\ out' = out /\ requests' = requests
         /\ pc' = pc /\ published' = published
         /\ (Fresh' <=> Fresh) /\ Untried' = Untried /\ (NoJobs' <=> NoJobs)
<1>1. /\ job' = job /\ out' = out /\ requests' = requests
      /\ pc' = pc /\ published' = published
  BY DEF ApplyEvent, planner, manager
<1> QED BY <1>1 DEF Fresh, Untried, NoJobs, Asked

\* The first event, in the phase of planning and after it.
LEMMA FirstEvent ==
  ASSUME RowsInv, ApplyEvent
  PROVE  /\ pc # "idle"
         /\ events[1].type = "started" => plan = "absent"
         /\ plan = "absent" => events[1].type = "started"
         /\ events[1].type = "progress" => plan = "planning"
         /\ events[1].type \notin {"started", "progress"} =>
              /\ pc \notin Early
              /\ \A i \in 1 .. Len(events) : events[i].type # "progress"
              /\ \A j \in Job : j \in kids <=> j <= published
<1>0. TypeOK /\ PlanningComesFirst
  BY DEF RowsInv, HandoffInv
<1>1. Len(events) \in Nat \ {0} /\ 1 \in 1 .. Len(events) /\ events # <<>>
  BY <1>0, ShiftedIndex DEF ApplyEvent
<1>2. pc # "idle"
  BY <1>0, <1>1 DEF PlanningComesFirst
<1>3. /\ events[1].type = "started" => plan = "absent"
      /\ plan = "absent" => events[1].type = "started"
  BY <1>0, <1>1, <1>2 DEF PlanningComesFirst
<1>4. events[1].type = "progress" => plan = "planning"
  BY <1>0, <1>1, <1>2 DEF PlanningComesFirst, InQueue
<1>5. ASSUME events[1].type \notin {"started", "progress"}
      PROVE  /\ pc \notin Early
             /\ \A i \in 1 .. Len(events) : events[i].type # "progress"
             /\ \A j \in Job : j \in kids <=> j <= published
  <2>1. pc \notin Early
    BY <1>0, <1>1, <1>2, <1>5 DEF PlanningComesFirst, Early
  <2>2. \A i \in 1 .. Len(events) : 1 \in 1 .. i
    BY <1>1
  <2>3. \A i \in 1 .. Len(events) : events[i].type # "progress"
    BY <1>0, <1>5, <2>2 DEF PlanningComesFirst
  <2>4. \A j \in Job : ~Announced(j)
    BY <2>3 DEF Announced
  <2> QED BY <2>1, <2>3, <2>4 DEF RowsInv, FilesAreAnnounced
<1> QED BY <1>2, <1>3, <1>4, <1>5

\* The store goes through planning as its events arrive.
LEMMA StorePlanning ==
  ASSUME RowsInv, ApplyEvent
  PROVE  PlanningComesFirst'
<1>0. TypeOK /\ PlanningComesFirst /\ pc' = pc /\ pc # "idle"
  BY StoreKeeps, FirstEvent DEF RowsInv, HandoffInv
<1> DEFINE e == events[1]
<1>1. e \in EventRecords /\ Reduce(e)
  BY <1>0, StoreTakes
<1>2. /\ e.type = "started" => plan' = "planning"
      /\ e.type = "progress" => plan' = "planning"
      /\ plan' # "absent"
  <2>1. ASSUME NEW t, NEW T, e = Event(t, T)
        PROVE  e.type = t
    BY <2>1 DEF Event
  <2>2. /\ e.type = "started" => plan = "absent"
        /\ plan = "absent" => e.type = "started"
        /\ e.type = "progress" => plan = "planning"
    BY FirstEvent
  <2> HIDE DEF e
  <2>3. CASE e = Event("started", {Root}) /\ ApplyStarted
    BY <1>0, <2>1, <2>2, <2>3, PlanEffect
  <2>4. ASSUME NEW T \in SUBSET Job, e = Event("progress", T) /\ ApplyProgress(T)
        PROVE  plan' = "planning"
    BY <1>0, <2>1, <2>2, <2>4, PlanEffect
  <2>5. CASE e = Event("planCompleted", {}) /\ ApplyPlanCompleted
    BY <1>0, <2>1, <2>2, <2>5, PlanEffect
  <2>6. CASE e = Event("planCancelled", {}) /\ SetPlanCancelled
    BY <1>0, <2>1, <2>2, <2>6, PlanEffect
  <2>7. ASSUME NEW t \in {"failed", "failedFinal"}, SetPlanFailed(t),
               e.type \in {"planFailed", "planFailedFinal"}
        PROVE  plan' # "absent"
    BY <1>0, <2>2, <2>7, PlanEffect
  <2>8. ASSUME NEW d \in Job, ApplyRunning(d) \/ ApplyConflict(d) \/ ApplyMoved(d),
               e.type # "started"
        PROVE  plan' # "absent"
    BY <1>0, <2>2, <2>8, LiveEffect
  <2>9. ASSUME NEW d \in Job, NEW t \in Final, SetTransferTerminal(d, t), e = Event(t, {d})
        PROVE  plan' # "absent" /\ e.type \notin {"started", "progress"}
    BY <1>0, <2>1, <2>2, <2>9, TerminalEffect DEF Final
  <2>10. ASSUME NEW d \in Job, e = Event("running", {d}) \/ e = Event("conflict", {d}) \/ e = Event("moved", {d})
         PROVE  e.type \notin {"started", "progress"}
    BY <2>1, <2>10
  <2>11. ASSUME e = Event("planFailed", {}) \/ e = Event("planFailedFinal", {})
         PROVE  e.type \in {"planFailed", "planFailedFinal"}
    BY <2>1, <2>11
  <2>12. ASSUME NEW T, e = Event("progress", T) PROVE e.type = "progress"
    BY <2>1, <2>12
  <2> QED BY <1>1, <2>3, <2>4, <2>5, <2>6, <2>7, <2>8, <2>9, <2>10, <2>11, <2>12, ReduceCases
<1> HIDE DEF e
<1>3. ASSUME NEW i \in 1 .. Len(events'), events'[i].type = "progress"
      PROVE  /\ \A k \in 1 .. i : events'[k].type \in {"started", "progress"}
             /\ plan' = "planning"
  <2>1. i + 1 \in 1 .. Len(events) /\ events[i + 1].type = "progress" /\ Len(events') \in Nat
    BY <1>0, <1>3, ShiftedIndex
  <2>2. \A k \in 1 .. (i + 1) : events[k].type \in {"started", "progress"}
    BY <1>0, <2>1 DEF PlanningComesFirst
  <2>3. \A k \in 1 .. i : k \in 1 .. Len(events') /\ k + 1 \in 1 .. (i + 1)
    BY <2>1
  <2>4. 1 \in 1 .. (i + 1)
    BY <2>1
  <2> QED BY <1>0, <1>2, <2>2, <2>3, <2>4, ShiftedIndex DEF e
<1>4. ASSUME NEW i \in 1 .. Len(events'), events'[i].type = "started"
      PROVE  FALSE
  <2>1. i + 1 \in 1 .. Len(events) /\ events[i + 1].type = "started" /\ i + 1 # 1
    BY <1>0, <1>4, ShiftedIndex
  <2> QED BY <1>0, <2>1 DEF PlanningComesFirst
<1>5. ASSUME pc' \in {"planning", "finishing"}
      PROVE  /\ plan' \in {"absent", "planning"}
             /\ \A i \in 1 .. Len(events') : events'[i].type \in {"started", "progress"}
  <2>1. \A i \in 1 .. Len(events) : events[i].type \in {"started", "progress"}
    BY <1>0, <1>5 DEF PlanningComesFirst
  <2>2. e.type \in {"started", "progress"}
    BY <1>0, <2>1, ShiftedIndex DEF e
  <2> QED BY <1>0, <1>2, <2>1, <2>2, ShiftedIndex
<1> QED BY <1>0, <1>2, <1>3, <1>4, <1>5 DEF PlanningComesFirst, InQueue

\* What the first event does, by its kind.
DoesStart(e) ==
    /\ e.type = "started" /\ plan' = "planning" /\ kids' = kids /\ rows'[Root] = "planning"
    /\ \A j \in Job : rows'[j] = rows[j]

DoesPublish(e) ==
    /\ e.type = "progress" /\ e.ids \subseteq Job
    /\ plan' = "planning" /\ kids' = kids \cup e.ids
    /\ rows'[Root] = rows[Root] /\ plan = "planning"
    /\ \A j \in Job : rows'[j] = IF j \in e.ids /\ ~Present(j) THEN "queued" ELSE rows[j]

DoesComplete(e) ==
    /\ e.type = "planCompleted" /\ kids' = kids /\ \A j \in Job : rows'[j] = rows[j]
    /\ \/ plan' = plan /\ rows'[Root] = rows[Root] /\ plan \notin {"planning", "queued"}
       \/ /\ plan \in {"planning", "queued"}
          /\ plan' = IF kids = {} THEN "completed" ELSE "queued"
          /\ rows'[Root] = IF Present(Root) THEN plan' ELSE rows[Root]

DoesCancel(e) ==
    /\ e.type = "planCancelled" /\ kids' = kids
    /\ \/ /\ plan' = plan /\ rows' = rows
          /\ \/ plan \notin {"planning", "queued", "completed"}
             \/ \A r \in kids \cup {Root} : Present(r) => rows[r] \in Final
       \/ /\ plan' = "cancelled" /\ plan \in {"planning", "queued", "completed"}
          /\ \E r \in kids \cup {Root} : Present(r) /\ rows[r] \notin Final
          /\ \A j \in Job : rows'[j] = IF j \in kids /\ Present(j) /\ rows[j] \notin Final
                                       THEN "skipped" ELSE rows[j]

DoesFail(e) ==
    /\ e.type \in {"planFailed", "planFailedFinal"} /\ kids' = kids
    /\ (plan' = plan /\ rows' = rows) \/ (plan' = "failed" /\ plan # "gone")
    /\ \A j \in Job : ~Present(j) => rows'[j] = rows[j]

DoesLive(e, d) ==
    /\ e.type \in {"running", "conflict", "moved"} /\ e.ids = {d}
    /\ kids' = kids /\ plan' = plan /\ rows'[Root] = rows[Root]
    /\ \A j \in Job : j # d => rows'[j] = rows[j]
    /\ rows'[d] \in {"running", "waiting", rows[d]}

DoesEnd(e, d) ==
    /\ e.type \in Final /\ e.ids = {d} /\ kids' = kids
    /\ \A j \in Job : rows'[j] = IF j = d /\ Present(d) THEN e.type ELSE rows[j]
    /\ \/ plan' = plan /\ rows'[Root] = rows[Root]
       \/ /\ plan' = IF \E k \in kids : rows'[k] \in Bad THEN "failed" ELSE "completed"
          /\ plan \in {"planning", "queued"}
          /\ rows'[Root] = IF Present(Root) THEN plan' ELSE rows[Root]
          /\ \A k \in kids : rows'[k] \in Final

\* What apply_event does with an event of each kind.
LEMMA StoreCases ==
  ASSUME RowsInv, ApplyEvent, NEW e, e = events[1]
  PROVE  \/ DoesStart(e) \/ DoesPublish(e) \/ DoesComplete(e) \/ DoesCancel(e) \/ DoesFail(e)
         \/ \E d \in Job : DoesLive(e, d) \/ DoesEnd(e, d)
<1>0. TypeOK
  BY DEF RowsInv, HandoffInv
<1>1. e \in EventRecords /\ Reduce(e)
  BY <1>0, StoreTakes
<1>2. \A t, T : e = Event(t, T) => e.type = t /\ e.ids = T
  BY DEF Event
<1>3. CASE e = Event("started", {Root}) /\ ApplyStarted
  <2>1. plan = "absent" /\ rows[Root] = "absent"
    BY <1>2, <1>3, FirstEvent DEF RowsInv, FilesAreAnnounced
  <2> QED BY <1>0, <1>2, <1>3, <2>1, PlanEffect DEF DoesStart
<1>4. ASSUME NEW T \in SUBSET Job, e = Event("progress", T) /\ ApplyProgress(T)
      PROVE  DoesPublish(e)
  <2>1. plan = "planning"
    BY <1>2, <1>4, FirstEvent
  <2> QED BY <1>0, <1>2, <1>4, <2>1, PlanEffect DEF DoesPublish
<1>5. CASE e = Event("planCompleted", {}) /\ ApplyPlanCompleted
  BY <1>0, <1>2, <1>5, PlanEffect DEF DoesComplete
<1>6. CASE e = Event("planCancelled", {}) /\ SetPlanCancelled
  BY <1>0, <1>2, <1>6, PlanEffect DEF DoesCancel
<1>7. CASE \/ e = Event("planFailed", {}) /\ SetPlanFailed("failed")
           \/ e = Event("planFailedFinal", {}) /\ SetPlanFailed("failedFinal")
  BY <1>0, <1>2, <1>7, PlanEffect DEF DoesFail
<1>8. ASSUME NEW d \in Job,
             \/ e = Event("running", {d}) /\ ApplyRunning(d)
             \/ e = Event("conflict", {d}) /\ ApplyConflict(d)
             \/ e = Event("moved", {d}) /\ ApplyMoved(d)
      PROVE  DoesLive(e, d)
  BY <1>0, <1>2, <1>8, LiveEffect DEF DoesLive
<1>9. ASSUME NEW d \in Job, NEW t \in Final, e = Event(t, {d}) /\ SetTransferTerminal(d, t)
      PROVE  DoesEnd(e, d)
  <2>1. PlanFound /\ ~PlanOver => plan \in {"planning", "queued"}
    BY <1>0 DEF TypeOK, PlanFound, PlanOver, TerminalPlan
  <2>2. e.type = t /\ e.ids = {d}
    BY <1>2, <1>9
  <2> QED BY <1>0, <1>9, <2>1, <2>2, TerminalEffect DEF DoesEnd
<1> QED BY <1>1, <1>3, <1>4, <1>5, <1>6, <1>7, <1>8, <1>9, ReduceCases

\* The store learns of the files that are announced.
LEMMA StoreFiles ==
  ASSUME RowsInv, ApplyEvent
  PROVE  FilesAreAnnounced'
<1>0. TypeOK /\ FilesAreAnnounced /\ published' = published
  BY StoreKeeps DEF RowsInv, HandoffInv
<1>1. PICK e : e = events[1]
  OBVIOUS
<1>2. /\ plan = "absent" => e.type = "started"
      /\ e.type \notin {"started", "progress"} => \A j \in Job : j \in kids <=> j <= published
  BY <1>1, FirstEvent
<1>3. \A j \in Job : Announced(j) <=> Announced(j)' \/ (e.type = "progress" /\ j \in e.ids)
  BY <1>0, <1>1, AnnouncedShifts
<1>4. e.type # "progress" => kids' = kids
  BY <1>1, StoreCases DEF DoesStart, DoesPublish, DoesComplete, DoesCancel, DoesFail, DoesLive, DoesEnd
<1>5. \A j \in Job : j <= published' <=> j \in kids' \/ Announced(j)'
  <2>1. CASE e.type # "progress"
    BY <1>0, <1>3, <1>4, <2>1 DEF FilesAreAnnounced
  <2>2. CASE e.type = "progress"
    <3>1. DoesPublish(e)
      BY <1>1, <2>2, StoreCases DEF DoesStart, DoesComplete, DoesCancel, DoesFail, DoesLive, DoesEnd, Final
    <3> QED BY <1>0, <1>3, <2>2, <3>1 DEF FilesAreAnnounced, DoesPublish
  <2> QED BY <2>1, <2>2
<1>6. ASSUME NEW j \in Job, rows'[j] # "absent"
      PROVE  j \in kids'
  <2>1. rows[j] # "absent" => j \in kids
    BY <1>0 DEF FilesAreAnnounced, Present
  <2>2. CASE DoesPublish(e)
    BY <1>6, <2>1, <2>2 DEF DoesPublish, Present
  <2>3. CASE DoesStart(e) \/ DoesComplete(e) \/ DoesFail(e)
    BY <1>6, <2>1, <2>3 DEF DoesStart, DoesComplete, DoesFail, Present
  <2>4. CASE DoesCancel(e)
    BY <1>6, <2>1, <2>4 DEF DoesCancel, Present
  <2>5. ASSUME NEW d \in Job, DoesLive(e, d)
        PROVE  j \in kids'
    <3>1. CASE j # d
      BY <1>6, <2>1, <2>5, <3>1 DEF DoesLive
    <3>2. CASE j = d
      <4>1. Reports(events[1], d) /\ 1 \in 1 .. Len(events)
        BY <1>0, <1>1, <2>5, ShiftedIndex DEF DoesLive, Reports, JobEvents
      <4>2. job[d] # "none"
        BY <4>1 DEF RowsInv, ReportsFollow
      <4>3. d <= published
        BY <4>2 DEF RowsInv, JobsArePublished
      <4> QED BY <1>2, <2>5, <3>2, <4>3 DEF DoesLive
    <3> QED BY <3>1, <3>2
  <2>6. ASSUME NEW d \in Job, DoesEnd(e, d)
        PROVE  j \in kids'
    BY <1>6, <2>1, <2>6 DEF DoesEnd, Present
  <2> QED BY <1>1, <2>2, <2>3, <2>4, <2>5, <2>6, StoreCases
<1>7. plan' # "absent"
  BY <1>1, <1>2, StoreCases DEF DoesStart, DoesPublish, DoesComplete, DoesCancel, DoesFail, DoesLive, DoesEnd, Final
<1>8. ASSUME plan' \in {"planning", "queued"}
      PROVE  rows'[Root] \in {"planning", "queued"}
  <2>1. plan \in {"planning", "queued"} => rows[Root] \in {"planning", "queued"}
    BY <1>0 DEF FilesAreAnnounced
  <2>2. CASE DoesStart(e) \/ DoesPublish(e)
    BY <2>1, <2>2 DEF DoesStart, DoesPublish
  <2>3. CASE DoesComplete(e)
    BY <1>8, <2>1, <2>3 DEF DoesComplete, Present
  <2>4. CASE DoesCancel(e) \/ DoesFail(e)
    BY <1>8, <2>1, <2>4 DEF DoesCancel, DoesFail
  <2>5. ASSUME NEW d \in Job, DoesLive(e, d) \/ DoesEnd(e, d)
        PROVE  rows'[Root] \in {"planning", "queued"}
    BY <1>8, <2>1, <2>5 DEF DoesLive, DoesEnd
  <2> QED BY <1>1, <2>2, <2>3, <2>4, <2>5, StoreCases
<1> QED BY <1>5, <1>6, <1>7, <1>8 DEF FilesAreAnnounced, Present

\* Fewer reports are under way when one was taken.
LEMMA StoreReports ==
  ASSUME RowsInv, ApplyEvent
  PROVE  ReportsFollow'
<1>0. TypeOK /\ ReportsFollow
  BY DEF RowsInv, HandoffInv
<1>1. ASSUME NEW i \in 1 .. Len(events'), NEW j \in Job, Reports(events'[i], j)
      PROVE  job'[j] # "none"
  BY <1>0, <1>1, ShiftedIndex, StoreKeeps DEF ReportsFollow
<1> QED BY <1>0, <1>1, QueueShifts, StoreKeeps DEF ReportsFollow

\* An event that does not end the plan leaves a waiting job unknown.
LEMMA PristineShifts ==
  ASSUME RowsInv, ApplyEvent, NEW j \in Job, j <= published, Pristine(j),
         events[1].type \notin {"planCancelled", "planFailed", "planFailedFinal"}
  PROVE  Pristine(j)'
<1>0. TypeOK
  BY DEF RowsInv, HandoffInv
<1>1. PICK e : e = events[1]
  OBVIOUS
<1>2. ~Reports(e, j)
  BY <1>0, <1>1, ShiftedIndex DEF Pristine
<1>3. \A i \in 1 .. Len(events') : ~Reports(events'[i], j)
  BY <1>0, ShiftedIndex DEF Pristine
<1>4. e.type \notin {"started", "progress"} => j \in kids
  BY <1>1, FirstEvent
<1>5. /\ plan \in {"absent", "planning", "queued"}
      /\ rows[j] \in {"absent", "queued", "cancelling"}
  BY DEF Pristine
<1>6. /\ plan' \in {"absent", "planning", "queued"}
      /\ rows'[j] \in {"absent", "queued", "cancelling"}
  <2>1. CASE DoesStart(e) \/ DoesPublish(e)
    BY <1>5, <2>1 DEF DoesStart, DoesPublish
  <2>2. CASE DoesComplete(e)
    BY <1>4, <1>5, <2>2 DEF DoesComplete
  <2>3. CASE DoesCancel(e) \/ DoesFail(e)
    BY <1>1, <2>3 DEF DoesCancel, DoesFail
  <2>4. ASSUME NEW d \in Job, DoesLive(e, d)
        PROVE  plan' = plan /\ rows'[j] = rows[j]
    BY <1>2, <2>4 DEF DoesLive, Reports, JobEvents
  <2>5. ASSUME NEW d \in Job, DoesEnd(e, d)
        PROVE  plan' = plan /\ rows'[j] = rows[j]
    <3>1. j # d
      BY <1>2, <2>5 DEF DoesEnd, Reports, JobEvents
    <3>2. rows'[j] = rows[j] /\ rows[j] \notin Final
      BY <1>5, <2>5, <3>1 DEF DoesEnd, Final
    <3>3. j \in kids
      BY <1>4, <2>5 DEF DoesEnd, Final
    <3> QED BY <2>5, <3>2, <3>3 DEF DoesEnd
  <2> QED BY <1>1, <1>5, <2>1, <2>2, <2>3, <2>4, <2>5, StoreCases
<1> QED BY <1>3, <1>6 DEF Pristine

\* So jobs that wait stay unknown to the store.
LEMMA StoreWaiting ==
  ASSUME RowsInv, ApplyEvent
  PROVE  WaitingIsPristine'
<1>0. TypeOK /\ WaitingIsPristine /\ ReportsFollow
  BY DEF RowsInv, HandoffInv
<1> SUFFICES ASSUME NEW j \in 1 .. published', Fresh' \/ j \in Untried'
             PROVE  Pristine(j)'
  BY DEF WaitingIsPristine
<1>1. j \in 1 .. published /\ (Fresh \/ j \in Untried)
  BY StoreKeeps
<1>2. Pristine(j)
  BY <1>0, <1>1 DEF WaitingIsPristine
<1>3. j \in Job /\ j <= published
  BY <1>0, <1>1, RowsAssumption DEF TypeOK, Job
<1>4. ASSUME events[1].type \in {"planCancelled", "planFailed", "planFailedFinal"}
      PROVE  FALSE
  <2>1. InQueue({"planCancelled"}) \/ InQueue({"planFailed", "planFailedFinal"})
    BY <1>0, <1>4, ShiftedIndex DEF InQueue
  <2>2. ~Fresh /\ Untried = {}
    BY <1>0, <2>1 DEF ReportsFollow, NoJobs, Untried
  <2> QED BY <1>1, <2>2
<1> QED BY <1>2, <1>3, <1>4, PristineShifts

\* A row that shows the outcome goes on showing it.
LEMMA RowKept ==
  ASSUME RowsInv, ApplyEvent, NEW j \in Job, job[j] # "none", out[j] \in Final, InTheRow(j)
  PROVE  InTheRow(j)'
<1>0. TypeOK /\ ReportsFollow
  BY DEF RowsInv, HandoffInv
<1>1. PICK e : e = events[1]
  OBVIOUS
<1>2. Agree(j, 1)' /\ out' = out
  BY <1>0, AgreeShifts, StoreKeeps DEF InTheRow
<1>3. e.type # "progress" /\ (Reports(e, j) => e.type = out[j])
  BY <1>0, <1>1, ShiftedIndex DEF InTheRow, Agree
<1>4. e.type \notin {"planFailed", "planFailedFinal"}
  <2>1. ~InQueue({"planFailed", "planFailedFinal"})
    BY <1>0 DEF ReportsFollow, NoJobs
  <2> QED BY <1>0, <1>1, <2>1, ShiftedIndex DEF InQueue
<1>5. rows[j] \in {"absent", out[j]}
  BY DEF InTheRow
<1>6. rows'[j] \in {"absent", out[j]}
  <2>1. CASE DoesStart(e) \/ DoesComplete(e)
    BY <1>5, <2>1 DEF DoesStart, DoesComplete
  <2>2. CASE DoesPublish(e) \/ DoesFail(e)
    BY <1>3, <1>4, <2>2 DEF DoesPublish, DoesFail
  <2>3. CASE DoesCancel(e)
    BY <1>5, <2>3 DEF DoesCancel, Present
  <2>4. ASSUME NEW d \in Job, DoesLive(e, d)
        PROVE  rows'[j] = rows[j]
    <3>1. Reports(e, d) /\ e.type \notin Final
      BY <2>4 DEF DoesLive, Reports, JobEvents, Final
    <3>2. j # d
      BY <1>3, <3>1
    <3> QED BY <2>4, <3>2 DEF DoesLive
  <2>5. ASSUME NEW d \in Job, DoesEnd(e, d)
        PROVE  rows'[j] \in {"absent", out[j]}
    <3>1. Reports(e, d)
      BY <2>5 DEF DoesEnd, Reports, JobEvents
    <3> QED BY <1>3, <1>5, <2>5, <3>1 DEF DoesEnd
  <2> QED BY <1>1, <1>5, <2>1, <2>2, <2>3, <2>4, <2>5, StoreCases
<1> QED BY <1>2, <1>6 DEF InTheRow

\* The event that ends the attempt arrives, or comes closer.
LEMMA EndArrives ==
  ASSUME RowsInv, ApplyEvent, NEW j \in Job, out[j] \in Final, OnItsWay(j)
  PROVE  InTheRow(j)' \/ OnItsWay(j)'
<1>0. TypeOK /\ out' = out
  BY StoreKeeps DEF RowsInv, HandoffInv
<1>1. PICK k \in 1 .. Len(events) : events[k] = Event(out[j], {j}) /\ Agree(j, k)
  BY DEF OnItsWay
<1>2. k \in Nat \ {0}
  BY <1>0, <1>1, ShiftedIndex
<1>3. CASE k > 1
  <2>1. k - 1 \in 1 .. Len(events') /\ events'[k - 1] = Event(out'[j], {j})
    BY <1>0, <1>1, <1>3, ShiftedIndex
  <2>2. Agree(j, k - 1)'
    BY <1>0, <1>1, <1>2, <1>3, AgreeShifts
  <2> QED BY <2>1, <2>2 DEF OnItsWay
<1>4. CASE k = 1
  <2>1. Agree(j, 1)'
    BY <1>0, <1>1, <1>2, <1>4, AgreeShifts
  <2>2. PICK e : e = events[1]
    OBVIOUS
  <2>3. e.type = out[j] /\ e.ids = {j}
    BY <1>1, <1>4, <2>2 DEF Event
  <2>4. e.type \in Final
    BY <2>3
  <2>5. PICK d \in Job : DoesEnd(e, d)
    BY <2>2, <2>4, StoreCases DEF DoesStart, DoesPublish, DoesComplete, DoesCancel, DoesFail,
       DoesLive, Final
  <2>6. d = j
    BY <2>3, <2>5 DEF DoesEnd
  <2>7. rows'[j] \in {"absent", out'[j]}
    BY <1>0, <2>3, <2>5, <2>6 DEF DoesEnd, Present
  <2> QED BY <2>1, <2>7 DEF InTheRow
<1> QED BY <1>2, <1>3, <1>4

\* The plan's cancel is the first thing the row hears of the job.
LEMMA CancelArrives ==
  ASSUME RowsInv, ApplyEvent, NEW j \in Job, job[j] # "none", WithThePlan(j)
  PROVE  InTheRow(j)' \/ WithThePlan(j)'
<1>0. TypeOK /\ ReportsFollow /\ out' = out
  BY StoreKeeps DEF RowsInv, HandoffInv
<1>1. PICK e : e = events[1]
  OBVIOUS
<1>2. e.type \notin {"planFailed", "planFailedFinal"}
  <2>1. ~InQueue({"planFailed", "planFailedFinal"})
    BY <1>0 DEF ReportsFollow, NoJobs
  <2> QED BY <1>0, <1>1, <2>1, ShiftedIndex DEF InQueue
<1>3. j <= published
  BY DEF RowsInv, JobsArePublished
<1>4. Pristine(j) /\ out[j] = "skipped" /\ InQueue({"planCancelled"})
  BY DEF WithThePlan
<1>5. CASE e.type # "planCancelled"
  <2>1. Pristine(j)'
    BY <1>1, <1>2, <1>3, <1>4, <1>5, PristineShifts
  <2>2. InQueue({"planCancelled"})'
    BY <1>0, <1>1, <1>4, <1>5, QueueShifts
  <2> QED BY <1>0, <1>4, <2>1, <2>2 DEF WithThePlan
<1>6. CASE e.type = "planCancelled"
  <2>1. /\ plan # "absent" /\ j \in kids
        /\ \A i \in 1 .. Len(events) : events[i].type # "progress"
    BY <1>1, <1>3, <1>6, FirstEvent
  <2>2. plan \in {"planning", "queued"} /\ rows[j] \in {"absent", "queued", "cancelling"}
    BY <1>4, <2>1 DEF Pristine
  <2>3. DoesCancel(e)
    BY <1>1, <1>6, StoreCases DEF DoesStart, DoesPublish, DoesComplete, DoesFail, DoesLive, DoesEnd, Final
  <2>4. rows'[j] \in {"absent", "skipped"}
    BY <2>1, <2>2, <2>3 DEF DoesCancel, Present, Final
  <2>5. ASSUME NEW i \in 1 .. Len(events')
        PROVE  events'[i].type # "progress" /\ ~Reports(events'[i], j)
    BY <1>0, <1>4, <2>1, <2>5, ShiftedIndex DEF Pristine
  <2>6. Agree(j, 1)'
    BY <2>5 DEF Agree
  <2> QED BY <1>0, <1>4, <2>4, <2>6 DEF InTheRow
<1> QED BY <1>5, <1>6

\* An outcome that was on its way arrives in the row.
LEMMA StoreTold ==
  ASSUME RowsInv, ApplyEvent
  PROVE  OutcomesAreTold'
<1> SUFFICES ASSUME NEW j \in Job, Tried(j)'
             PROVE  Told(j)'
  BY DEF OutcomesAreTold
<1>1. Tried(j) /\ job[j] # "none" /\ out' = out
  BY StoreKeeps DEF Tried
<1>2. Told(j)
  BY <1>1 DEF RowsInv, OutcomesAreTold
<1>3. out[j] \in Final /\ (InTheRow(j) \/ OnItsWay(j) \/ WithThePlan(j))
  BY <1>2 DEF Told
<1>4. InTheRow(j)' \/ OnItsWay(j)' \/ WithThePlan(j)'
  BY <1>1, <1>3, RowKept, EndArrives, CancelArrives
<1> QED BY <1>1, <1>3, <1>4 DEF Told

-----------------------------------------------------------------------------
(* The rows: the user. *)

\* What the user may do to the rows: mark one as being cancelled, take finished ones
\* away, and the plan with them once it is over.
UserMark ==
    /\ events' = events /\ pc' = pc /\ published' = published /\ kids' = kids
    /\ plan' = plan \/ (plan' = "gone" /\ plan \notin {"absent", "planning", "queued"})
    /\ rows'[Root] = rows[Root] \/ (rows[Root] \in Final /\ rows'[Root] = "absent")
    /\ \A j \in Job : \/ rows'[j] = rows[j]
                      \/ rows[j] \in {"queued", "running"} /\ rows'[j] = "cancelling"
                      \/ rows[j] \in Final /\ rows'[j] = "absent"

\* The user marks rows as cancelling, or removes those that are over.
LEMMA UserMarks ==
  ASSUME RowsInv, UserStep
  PROVE  UserMark
<1>0. TypeOK /\ FilesAreAnnounced
  BY DEF RowsInv, HandoffInv
<1>1. events' = events /\ pc' = pc /\ published' = published /\ kids' = kids
  BY DEF UserStep, CancelTransfer, RetryTransfer, ResolveConflict, ClearTerminal, planner, store
<1>2. ASSUME NEW r \in Rows, CancelTransfer(r)
      PROVE  UserMark
  <2>1. plan' = plan /\ CancelControl(r) /\ MarkCancelling(r)
    BY <1>2 DEF CancelTransfer
  <2>2. rows'[Root] = rows[Root]
    BY <1>0, <2>1 DEF CancelControl, MarkCancelling, TypeOK, Rows, Root
  <2>3. \A j \in Job : rows'[j] = rows[j] \/ (rows[j] \in {"queued", "running"} /\ rows'[j] = "cancelling")
    BY <1>0, <2>1 DEF MarkCancelling, TypeOK, Rows
  <2> QED BY <1>1, <2>1, <2>2, <2>3 DEF UserMark
<1>3. CASE \/ \E j \in Job : RetryTransfer(j)
           \/ \E j \in Job, all \in BOOLEAN : ResolveConflict(j, all)
  <2>1. plan' = plan /\ rows' = rows
    BY <1>3 DEF RetryTransfer, ResolveConflict, store
  <2> QED BY <1>1, <2>1 DEF UserMark
<1>4. CASE ClearTerminal
  <2> DEFINE left == {r \in Rows : Present(r) /\ rows[r] \notin Final}
  <2>1. /\ rows' = [r \in Rows |-> IF r \in left THEN rows[r] ELSE "absent"]
        /\ plan' = IF PlanFound /\ (kids \cup {Root}) \cap left = {} THEN "gone" ELSE plan
    BY <1>4 DEF ClearTerminal
  <2>2. \A r \in Rows : rows'[r] = rows[r] \/ (rows[r] \in Final /\ rows'[r] = "absent")
    BY <2>1 DEF Present
  <2>3. plan \in {"planning", "queued"} => Root \in left
    BY <1>0 DEF FilesAreAnnounced, Present, Rows, Final
  <2>4. plan' = plan \/ (plan' = "gone" /\ plan \notin {"absent", "planning", "queued"})
    <3> HIDE DEF left
    <3> QED BY <2>1, <2>3 DEF PlanFound
  <2> QED BY <1>1, <2>2, <2>4 DEF UserMark, Rows
<1> QED BY <1>2, <1>3, <1>4 DEF UserStep

\* A mark leaves a waiting job unknown.
LEMMA MarkPristine ==
  ASSUME UserMark, NEW j \in Job, Pristine(j)
  PROVE  Pristine(j)'
<1>1. rows'[j] = rows[j] \/ rows'[j] \in {"cancelling", "absent"}
  BY DEF UserMark
<1> QED BY <1>1 DEF Pristine, UserMark

\* A mark does not hide an outcome that is told.
LEMMA MarkTold ==
  ASSUME UserMark, NEW j \in Job, out' = out, Told(j)
  PROVE  Told(j)'
<1>1. events' = events /\ out[j] \in Final
  BY DEF UserMark, Told
<1>2. CASE InTheRow(j)
  <2>1. Agree(j, 1)'
    BY <1>1, <1>2 DEF InTheRow, Agree
  <2>2. rows'[j] \in {"absent", out'[j]}
    BY <1>1, <1>2 DEF InTheRow, UserMark, Final
  <2> QED BY <1>1, <2>1, <2>2 DEF Told, InTheRow
<1>3. CASE OnItsWay(j)
  <2>1. OnItsWay(j)'
    BY <1>1, <1>3 DEF OnItsWay, Agree
  <2> QED BY <1>1, <2>1 DEF Told
<1>4. CASE WithThePlan(j)
  <2>1. WithThePlan(j)'
    BY <1>1, <1>4, MarkPristine DEF WithThePlan, InQueue
  <2> QED BY <1>1, <2>1 DEF Told
<1> QED BY <1>2, <1>3, <1>4 DEF Told

\* The user's steps keep the rows in step.
LEMMA UserRows ==
  ASSUME RowsInv, UserStep
  PROVE  RowsPart'
<1>0. HandoffInv /\ TypeOK /\ [Next]_vars
  BY DEF RowsInv, HandoffInv, Next
<1>1. UserMark
  BY UserMarks
<1>2. events' = events /\ pc' = pc /\ published' = published /\ kids' = kids
  BY <1>1 DEF UserMark
<1>3. out' = out /\ \A j \in Job : Tried(j)' => Tried(j)
  <2>1. out' = out
    BY DEF UserStep, CancelTransfer, RetryTransfer, ResolveConflict, ClearTerminal, manager
  <2>2. \A j \in Job : job'[j] = job[j] \/ job'[j] = "answered"
    BY <1>0 DEF UserStep, CancelTransfer, RetryTransfer, ResolveConflict, ClearTerminal, manager, TypeOK
  <2> QED BY <2>1, <2>2 DEF Tried
<1>4. PlanningComesFirst'
  <2>1. /\ plan' = plan \/ plan' = "gone"
        /\ plan \in {"absent", "planning"} => plan' = plan
    BY <1>1 DEF UserMark
  <2> QED BY <1>2, <2>1 DEF RowsInv, PlanningComesFirst, InQueue
<1>5. FilesAreAnnounced'
  <2>1. \A j \in Job : Announced(j)' <=> Announced(j)
    BY <1>2 DEF Announced
  <2>2. \A j \in Job : Present(j)' => Present(j)
    BY <1>1 DEF UserMark, Present, Final
  <2>3. plan' \in {"absent", "planning", "queued"} => plan' = plan
    BY <1>1 DEF UserMark
  <2>4. rows[Root] \in {"absent", "planning", "queued"} => rows'[Root] = rows[Root]
    BY <1>1 DEF UserMark, Final
  <2> QED BY <1>2, <2>1, <2>2, <2>3, <2>4 DEF RowsInv, FilesAreAnnounced
<1>6. ReportsFollow'
  <2>1. \A j \in Job : job[j] # "none" => job'[j] # "none"
    BY <1>0, JobsStay
  <2>2. ~Fresh => ~Fresh' /\ (NoJobs => NoJobs') /\ (Untried = {} => Untried' = {})
    BY <1>0, LateIsLate
  <2> QED BY <1>2, <2>1, <2>2 DEF RowsInv, ReportsFollow, InQueue
<1>7. WaitingIsPristine'
  <2> SUFFICES ASSUME NEW j \in 1 .. published', Fresh' \/ j \in Untried'
               PROVE  Pristine(j)'
    BY DEF WaitingIsPristine
  <2>1. j \in Job /\ j \in 1 .. published
    BY <1>0, <1>2, RowsAssumption DEF TypeOK, Job
  <2>2. Fresh \/ j \in Untried
    BY <1>0, <2>1, WaitedBefore
  <2> QED BY <1>1, <2>1, <2>2, MarkPristine DEF RowsInv, WaitingIsPristine
<1>8. OutcomesAreTold'
  <2> SUFFICES ASSUME NEW j \in Job, Tried(j)'
               PROVE  Told(j)'
    BY DEF OutcomesAreTold
  <2> QED BY <1>1, <1>3, MarkTold DEF RowsInv, OutcomesAreTold
<1> QED BY <1>4, <1>5, <1>6, <1>7, <1>8 DEF RowsPart

-----------------------------------------------------------------------------
(* The rows: the theorem. *)

\* At first there are no rows, events or jobs.
LEMMA RowsInit == Init => RowsInv
<1> SUFFICES ASSUME Init PROVE RowsInv
  OBVIOUS
<1>1. HandoffInv
  BY HandoffInit
<1>2. /\ Len(events) = 0 /\ Len(requests) = 0 /\ events = <<>> /\ pc = "idle"
      /\ published = 0 /\ plan = "absent" /\ kids = {}
      /\ rows[Root] = "absent"
      /\ \A j \in Job : job[j] = "none" /\ out[j] = "none" /\ rows[j] = "absent"
  BY DEF Init, Rows
<1>3. \A j \in Job : ~(j <= 0) /\ ~Announced(j)
  BY <1>2 DEF Job, Announced
<1>4. ~Asked("enqueue") /\ \A T : ~InQueue(T)
  BY <1>2 DEF Asked, InQueue
<1>5. JobsArePublished
  BY <1>2, <1>4 DEF JobsArePublished
<1>6. PlanningComesFirst
  BY <1>2, <1>4 DEF PlanningComesFirst
<1>7. FilesAreAnnounced
  BY <1>2, <1>3 DEF FilesAreAnnounced, Present
<1>8. ReportsFollow
  BY <1>2, <1>4 DEF ReportsFollow
<1>9. WaitingIsPristine
  BY <1>2 DEF WaitingIsPristine
<1>10. OutcomesAreTold
  BY <1>2 DEF OutcomesAreTold, Tried
<1> QED BY <1>1, <1>5, <1>6, <1>7, <1>8, <1>9, <1>10 DEF RowsInv

\* Every step keeps rows and channel in step.
LEMMA RowsStep ==
  ASSUME RowsInv, [Next]_vars
  PROVE  RowsInv'
<1>1. HandoffInv' /\ JobsArePublished'
  BY HandoffStep, PublishedStep DEF RowsInv
<1> SUFFICES RowsPart'
  BY <1>1 DEF RowsInv, RowsPart
<1>2. CASE StartTransfer \/ PlannerStep
  BY <1>2, WalkRows, HandoffRows DEF PlannerStep
<1>3. CASE HandleRequest
  BY <1>3, ManagerRows
<1>4. CASE \E j \in Job : JobStep(j) \/ MakeProgress(j)
  BY <1>4, JobRows
<1>5. CASE ApplyEvent
  BY <1>5, StorePlanning, StoreFiles, StoreReports, StoreWaiting, StoreTold DEF RowsPart
<1>6. CASE UserStep
  BY <1>6, UserRows
<1>7. CASE UNCHANGED vars
  <2>1. /\ events' = events /\ pc' = pc /\ published' = published
        /\ plan' = plan /\ kids' = kids /\ rows' = rows /\ job' = job /\ out' = out
    BY <1>7 DEF vars, planner, manager, store
  <2> QED BY <2>1, NothingReported DEF Tried
<1> QED BY <1>2, <1>3, <1>4, <1>5, <1>6, <1>7 DEF Next

\* Planner, manager, jobs and store keep the rows and the event channel in step: the
\* events of planning come first, a job that waits is unknown to the rows, and the
\* outcome of one that was tried is in its row or on its way there.
THEOREM RowsInvariance == Spec => []RowsInv
BY RowsInit, RowsStep, PTL DEF Spec

\* With the event channel empty, the row of a job whose attempt is over shows what
\* that attempt came to (apply_event, set_plan_cancelled, set_transfer_terminal).
THEOREM RowsAlwaysTell == Spec => []RowsTellTheOutcome
<1>1. RowsInv => RowsTellTheOutcome
  <2> SUFFICES ASSUME RowsInv, events = <<>>, NEW j \in Job,
                      job[j] \in {"ended", "done"}, Present(j)
               PROVE  rows[j] = out[j]
    BY DEF RowsTellTheOutcome
  <2>1. Len(events) = 0
    OBVIOUS
  <2>2. Told(j)
    BY DEF RowsInv, OutcomesAreTold, Tried
  <2>3. ~OnItsWay(j) /\ ~WithThePlan(j)
    BY <2>1 DEF OnItsWay, WithThePlan, InQueue
  <2> QED BY <2>2, <2>3 DEF Told, InTheRow, Present
<1> QED BY <1>1, RowsInvariance, PTL

-----------------------------------------------------------------------------
(* The list as an implementation of its promise: what never goes back. *)

\* No step takes back a success.
LEMMA SettledStays ==
  ASSUME HandoffInv, [Next]_vars, NEW k \in Job, Settled(k)
  PROVE  Settled(k)' /\ out'[k] = out[k]
<1>0. TypeOK /\ RetriesHaveFailed
  BY DEF HandoffInv
<1>s. job[k] \in {"ended", "done"} /\ out[k] \in {"completed", "skipped"}
  BY DEF Settled, Good
<1> SUFFICES job'[k] \in {"ended", "done"} /\ out'[k] = out[k]
  BY DEF Settled
<1>1. CASE Enqueue \/ EnqueueCancelled \/ HandoffFails
  BY <1>s, <1>1, HandoverIsFresh DEF NoJobs
<1>2. CASE /\ ~(Enqueue \/ EnqueueCancelled \/ HandoffFails)
           /\ StartTransfer \/ PlannerStep \/ ApplyEvent \/ UNCHANGED vars
  BY <1>s, <1>2 DEF PlannerStep, StartTransfer, EmitChild, PlannerCancelled, PlannerFails,
       PlanningDropped, FinishFlush, FinishComplete, NothingPlanned, HandoffCancelled,
       SendEnqueue, TakePlanningGuard, ApplyEvent, vars, manager
<1>3. CASE HandleRequest /\ ~(Enqueue \/ EnqueueCancelled)
  <2>1. CASE Retry
    BY <1>0, <1>s, <2>1 DEF Retry, RetriesHaveFailed, TypeOK
  <2> QED BY <1>0, <1>s, <1>3, <2>1 DEF HandleRequest, ForgetPlan, CancelPlan, CancelRoot, DoCancelPlan, Queued,
     CancelQueued, CancelRunning, CancelUnknown, RetryWithoutConnection, RetryUnknown, TypeOK
<1>4. ASSUME NEW j \in Job, JobStep(j) \/ MakeProgress(j)
      PROVE  job'[k] \in {"ended", "done"} /\ out'[k] = out[k]
  BY <1>0, <1>s, <1>4 DEF JobStep, StartJob, AskConflict, BeginWork, EndAttempt, Outcomes, HandleCompleted,
       MakeProgress, TypeOK
<1>5. CASE UserStep
  BY <1>0, <1>s, <1>5 DEF UserStep, CancelTransfer, RetryTransfer, ResolveConflict, ClearTerminal, manager, TypeOK
<1> QED BY <1>1, <1>2, <1>3, <1>4, <1>5 DEF Next

\* Failures and cancels are not forgotten.
LEMMA FailuresStay ==
  ASSUME HandoffInv, [Next]_vars
  PROVE  /\ failures \subseteq failures'
         /\ cancelled => cancelled'
<1>1. CASE StartTransfer \/ PlannerStep \/ ApplyEvent \/ UNCHANGED vars
  BY <1>1 DEF PlannerStep, StartTransfer, EmitChild, PlannerCancelled, PlannerFails,
       PlanningDropped, FinishFlush, FinishComplete, NothingPlanned, HandoffCancelled, HandoffFails,
       SendEnqueue, TakePlanningGuard, ApplyEvent, vars, manager, user
<1>2. CASE HandleRequest
  BY <1>2 DEF HandleRequest, ForgetPlan, CancelPlan, CancelRoot, DoCancelPlan, Enqueue, EnqueueCancelled,
     CancelQueued, CancelRunning, CancelUnknown, Retry, RetryWithoutConnection, RetryUnknown, Handles, user
<1>3. ASSUME NEW j \in Job, JobStep(j) \/ MakeProgress(j)
      PROVE  failures \subseteq failures' /\ cancelled' = cancelled
  BY <1>3 DEF JobStep, StartJob, AskConflict, BeginWork, EndAttempt, HandleCompleted,
       MakeProgress, JobTask, user
<1>4. CASE UserStep
  BY <1>4 DEF UserStep, CancelTransfer, RetryTransfer, ResolveConflict, ClearTerminal, manager, user
<1> QED BY <1>1, <1>2, <1>3, <1>4 DEF Next

\* Only the planner makes a plan ready.
LEMMA ReadyBefore ==
  ASSUME HandoffInv, [Next]_vars, ~FinishComplete, Ready'
  PROVE  Ready
<1>0. TypeOK
  BY DEF HandoffInv
<1>1. CASE Enqueue \/ EnqueueCancelled
  BY <1>0, <1>1, TakeAsked DEF Enqueue, EnqueueCancelled, Ready
<1>2. CASE HandoffFails \/ SendEnqueue
  BY <1>2 DEF HandoffFails, SendEnqueue, Ready
<1>3. CASE ~(Enqueue \/ EnqueueCancelled \/ HandoffFails \/ SendEnqueue)
  <2>1. NoJobs => NoJobs'
    BY <1>3, NoNewJobs DEF NoJobs
  <2>2. Asked("enqueue")' => Asked("enqueue")
    BY <1>0, <1>3, EnqueueAskedBefore
  <2>3. pc' \in {"planned", "sent"} => pc \in {"planned", "sent"}
    <3>1. CASE StartTransfer \/ PlannerStep
      BY <1>3, <3>1 DEF PlannerStep, StartTransfer, EmitChild, PlannerCancelled, PlannerFails,
         PlanningDropped, FinishFlush, NothingPlanned, HandoffCancelled, TakePlanningGuard
    <3>2. CASE ~(StartTransfer \/ PlannerStep)
      BY <3>2, PlaceKept
    <3> QED BY <3>1, <3>2
  <2> QED BY <2>1, <2>2, <2>3 DEF Ready
<1> QED BY <1>1, <1>2, <1>3

\* What the events and the rows say of the outcomes.
TruthPart == FailuresAreKnown /\ LastWord /\ RowsAreTrue /\ CompletedIsSettled

\* Events of other jobs leave what the store will hear of a job as it was.
LEMMA EchoesGrow ==
  ASSUME NEW j \in Job, NEW n \in Nat, Echoes(j, n), NEW E, Extends(events, events', EventRecords, E),
         \A e \in E : ~Reports(e, j), out'[j] = out[j]
  PROVE  Echoes(j, n)'
<1>1. ASSUME NEW i \in 1 .. Len(events'), i >= n, Reports(events'[i], j)
      PROVE  events'[i].type = out'[j]
  BY <1>1, GrownIndex DEF Echoes
<1> QED BY <1>1 DEF Echoes

\* The rows and the plan stay, and the channel grows by reports of one kind.
LEMMA TruthGrows ==
  ASSUME HandoffInv, TruthPart, [Next]_vars, NEW E, Extends(events, events', EventRecords, E),
         plan' = plan, kids' = kids, rows' = rows,
         \A x \in E : \A j \in Job : Reports(x, j) => ~Settled(j),
         \A x \in E : \A j \in Job : Reports(x, j) /\ x.type \in Good => Settled(j)' /\ out'[j] = x.type,
         \A x \in E : \A j \in Job : Reports(x, j) /\ x.type \in Bad => j \in failures',
         \A x, y \in E : x.type = y.type,
         \A j \in Job : out'[j] \in Bad => j \in failures'
  PROVE  TruthPart'
<1>0. TypeOK /\ kids \subseteq Job
  BY DEF HandoffInv, TypeOK
<1>1. ASSUME NEW j \in Job, Settled(j)
      PROVE  Settled(j)' /\ out'[j] = out[j] /\ \A x \in E : ~Reports(x, j)
  BY <1>1, SettledStays
<1>2. failures \subseteq failures'
  BY FailuresStay
<1>3. FailuresAreKnown'
  <2>1. ASSUME NEW j \in Job, NEW i \in 1 .. Len(events'),
               Reports(events'[i], j), events'[i].type \in Bad
        PROVE  j \in failures'
    <3>1. CASE i \in 1 .. Len(events) /\ events'[i] = events[i]
      BY <1>2, <2>1, <3>1 DEF TruthPart, FailuresAreKnown
    <3>2. CASE events'[i] \in E
      BY <2>1, <3>2
    <3> QED BY <3>1, <3>2, GrownIndex
  <2> QED BY <2>1 DEF FailuresAreKnown
<1>4. LastWord'
  <2> SUFFICES ASSUME NEW i \in 1 .. Len(events'), NEW j \in Job,
                      Reports(events'[i], j), events'[i].type \in Good
               PROVE  Settled(j)' /\ out'[j] = events'[i].type /\ Echoes(j, i)'
    BY DEF LastWord
  <2>0. i \in Nat
    BY GrownIndex
  <2>1. CASE i \in 1 .. Len(events) /\ events'[i] = events[i]
    <3>1. Settled(j) /\ out[j] = events[i].type /\ Echoes(j, i)
      BY <2>1 DEF TruthPart, LastWord
    <3>2. Echoes(j, i)'
      BY <1>1, <2>0, <3>1, EchoesGrow
    <3> QED BY <1>1, <2>1, <3>1, <3>2
  <2>2. CASE i > Len(events) /\ events'[i] \in E
    <3>1. Settled(j)' /\ out'[j] = events'[i].type
      BY <2>2
    <3>2. ASSUME NEW k \in 1 .. Len(events'), k >= i
          PROVE  events'[k].type = events'[i].type
      <4>1. events'[k] \in E
        BY <2>0, <2>2, <3>2, GrownIndex
      <4> QED BY <2>2, <4>1
    <3>3. Echoes(j, i)'
      BY <3>1, <3>2 DEF Echoes
    <3> QED BY <3>1, <3>3
  <2> QED BY <2>1, <2>2, GrownIndex
<1>5. RowsAreTrue'
  <2> SUFFICES ASSUME plan' \in {"absent", "planning", "queued", "completed"}, NEW j \in Job
               PROVE  RowIsTrue(j)'
    BY DEF RowsAreTrue
  <2>1. RowIsTrue(j)
    BY DEF TruthPart, RowsAreTrue
  <2>2. ASSUME rows[j] \in Good
        PROVE  Settled(j)' /\ Echoes(j, 1)'
    <3>1. Settled(j) /\ Echoes(j, 1)
      BY <2>1, <2>2 DEF RowIsTrue
    <3> QED BY <1>1, <3>1, EchoesGrow
  <2>3. ASSUME rows[j] \in Bad
        PROVE  j \in failures' /\ job'[j] # "none"
    BY <1>2, <2>1, <2>3, JobsStay DEF RowIsTrue
  <2> QED BY <2>2, <2>3 DEF RowIsTrue
<1>6. CompletedIsSettled'
  <2> SUFFICES ASSUME plan' = "completed"
               PROVE  /\ rows'[Root] \in Final \cup {"absent"}
                      /\ \A j \in kids' : Settled(j)' /\ Echoes(j, 1)' /\ rows'[j] \in Final \cup {"absent"}
    BY DEF CompletedIsSettled
  <2>1. ASSUME NEW j \in kids
        PROVE  Settled(j)' /\ Echoes(j, 1)' /\ rows'[j] \in Final \cup {"absent"}
    <3>1. Settled(j) /\ Echoes(j, 1) /\ rows[j] \in Final \cup {"absent"} /\ j \in Job
      BY <1>0, <2>1 DEF TruthPart, CompletedIsSettled
    <3> QED BY <1>1, <3>1, EchoesGrow
  <2> QED BY <2>1 DEF TruthPart, CompletedIsSettled
<1> QED BY <1>3, <1>4, <1>5, <1>6 DEF TruthPart

\* The order in which the store hears of plan and jobs.
OrderPart == PlanFailsFirst /\ ReadyComesFirst

\* Reports of jobs may be added once the plan is ready.
LEMMA OrderGrows ==
  ASSUME HandoffInv, OrderPart, [Next]_vars, ~FinishComplete,
         NEW E, Extends(events, events', EventRecords, E), plan' = plan,
         \A x \in E : x.type \notin {"planFailed", "planFailedFinal"},
         \A x \in E : \A j \in Job : Reports(x, j) => Ready
  PROVE  OrderPart'
<1>1. ASSUME NEW i \in 1 .. Len(events'), events'[i].type \in {"planFailed", "planFailedFinal"}
      PROVE  /\ plan' \in {"absent", "planning"}
             /\ \A k \in 1 .. (i - 1) : events'[k].type \in {"started", "progress"}
  <2>1. i \in 1 .. Len(events) /\ events'[i] = events[i]
    BY <1>1, GrownIndex
  <2>2. \A k \in 1 .. (i - 1) : k \in 1 .. Len(events) /\ events'[k] = events[k]
    BY <2>1, GrownIndex
  <2> QED BY <1>1, <2>1, <2>2 DEF OrderPart, PlanFailsFirst
<1>2. ASSUME plan' \in {"absent", "planning"}, Ready'
      PROVE  InQueue({"planCompleted"})'
  <2>1. Ready
    BY <1>2, ReadyBefore
  <2> QED BY <1>2, <2>1, QueueGrows DEF OrderPart, ReadyComesFirst
<1>3. ASSUME plan' \in {"absent", "planning"}, NEW i \in 1 .. Len(events'), NEW j \in Job,
             Reports(events'[i], j)
      PROVE  \E k \in 1 .. (i - 1) : events'[k].type = "planCompleted"
  <2>1. CASE i \in 1 .. Len(events) /\ events'[i] = events[i]
    <3>1. PICK k \in 1 .. (i - 1) : events[k].type = "planCompleted"
      BY <1>3, <2>1 DEF OrderPart, ReadyComesFirst
    <3>2. k \in 1 .. Len(events) /\ events'[k] = events[k]
      BY <2>1, <3>1, GrownIndex
    <3> QED BY <3>1, <3>2
  <2>2. CASE i > Len(events) /\ events'[i] \in E
    <3>1. InQueue({"planCompleted"})
      BY <1>3, <2>2 DEF OrderPart, ReadyComesFirst
    <3>2. PICK k \in 1 .. Len(events) : events[k].type = "planCompleted"
      BY <3>1 DEF InQueue
    <3>3. k \in 1 .. (i - 1) /\ events'[k] = events[k]
      BY <2>2, <3>2, GrownIndex
    <3> QED BY <3>2, <3>3
  <2> QED BY <2>1, <2>2, GrownIndex
<1> QED BY <1>1, <1>2, <1>3 DEF OrderPart, PlanFailsFirst, ReadyComesFirst

\* Nothing of a cancel is there, or comes up, before the user asks for one.
NoTrace == ~token /\ recorded = {} /\ ~Asked("cancel") /\ ~Asked("cancelPlan") /\ ~InQueue({"planCancelled"})

\* Only a plan cancel's own event reports it.
LEMMA NotReported ==
  ASSUME TypeOK, ~InQueue({"planCancelled"})
  PROVE  /\ events' = events => ~InQueue({"planCancelled"})'
         /\ \A t, T : Adds(t, T) /\ t # "planCancelled" => ~InQueue({"planCancelled"})'
<1>1. events' = events => ~InQueue({"planCancelled"})'
  BY DEF InQueue
<1>2. ASSUME NEW t, NEW T, Adds(t, T), t # "planCancelled"
      PROVE  ~InQueue({"planCancelled"})'
  <2> DEFINE e == Event(t, T)
             E == {e}
  <2>1. e.type = t /\ Extends(events, events', EventRecords, E)
    BY <1>2 DEF Event, Adds
  <2> HIDE DEF e
  <2>2. \A x \in E : x.type \notin {"planCancelled"}
    BY <1>2, <2>1
  <2> HIDE DEF E
  <2> QED BY <2>1, <2>2, QueueGrows
<1> QED BY <1>1, <1>2

\* Only cancels ask for a cancel.
LEMMA NotSent ==
  ASSUME TypeOK, ~Asked("cancel"), ~Asked("cancelPlan")
  PROVE  /\ requests' = requests => ~Asked("cancel")' /\ ~Asked("cancelPlan")'
         /\ \A t \in {"enqueue", "forget"} : Send(t, Root) => ~Asked("cancel")' /\ ~Asked("cancelPlan")'
         /\ \A r \in Rows : Send("retry", r) => ~Asked("cancel")' /\ ~Asked("cancelPlan")'
         /\ \A t : Handles(t) => t \notin {"cancel", "cancelPlan"} /\ ~Asked("cancel")' /\ ~Asked("cancelPlan")'
<1>1. requests' = requests => ~Asked("cancel")' /\ ~Asked("cancelPlan")'
  BY DEF Asked
<1>2. ASSUME NEW t \in {"enqueue", "forget"}, Send(t, Root)
      PROVE  ~Asked("cancel")' /\ ~Asked("cancelPlan")'
  <2>1. Request(t, Root) \in RequestRecords
    BY RequestForms
  <2> QED BY <1>2, <2>1, SendAsked
<1>3. ASSUME NEW r \in Rows, Send("retry", r)
      PROVE  ~Asked("cancel")' /\ ~Asked("cancelPlan")'
  <2>1. Request("retry", r) \in RequestRecords
    BY RequestForms
  <2> QED BY <1>3, <2>1, SendAsked
<1>4. ASSUME NEW t, Handles(t)
      PROVE  t \notin {"cancel", "cancelPlan"} /\ ~Asked("cancel")' /\ ~Asked("cancelPlan")'
  BY <1>4, TakeAsked
<1> QED BY <1>1, <1>2, <1>3, <1>4

\* A step that leaves a trace of a cancel is the user's.
LEMMA NoTraceStep ==
  ASSUME HandoffInv, NoTrace, [Next]_vars
  PROVE  NoTrace' \/ cancelled'
<1>0. TypeOK /\ ~token /\ recorded = {} /\ ~Asked("cancel") /\ ~Asked("cancelPlan") /\ ~InQueue({"planCancelled"})
  BY DEF HandoffInv, NoTrace
<1>1. CASE StartTransfer \/ PlannerStep
  <2>1. token' = token /\ recorded' = recorded
    BY <1>1 DEF PlannerStep, StartTransfer, EmitChild, PlannerCancelled, PlannerFails,
       PlanningDropped, FinishFlush, FinishComplete, NothingPlanned, HandoffCancelled, HandoffFails,
       SendEnqueue, TakePlanningGuard, manager
  <2>2. ~InQueue({"planCancelled"})'
    <3>1. CASE HandoffFails
      <4> DEFINE E == {Event("failedFinal", {j}) : j \in 1 .. emitted}
      <4>1. Extends(events, events', EventRecords, E)
        BY <1>0, <3>1, HandoffReports
      <4>2. \A x \in E : x.type \notin {"planCancelled"}
        BY DEF Event
      <4> HIDE DEF E
      <4> QED BY <1>0, <4>1, <4>2, QueueGrows
    <3>2. CASE NothingPlanned
      <4>1. events' = events
        BY <1>0, <3>2 DEF NothingPlanned
      <4> QED BY <1>0, <4>1, NotReported
    <3>3. ~PlannerCancelled /\ ~HandoffCancelled
      BY <1>0 DEF PlannerCancelled, HandoffCancelled
    <3>4. CASE ~HandoffFails /\ ~NothingPlanned
      <4>1. events' = events \/ \E t, T : Adds(t, T) /\ t # "planCancelled"
        BY <1>0, <1>1, <3>3, <3>4, PlannerEvents DEF PlannerStep
      <4> QED BY <1>0, <4>1, NotReported
    <3> QED BY <3>1, <3>2, <3>4
  <2>3. ~Asked("cancel")' /\ ~Asked("cancelPlan")'
    <3>1. requests' = requests \/ \E t \in {"enqueue", "forget"} : Send(t, Root)
      BY <1>0, <1>1 DEF PlannerStep, StartTransfer, EmitChild, PlannerCancelled, PlannerFails,
       PlanningDropped, FinishFlush, FinishComplete, NothingPlanned, HandoffCancelled, HandoffFails,
       SendEnqueue, TakePlanningGuard
    <3> QED BY <1>0, <3>1, NotSent
  <2> QED BY <1>0, <2>1, <2>2, <2>3 DEF NoTrace
<1>2. CASE HandleRequest
  <2>1. Enqueue \/ ForgetPlan \/ Retry \/ RetryWithoutConnection \/ RetryUnknown
    BY <1>0, <1>2, NotSent DEF HandleRequest, EnqueueCancelled, CancelPlan, CancelRoot, CancelQueued,
       CancelRunning, CancelUnknown
  <2>2. \E t : Handles(t)
    BY <2>1 DEF Enqueue, ForgetPlan, Retry, RetryWithoutConnection, RetryUnknown
  <2>3. token' = token /\ ~Asked("cancel")' /\ ~Asked("cancelPlan")'
    BY <1>0, <2>2, NotSent DEF Handles, planner
  <2>4. recorded' = {}
    BY <1>0, <2>1 DEF Enqueue, ForgetPlan, Retry, RetryWithoutConnection, RetryUnknown
  <2>5. ~InQueue({"planCancelled"})'
    <3>1. CASE Enqueue
      <4> DEFINE E == {Event("skipped", {j}) : j \in recorded \cap 1 .. emitted}
      <4>1. Extends(events, events', EventRecords, E)
        BY <1>0, <3>1, EnqueueReports
      <4>2. \A x \in E : x.type \notin {"planCancelled"}
        BY DEF Event
      <4> HIDE DEF E
      <4> QED BY <1>0, <4>1, <4>2, QueueGrows
    <3>2. CASE ~Enqueue
      <4>1. events' = events \/ \E t, T : Adds(t, T) /\ t # "planCancelled"
        BY <1>0, <2>1, <3>2, ManagerEvents
      <4> QED BY <1>0, <4>1, NotReported
    <3> QED BY <3>1, <3>2
  <2> QED BY <1>0, <2>3, <2>4, <2>5 DEF NoTrace
<1>3. ASSUME NEW j \in Job, JobStep(j) \/ MakeProgress(j)
      PROVE  NoTrace'
  <2>1. token' = token /\ requests' = requests /\ recorded' = {}
    BY <1>0, <1>3 DEF JobStep, StartJob, AskConflict, BeginWork, EndAttempt, HandleCompleted,
       MakeProgress, JobTask, CleanupPlanIfIdle, planner
  <2>2. events' = events \/ \E t, T : Adds(t, T) /\ t # "planCancelled"
    <3> DEFINE J == {j}
    <3>1. \/ Adds("conflict", J) \/ Adds("running", J) \/ Adds("moved", J) \/ \E r \in Final : Adds(r, J)
          \/ events' = events
      BY <1>0, <1>3, JobEventsOf DEF JobStep
    <3>2. "planCancelled" \notin Final
      BY DEF Final
    <3> HIDE DEF J
    <3> QED BY <3>1, <3>2
  <2>3. ~InQueue({"planCancelled"})'
    BY <1>0, <2>2, NotReported
  <2> QED BY <1>0, <2>1, <2>3, NotSent DEF NoTrace
<1>4. CASE ApplyEvent
  <2>1. token' = token /\ requests' = requests /\ recorded' = recorded
    BY <1>4 DEF ApplyEvent, planner, manager
  <2> QED BY <1>0, <1>4, <2>1, QueueShifts, NotSent DEF NoTrace
<1>5. CASE UserStep
  <2>1. CASE \E r \in Rows : CancelTransfer(r)
    BY <2>1 DEF CancelTransfer
  <2>2. CASE ~\E r \in Rows : CancelTransfer(r)
    <3>1. token' = token /\ recorded' = recorded /\ events' = events
      BY <1>5, <2>2 DEF UserStep, RetryTransfer, ResolveConflict, ClearTerminal, planner, manager
    <3>2. requests' = requests \/ \E r \in Rows : Send("retry", r)
      BY <1>5, <2>2 DEF UserStep, RetryTransfer, ResolveConflict, ClearTerminal, Rows
    <3> QED BY <1>0, <3>1, <3>2, NotSent, NotReported DEF NoTrace
  <2> QED BY <2>1, <2>2
<1>6. CASE UNCHANGED vars
  <2>1. token' = token /\ recorded' = recorded /\ events' = events /\ requests' = requests
    BY <1>6 DEF vars, planner, manager
  <2> QED BY <1>0, <2>1, NotSent, NotReported DEF NoTrace
<1> QED BY <1>1, <1>2, <1>3, <1>4, <1>5, <1>6 DEF Next

\* So every trace goes back to the user.
LEMMA CancelsStep ==
  ASSUME HandoffInv, CancelsWereAsked, [Next]_vars
  PROVE  CancelsWereAsked'
<1>1. cancelled \/ NoTrace
  BY DEF CancelsWereAsked, NoTrace
<1>2. cancelled' \/ NoTrace'
  BY <1>1, FailuresStay, NoTraceStep
<1> QED BY <1>2 DEF CancelsWereAsked, NoTrace

-----------------------------------------------------------------------------
(* The list as an implementation of its promise: planner, manager and jobs. *)

\* Nothing is said of a job.
LEMMA TruthQuiet ==
  ASSUME HandoffInv, TruthPart, [Next]_vars, plan' = plan, kids' = kids, rows' = rows,
         \A j \in Job : out'[j] \in Bad => j \in failures'
  PROVE  /\ events' = events => TruthPart'
         /\ \A t, T : Adds(t, T) /\ t \notin JobEvents => TruthPart'
<1>1. ASSUME events' = events
      PROVE  TruthPart'
  <2>1. Extends(events, events', EventRecords, {})
    BY <1>1, SameExtends DEF HandoffInv
  <2> QED BY <2>1, TruthGrows
<1>2. ASSUME NEW t, NEW T, Adds(t, T), t \notin JobEvents
      PROVE  TruthPart'
  <2> DEFINE e == Event(t, T)
             E == {e}
  <2>1. e.type = t /\ Extends(events, events', EventRecords, E)
    BY <1>2 DEF Event, Adds
  <2> HIDE DEF e
  <2>2. /\ \A x \in E : \A j \in Job : ~Reports(x, j)
        /\ \A x, y \in E : x.type = y.type
    BY <1>2, <2>1 DEF Reports
  <2> HIDE DEF E
  <2> QED BY <2>1, <2>2, TruthGrows
<1> QED BY <1>1, <1>2

\* Steps that report no job keep the order of plan and job events.
LEMMA OrderQuiet ==
  ASSUME HandoffInv, OrderPart, [Next]_vars, plan' = plan, ~FinishComplete
  PROVE  /\ events' = events => OrderPart'
         /\ \A t, T : Adds(t, T) /\ t \notin JobEvents \cup {"planFailed", "planFailedFinal"} => OrderPart'
<1>1. ASSUME events' = events
      PROVE  OrderPart'
  <2>1. Extends(events, events', EventRecords, {})
    BY <1>1, SameExtends DEF HandoffInv
  <2> QED BY <2>1, OrderGrows
<1>2. ASSUME NEW t, NEW T, Adds(t, T), t \notin JobEvents \cup {"planFailed", "planFailedFinal"}
      PROVE  OrderPart'
  <2> DEFINE e == Event(t, T)
             E == {e}
  <2>1. e.type = t /\ Extends(events, events', EventRecords, E)
    BY <1>2 DEF Event, Adds
  <2> HIDE DEF e
  <2>2. /\ \A x \in E : \A j \in Job : ~Reports(x, j)
        /\ \A x \in E : x.type \notin {"planFailed", "planFailedFinal"}
    BY <1>2, <2>1 DEF Reports
  <2> HIDE DEF E
  <2> QED BY <2>1, <2>2, OrderGrows
<1> QED BY <1>1, <1>2

\* One job reports.
LEMMA JobReports ==
  ASSUME HandoffInv, TruthPart, OrderPart, [Next]_vars, plan' = plan, kids' = kids, rows' = rows,
         \A j \in Job : out'[j] \in Bad => j \in failures',
         NEW d \in Job, NEW t \in JobEvents, Adds(t, {d}), ~Settled(d), job[d] # "none",
         t \in Good => Settled(d)' /\ out'[d] = t,
         t \in Bad => d \in failures'
  PROVE  TruthPart' /\ OrderPart'
<1> DEFINE e == Event(t, {d})
           E == {e}
<1>1. e.type = t /\ e.ids = {d} /\ Extends(events, events', EventRecords, E)
  BY DEF Event, Adds
<1>2. ~FinishComplete /\ Ready
  <2>1. ~NoJobs
    BY DEF NoJobs
  <2> QED BY <2>1 DEF FinishComplete, HandoffInv, HandedOverOnce, Ready
<1> HIDE DEF e
<1>3. \A j \in Job : Reports(e, j) => j = d
  BY <1>1 DEF Reports
<1>4. /\ \A x \in E : \A j \in Job : Reports(x, j) => j = d
      /\ \A x \in E : x.type = t
      /\ \A x \in E : x.type \notin {"planFailed", "planFailedFinal"}
  BY <1>1, <1>3 DEF JobEvents, Final
<1> HIDE DEF E
<1>5. TruthPart'
  BY <1>1, <1>4, TruthGrows
<1>6. OrderPart'
  BY <1>1, <1>2, <1>4, OrderGrows
<1> QED BY <1>5, <1>6

\* Many jobs report the same, when they are handed over.
LEMMA JobsReport ==
  ASSUME HandoffInv, TruthPart, OrderPart, [Next]_vars, plan' = plan, kids' = kids, rows' = rows,
         \A j \in Job : out'[j] \in Bad => j \in failures',
         NEW t \in Final, NEW S \in SUBSET Job, NoJobs, Ready, ~FinishComplete,
         Extends(events, events', EventRecords, {Event(t, {j}) : j \in S}),
         \A j \in S : out'[j] = t /\ job'[j] = "done"
  PROVE  TruthPart' /\ OrderPart'
<1> DEFINE E == {Event(t, {j}) : j \in S}
<1>1. \A x \in E : \E j \in S : x.type = t /\ x.ids = {j}
  BY DEF Event
<1>2. Extends(events, events', EventRecords, E)
  OBVIOUS
<1> HIDE DEF E
<1>3. \A x \in E : \A j \in Job : Reports(x, j) => j \in S
  BY <1>1 DEF Reports
<1>4. \A x \in E : x.type = t
  BY <1>1
<1>5. t \notin {"planFailed", "planFailedFinal"}
  BY DEF Final
<1>6. \A j \in Job : ~Settled(j)
  BY DEF NoJobs, Settled
<1>7. \A j \in S : j \in Job /\ out'[j] = t /\ (t \in Good => Settled(j)') /\ (t \in Bad => j \in failures')
  BY DEF Settled
<1>8. TruthPart'
  BY <1>2, <1>3, <1>4, <1>6, <1>7, TruthGrows
<1>9. OrderPart'
  BY <1>2, <1>4, <1>5, OrderGrows
<1> QED BY <1>8, <1>9

\* The planner reports no job, and says that the plan is ready before the handover.
LEMMA PlannerLifecycle ==
  ASSUME LifecycleInv, StartTransfer \/ PlannerStep
  PROVE  TruthPart' /\ OrderPart'
<1>0. HandoffInv /\ TypeOK /\ TruthPart /\ OrderPart /\ [Next]_vars /\ RowsInv /\ FailuresAreKnown
  BY DEF LifecycleInv, RowsInv, HandoffInv, TruthPart, OrderPart, Next
<1>1. plan' = plan /\ kids' = kids /\ rows' = rows
  BY DEF PlannerStep, StartTransfer, EmitChild, PlannerCancelled, PlannerFails,
       PlanningDropped, FinishFlush, FinishComplete, NothingPlanned, HandoffCancelled, HandoffFails,
       SendEnqueue, TakePlanningGuard, store
<1>2. CASE HandoffFails
  <2>1. NoJobs /\ Ready /\ ~FinishComplete
    BY <1>0, <1>2, HandoverIsFresh DEF HandoffFails, Ready, FinishComplete
  <2> DEFINE S == 1 .. emitted
  <2>2. Extends(events, events', EventRecords, {Event("failedFinal", {j}) : j \in S})
    BY <1>0, <1>2, HandoffReports
  <2>3. S \in SUBSET Job /\ "failedFinal" \in Final
    BY <1>0, RowsAssumption DEF TypeOK, Job, Final
  <2>4. \A j \in S : out'[j] = "failedFinal" /\ job'[j] = "done"
    BY <1>0, <1>2, <2>3 DEF HandoffFails, TypeOK
  <2>5. \A j \in Job : out'[j] \in Bad => j \in failures'
    BY <1>0, <1>2 DEF HandoffFails, FailuresAreKnown, TypeOK, Job
  <2> HIDE DEF S
  <2> QED BY <1>0, <1>1, <2>1, <2>2, <2>3, <2>4, <2>5, JobsReport
<1>3. CASE ~HandoffFails
  <2>1. out' = out /\ failures' = failures
    BY <1>3 DEF PlannerStep, StartTransfer, EmitChild, PlannerCancelled, PlannerFails,
       PlanningDropped, FinishFlush, FinishComplete, NothingPlanned, HandoffCancelled,
       SendEnqueue, TakePlanningGuard, manager
  <2>2. \A j \in Job : out'[j] \in Bad => j \in failures'
    BY <1>0, <2>1 DEF FailuresAreKnown
  <2>3. events' = events \/ \E t \in {"started", "progress", "planCompleted", "planCancelled", "planFailed", "planFailedFinal"} :
                               \E T : Adds(t, T)
    BY <1>0, <1>3, PlannerEvents DEF PlannerStep
  <2>4. \A t \in {"started", "progress", "planCompleted", "planCancelled", "planFailed", "planFailedFinal"} : t \notin JobEvents
    BY DEF JobEvents, Final
  <2>5. TruthPart'
    BY <1>0, <1>1, <2>2, <2>3, <2>4, TruthQuiet
  <2>6. CASE ~PlannerFails /\ ~FinishComplete
    <3>1. events' = events \/ \E t \in {"started", "progress", "planCompleted", "planCancelled"} :
                                 \E T : Adds(t, T)
      BY <1>0, <1>3, <2>6, PlannerEvents DEF PlannerStep
    <3>2. OrderPart'
      BY <1>0, <1>1, <2>4, <2>6, <3>1, OrderQuiet
    <3> QED BY <2>5, <3>2
  <2>7. CASE PlannerFails
    <3>1. pc = "planning" /\ NoJobs /\ pc' = "none" /\ job' = job /\ requests' = requests
      BY <1>0, <2>7 DEF PlannerFails, HandoffInv, HandedOverOnce, manager
    <3>2. /\ plan \in {"absent", "planning"}
          /\ \A i \in 1 .. Len(events) : events[i].type \in {"started", "progress"}
      BY <1>0, <3>1 DEF RowsInv, PlanningComesFirst
    <3>3. PICK t \in {"planFailed", "planFailedFinal"} : Adds(t, {})
      BY <1>0, <2>7, PlannerEvents
    <3> DEFINE e == Event(t, {})
    <3>4. /\ Len(events) \in Nat /\ Len(events') = Len(events) + 1
          /\ \A i \in 1 .. Len(events) : events'[i] = events[i]
          /\ events'[Len(events')] = e /\ e.type = t
      BY <3>3 DEF Adds, Extends, Event
    <3> HIDE DEF e
    <3>5. PlanFailsFirst'
      <4>1. ASSUME NEW i \in 1 .. Len(events'), NEW k \in 1 .. (i - 1)
            PROVE  events'[k].type \in {"started", "progress"}
        BY <3>2, <3>4, <4>1
      <4> QED BY <1>1, <3>2, <4>1 DEF PlanFailsFirst
    <3>6. ~Ready'
      <4>1. ~Asked("enqueue")
        BY <1>0, <3>1 DEF HandoffInv, HandedOverOnce
      <4> QED BY <3>1, <4>1 DEF Ready, NoJobs, Asked
    <3>7. ASSUME NEW i \in 1 .. Len(events'), NEW j \in Job
          PROVE  ~Reports(events'[i], j)
      BY <2>4, <3>2, <3>4, <3>7 DEF Reports
    <3>8. ReadyComesFirst'
      BY <3>6, <3>7 DEF ReadyComesFirst
    <3> QED BY <2>5, <3>5, <3>8 DEF OrderPart
  <2>8. CASE FinishComplete
    <3>1. pc = "finishing" /\ Adds("planCompleted", {})
      BY <1>0, <2>8, PlannerEvents DEF FinishComplete
    <3>2. \A i \in 1 .. Len(events) : events[i].type \in {"started", "progress"}
      BY <1>0, <3>1 DEF RowsInv, PlanningComesFirst
    <3> DEFINE e == Event("planCompleted", {})
    <3>4. /\ Len(events) \in Nat /\ Len(events') = Len(events) + 1
          /\ \A i \in 1 .. Len(events) : events'[i] = events[i]
          /\ events'[Len(events')] = e /\ e.type = "planCompleted"
      BY <3>1 DEF Adds, Extends, Event
    <3> HIDE DEF e
    <3>5. \A i \in 1 .. Len(events') : events'[i].type \in {"started", "progress", "planCompleted"}
      BY <3>2, <3>4
    <3>6. PlanFailsFirst'
      BY <3>5 DEF PlanFailsFirst
    <3>7. InQueue({"planCompleted"})'
      BY <3>4 DEF InQueue
    <3>8. ReadyComesFirst'
      BY <2>4, <3>5, <3>7 DEF ReadyComesFirst, Reports
    <3> QED BY <2>5, <3>6, <3>8 DEF OrderPart
  <2> QED BY <2>6, <2>7, <2>8
<1> QED BY <1>2, <1>3

\* The manager reports only jobs it holds, and the outcome it gives them.
LEMMA ManagerLifecycle ==
  ASSUME LifecycleInv, HandleRequest
  PROVE  TruthPart' /\ OrderPart'
<1>0. HandoffInv /\ TypeOK /\ TruthPart /\ OrderPart /\ [Next]_vars /\ FailuresAreKnown /\ RetriesHaveFailed
  BY DEF LifecycleInv, RowsInv, HandoffInv, TruthPart, OrderPart, Next
<1>1. PICK u : Handles(u)
  BY DEF HandleRequest, EnqueueCancelled, Enqueue, ForgetPlan, CancelPlan, CancelRoot,
     CancelQueued, CancelRunning, CancelUnknown, Retry, RetryWithoutConnection, RetryUnknown
<1>2. plan' = plan /\ kids' = kids /\ rows' = rows /\ pc' = pc
  BY <1>1 DEF Handles, store, planner
<1>3. ~FinishComplete
  BY <1>2 DEF FinishComplete
<1>4. "planCancelled" \notin JobEvents \cup {"planFailed", "planFailedFinal"}
  BY DEF JobEvents, Final
<1>5. ASSUME \A j \in Job : out'[j] \in Bad => j \in failures',
             events' = events \/ Adds("planCancelled", {})
      PROVE  TruthPart' /\ OrderPart'
  <2>1. TruthPart'
    BY <1>0, <1>2, <1>4, <1>5, TruthQuiet
  <2>2. OrderPart'
    BY <1>0, <1>2, <1>3, <1>4, <1>5, OrderQuiet
  <2> QED BY <2>1, <2>2
<1>6. CASE EnqueueCancelled
  <2>1. \A j \in Job : out'[j] \in Bad => j \in failures'
    BY <1>0, <1>6 DEF EnqueueCancelled, FailuresAreKnown, Bad, TypeOK
  <2> QED BY <1>0, <1>5, <1>6, <2>1, ManagerEvents
<1>7. CASE Enqueue
  <2> DEFINE S == recorded \cap 1 .. emitted
  <2>1. /\ Extends(events, events', EventRecords, {Event("skipped", {j}) : j \in S})
        /\ S \in SUBSET Job
    BY <1>0, <1>7, EnqueueReports
  <2>2. \A j \in S : out'[j] = "skipped" /\ job'[j] = "done"
    BY <1>0, <1>7, <2>1 DEF Enqueue
  <2>3. \A j \in Job : out'[j] \in Bad => j \in failures'
    BY <1>0, <1>7 DEF Enqueue, FailuresAreKnown, Bad, TypeOK
  <2>4. NoJobs /\ Ready
    BY <1>0, <1>7, HandoverIsFresh, TakeAsked DEF Enqueue, Ready
  <2>5. "skipped" \in Final
    BY DEF Final
  <2> HIDE DEF S
  <2> QED BY <1>0, <1>2, <1>3, <2>1, <2>2, <2>3, <2>4, <2>5, JobsReport
<1>8. CASE CancelPlan \/ CancelRoot
  <2>1. DoCancelPlan
    BY <1>8 DEF CancelPlan, CancelRoot
  <2>2. \A j \in Job : out'[j] \in Bad => j \in failures'
    BY <1>0, <2>1 DEF DoCancelPlan, Dropped, FailuresAreKnown, Bad, TypeOK
  <2> QED BY <1>0, <1>5, <2>1, <2>2, ManagerEvents
<1>9. CASE CancelQueued
  <2>1. PICK d : d = Head1.id
    OBVIOUS
  <2>2. /\ d \in Job /\ job[d] = "queued" /\ Adds("skipped", {d})
        /\ job' = [job EXCEPT ![d] = "done"] /\ out' = [out EXCEPT ![d] = "skipped"] /\ failures' = failures
    BY <1>0, <1>9, <2>1, ManagerEvents DEF CancelQueued, Queued
  <2>3. job'[d] = "done" /\ out'[d] = "skipped"
    BY <1>0, <2>2 DEF TypeOK
  <2>4. \A j \in Job : out'[j] \in Bad => j \in failures'
    BY <1>0, <2>2 DEF FailuresAreKnown, Bad, TypeOK
  <2>5. ~Settled(d) /\ Settled(d)'
    BY <2>2, <2>3 DEF Settled, Good
  <2>6. "skipped" \in JobEvents /\ "skipped" \notin Bad
    BY DEF JobEvents, Final, Bad
  <2> QED BY <1>0, <1>2, <2>2, <2>3, <2>4, <2>5, <2>6, JobReports
<1>10. CASE RetryWithoutConnection
  <2>1. PICK d : d = Head1.id
    OBVIOUS
  <2>2. d \in routes /\ Adds("failed", {d}) /\ out' = out /\ failures' = failures
    BY <1>0, <1>10, <2>1, ManagerEvents DEF RetryWithoutConnection
  <2>3. d \in Job /\ job[d] = "done" /\ out[d] = "failed"
    BY <1>0, <2>2 DEF RetriesHaveFailed, TypeOK
  <2>4. d \in failures /\ ~Settled(d)
    BY <1>0, <2>3 DEF FailuresAreKnown, Bad, Settled, Good
  <2>5. \A j \in Job : out'[j] \in Bad => j \in failures'
    BY <1>0, <2>2 DEF FailuresAreKnown
  <2>6. "failed" \in JobEvents /\ "failed" \notin Good
    BY DEF JobEvents, Final, Good
  <2> QED BY <1>0, <1>2, <2>2, <2>3, <2>4, <2>5, <2>6, JobReports
<1>11. CASE ForgetPlan \/ CancelRunning \/ CancelUnknown \/ Retry \/ RetryUnknown
  <2>1. out' = out /\ failures' = failures
    BY <1>11 DEF ForgetPlan, CancelRunning, CancelUnknown, Retry, RetryUnknown
  <2>2. \A j \in Job : out'[j] \in Bad => j \in failures'
    BY <1>0, <2>1 DEF FailuresAreKnown
  <2> QED BY <1>0, <1>5, <1>11, <2>2, ManagerEvents
<1> QED BY <1>6, <1>7, <1>8, <1>9, <1>10, <1>11 DEF HandleRequest

\* A job's report is true, and a success its last.
LEMMA JobLifecycle ==
  ASSUME LifecycleInv, NEW d \in Job, JobStep(d) \/ MakeProgress(d)
  PROVE  TruthPart' /\ OrderPart'
<1>0. HandoffInv /\ TypeOK /\ TruthPart /\ OrderPart /\ [Next]_vars /\ FailuresAreKnown
  BY DEF LifecycleInv, RowsInv, HandoffInv, TruthPart, OrderPart, Next
<1>1. plan' = plan /\ kids' = kids /\ rows' = rows /\ pc' = pc
  BY DEF JobStep, StartJob, AskConflict, BeginWork, EndAttempt, HandleCompleted,
     MakeProgress, JobTask, store, planner
<1>2. CASE StartJob(d) \/ HandleCompleted(d)
  <2>1. events' = events /\ out' = out /\ failures' = failures
    BY <1>2 DEF StartJob, HandleCompleted
  <2>2. \A j \in Job : out'[j] \in Bad => j \in failures'
    BY <1>0, <2>1 DEF FailuresAreKnown
  <2>3. ~FinishComplete
    BY <1>1 DEF FinishComplete
  <2> QED BY <1>0, <1>1, <2>1, <2>2, <2>3, TruthQuiet, OrderQuiet
<1>3. CASE AskConflict(d) \/ BeginWork(d) \/ MakeProgress(d)
  <2>1. out' = out /\ failures' = failures /\ job[d] \in {"opening", "answered", "working"}
    BY <1>3 DEF AskConflict, BeginWork, MakeProgress
  <2>2. \A j \in Job : out'[j] \in Bad => j \in failures'
    BY <1>0, <2>1 DEF FailuresAreKnown
  <2>3. PICK t \in {"conflict", "running", "moved"} : Adds(t, {d})
    BY <1>0, <1>3, JobEventsOf
  <2>4. t \in JobEvents /\ t \notin Good /\ t \notin Bad
    BY DEF JobEvents, Good, Bad
  <2>5. ~Settled(d)
    BY <2>1 DEF Settled
  <2> QED BY <1>0, <1>1, <2>1, <2>2, <2>3, <2>4, <2>5, JobReports
<1>4. CASE EndAttempt(d)
  <2>1. PICK r \in Outcomes(d) :
            /\ job' = [job EXCEPT ![d] = "ended"]
            /\ out' = [out EXCEPT ![d] = r]
            /\ failures' = IF r \in {"failed", "failedFinal"} THEN failures \cup {d} ELSE failures
            /\ Emit(r, {d})
    BY <1>4 DEF EndAttempt
  <2>2. r \in Final /\ job[d] \notin {"none", "ended", "done"}
    BY <2>1 DEF Outcomes, Final
  <2>3. Adds(r, {d}) /\ r \in JobEvents
    BY <1>0, <2>1, <2>2, EmitAdds, EventForms DEF JobEvents
  <2>4. job'[d] = "ended" /\ out'[d] = r
    BY <1>0, <2>1 DEF TypeOK
  <2>5. \A j \in Job : out'[j] \in Bad => j \in failures'
    BY <1>0, <2>1 DEF FailuresAreKnown, Bad, TypeOK
  <2>6. ~Settled(d) /\ (r \in Good => Settled(d)') /\ (r \in Bad => d \in failures')
    BY <2>1, <2>2, <2>4 DEF Settled, Bad
  <2> QED BY <1>0, <1>1, <2>2, <2>3, <2>4, <2>5, <2>6, JobReports
<1> QED BY <1>2, <1>3, <1>4 DEF JobStep

-----------------------------------------------------------------------------
(* The list as an implementation of its promise: the store. *)

\* What the store will hear of a job after it took an event.
LEMMA EchoesShift ==
  ASSUME TypeOK, ApplyEvent, NEW j \in Job, NEW n \in Nat \ {0}, Echoes(j, n)
  PROVE  /\ n = 1 => Echoes(j, 1)'
         /\ n > 1 => Echoes(j, n - 1)'
<1>0. out' = out
  BY DEF ApplyEvent, manager
<1>1. ASSUME NEW m \in Nat, m + 1 >= n
      PROVE  Echoes(j, m)'
  <2>1. ASSUME NEW i \in 1 .. Len(events'), i >= m, Reports(events'[i], j)
        PROVE  events'[i].type = out'[j]
    <3>1. i + 1 \in 1 .. Len(events) /\ events'[i] = events[i + 1] /\ i + 1 >= n
      BY <1>1, <2>1, ShiftedIndex
    <3> QED BY <1>0, <2>1, <3>1 DEF Echoes
  <2> QED BY <2>1 DEF Echoes
<1> QED BY <1>1

\* What the store writes into a row is what it was told.
LEMMA StoreTruth ==
  ASSUME LifecycleInv, ApplyEvent
  PROVE  TruthPart'
<1>0. /\ RowsInv /\ TypeOK /\ FailuresAreKnown /\ LastWord /\ RowsAreTrue /\ CompletedIsSettled
      /\ ReportsFollow /\ kids \subseteq Job
  BY DEF LifecycleInv, RowsInv, HandoffInv, TypeOK
<1>1. job' = job /\ out' = out /\ failures' = failures
  BY DEF ApplyEvent, manager
<1>2. \A j \in Job : Settled(j)' <=> Settled(j)
  BY <1>1 DEF Settled
<1>3. FailuresAreKnown'
  <2>1. ASSUME NEW j \in Job, NEW i \in 1 .. Len(events'),
               Reports(events'[i], j), events'[i].type \in Bad
        PROVE  j \in failures'
    BY <1>0, <1>1, <2>1, ShiftedIndex DEF FailuresAreKnown
  <2> QED BY <1>0, <1>1, <2>1 DEF FailuresAreKnown
<1>4. LastWord'
  <2> SUFFICES ASSUME NEW i \in 1 .. Len(events'), NEW j \in Job,
                      Reports(events'[i], j), events'[i].type \in Good
               PROVE  Settled(j)' /\ out'[j] = events'[i].type /\ Echoes(j, i)'
    BY DEF LastWord
  <2>1. PICK n \in Nat \ {0} : n = i + 1
    BY <1>0, ShiftedIndex
  <2>2. n \in 1 .. Len(events) /\ events'[i] = events[n] /\ n > 1 /\ n - 1 = i
    BY <1>0, <2>1, ShiftedIndex
  <2>3. Settled(j) /\ out[j] = events[n].type /\ Echoes(j, n)
    BY <1>0, <2>2 DEF LastWord
  <2>4. Echoes(j, n - 1)'
    BY <1>0, <2>1, <2>2, <2>3, EchoesShift
  <2> QED BY <1>1, <1>2, <2>2, <2>3, <2>4
<1>5. PICK e : e = events[1]
  OBVIOUS
<1>6. /\ plan = "absent" => e.type = "started"
      /\ e.type = "started" => plan = "absent"
  BY <1>0, <1>5, FirstEvent
<1>7. /\ 1 \in 1 .. Len(events)
      /\ \A j \in Job : Reports(e, j) /\ e.type \in Good => Settled(j) /\ out[j] = e.type /\ Echoes(j, 1)
      /\ \A j \in Job : Reports(e, j) /\ e.type \in Bad => j \in failures
      /\ \A j \in Job : Reports(e, j) => job[j] # "none"
  <2>1. 1 \in 1 .. Len(events)
    BY <1>0, ShiftedIndex
  <2> QED BY <1>0, <1>5, <2>1 DEF LastWord, FailuresAreKnown, ReportsFollow
<1>8. \A j \in Job : Echoes(j, 1) => Echoes(j, 1)'
  BY <1>0, EchoesShift
<1>9. RowsAreTrue'
  <2> SUFFICES ASSUME plan' \in {"absent", "planning", "queued", "completed"}, NEW j \in Job
               PROVE  RowIsTrue(j)'
    BY DEF RowsAreTrue
  <2>1. plan \in {"absent", "planning", "queued", "completed"}
    BY <1>0, <1>5, <1>6, StoreCases DEF DoesStart, DoesPublish, DoesComplete, DoesCancel, DoesFail, DoesLive, DoesEnd
  <2>2. RowIsTrue(j)
    BY <1>0, <2>1 DEF RowsAreTrue
  <2>3. ASSUME rows'[j] = rows[j] \/ rows'[j] \notin Good \cup Bad
        PROVE  RowIsTrue(j)'
    BY <1>1, <1>2, <1>8, <2>2, <2>3 DEF RowIsTrue
  <2>4. ASSUME NEW d \in Job, DoesEnd(e, d), rows'[j] # rows[j]
        PROVE  RowIsTrue(j)'
    <3>1. j = d /\ rows'[j] = e.type
      BY <2>4 DEF DoesEnd
    <3>2. Reports(e, j)
      BY <2>4, <3>1 DEF DoesEnd, Reports, JobEvents
    <3> QED BY <1>1, <1>2, <1>7, <1>8, <3>1, <3>2 DEF RowIsTrue
  <2>5. CASE DoesStart(e) \/ DoesComplete(e)
    BY <2>3, <2>5 DEF DoesStart, DoesComplete
  <2>6. CASE DoesPublish(e)
    BY <2>3, <2>6 DEF DoesPublish, Good, Bad
  <2>7. CASE DoesCancel(e) \/ DoesFail(e)
    BY <2>3, <2>7 DEF DoesCancel, DoesFail
  <2>8. ASSUME NEW d \in Job, DoesLive(e, d)
        PROVE  RowIsTrue(j)'
    BY <2>3, <2>8 DEF DoesLive, Good, Bad
  <2> QED BY <1>0, <1>5, <2>3, <2>4, <2>5, <2>6, <2>7, <2>8, StoreCases
<1>10. CompletedIsSettled'
  <2> SUFFICES ASSUME plan' = "completed"
               PROVE  /\ rows'[Root] \in Final \cup {"absent"}
                      /\ \A j \in kids' : Settled(j)' /\ Echoes(j, 1)' /\ rows'[j] \in Final \cup {"absent"}
    BY DEF CompletedIsSettled
  <2>1. CASE plan = "completed"
    <3>0. /\ rows[Root] \in Final \cup {"absent"}
          /\ \A j \in kids : Settled(j) /\ Echoes(j, 1) /\ rows[j] \in Final \cup {"absent"}
      BY <1>0, <2>1 DEF CompletedIsSettled
    <3>1. /\ kids' = kids /\ rows'[Root] = rows[Root]
          /\ \/ \A j \in Job : rows'[j] = rows[j]
             \/ \E d \in Job : DoesLive(e, d) \/ DoesEnd(e, d)
      BY <1>0, <1>5, <1>6, <2>1, StoreCases DEF DoesStart, DoesPublish, DoesComplete, DoesCancel,
         DoesFail, DoesLive, DoesEnd
    <3>2. ASSUME NEW j \in kids
          PROVE  rows'[j] \in Final \cup {"absent"}
      <4>0. j \in Job /\ out[j] \in Good /\ Echoes(j, 1) /\ rows[j] \in Final \cup {"absent"}
        BY <1>0, <3>0, <3>2 DEF Settled
      <4>1. ASSUME NEW d \in Job, DoesLive(e, d)
            PROVE  j # d
        <5>1. Reports(e, d) /\ e.type \notin Good
          BY <4>1 DEF DoesLive, Reports, JobEvents, Good
        <5> QED BY <1>5, <1>7, <4>0, <5>1 DEF Echoes
      <4>2. ASSUME NEW d \in Job, DoesEnd(e, d)
            PROVE  rows'[j] \in Final \cup {"absent"}
        BY <4>0, <4>2 DEF DoesEnd
      <4> QED BY <3>1, <4>0, <4>1, <4>2 DEF DoesLive
    <3> QED BY <1>0, <1>2, <1>8, <3>0, <3>1, <3>2
  <2>2. CASE plan # "completed"
    <3>1. CASE DoesComplete(e)
      BY <2>2, <3>1 DEF DoesComplete, Present, Final
    <3>2. ASSUME NEW d \in Job, DoesEnd(e, d)
          PROVE  /\ rows'[Root] \in Final \cup {"absent"}
                 /\ \A j \in kids' : Settled(j)' /\ Echoes(j, 1)' /\ rows'[j] \in Final \cup {"absent"}
      <4>1. /\ kids' = kids /\ \A k \in kids : rows'[k] \in Final /\ rows'[k] \notin Bad
            /\ rows'[Root] = IF Present(Root) THEN plan' ELSE rows[Root]
        BY <2>2, <3>2 DEF DoesEnd
      <4>2. \A k \in kids : k \in Job /\ rows'[k] \in Good
        BY <1>0, <4>1 DEF Final, Good, Bad
      <4>3. \A k \in Job : RowIsTrue(k)'
        BY <1>9 DEF RowsAreTrue
      <4> QED BY <4>1, <4>2, <4>3 DEF RowIsTrue, Present, Final
    <3> QED BY <1>0, <1>5, <2>2, <3>1, <3>2, StoreCases DEF DoesStart, DoesPublish, DoesCancel, DoesFail, DoesLive
  <2> QED BY <2>1, <2>2
<1> QED BY <1>3, <1>4, <1>9, <1>10 DEF TruthPart

\* The store takes plan events before job events.
LEMMA StoreOrder ==
  ASSUME LifecycleInv, ApplyEvent
  PROVE  OrderPart'
<1>0. RowsInv /\ TypeOK /\ PlanFailsFirst /\ ReadyComesFirst
  BY DEF LifecycleInv, RowsInv, HandoffInv
<1>1. PICK e : e = events[1]
  OBVIOUS
<1>2. /\ plan = "absent" => e.type = "started"
      /\ e.type = "started" => plan = "absent"
  BY <1>0, <1>1, FirstEvent
<1>3. e.type \in {"started", "progress"} => plan' = "planning"
  BY <1>0, <1>1, StoreCases DEF DoesStart, DoesPublish, DoesComplete, DoesCancel, DoesFail, DoesLive, DoesEnd, Final
<1>4. ASSUME NEW i \in 1 .. Len(events'), events'[i].type \in {"planFailed", "planFailedFinal"}
      PROVE  /\ plan' \in {"absent", "planning"}
             /\ \A k \in 1 .. (i - 1) : events'[k].type \in {"started", "progress"}
  <2>1. i + 1 \in 1 .. Len(events) /\ events'[i] = events[i + 1]
    BY <1>0, ShiftedIndex
  <2>2. \A k \in 1 .. ((i + 1) - 1) : events[k].type \in {"started", "progress"}
    BY <1>0, <1>4, <2>1 DEF PlanFailsFirst
  <2>3. e.type \in {"started", "progress"}
    BY <1>1, <2>1, <2>2
  <2>4. ASSUME NEW k \in 1 .. (i - 1)
        PROVE  events'[k].type \in {"started", "progress"}
    <3>1. k + 1 \in 1 .. ((i + 1) - 1) /\ k \in 1 .. Len(events')
      BY <2>1, <2>4, <1>0, ShiftedIndex
    <3> QED BY <1>0, <2>2, <3>1, ShiftedIndex
  <2> QED BY <1>3, <2>3, <2>4
<1>5. ASSUME plan' \in {"absent", "planning"}
      PROVE  plan \in {"absent", "planning"} /\ e.type # "planCompleted"
  BY <1>0, <1>1, <1>2, <1>5, StoreCases DEF DoesStart, DoesPublish, DoesComplete, DoesCancel, DoesFail, DoesLive, DoesEnd, Final
<1>6. ASSUME plan' \in {"absent", "planning"}, Ready'
      PROVE  InQueue({"planCompleted"})'
  <2>1. Ready
    BY <1>6, StoreKeeps DEF Ready, Asked
  <2> QED BY <1>0, <1>1, <1>5, <1>6, <2>1, QueueShifts DEF ReadyComesFirst
<1>7. ASSUME plan' \in {"absent", "planning"}, NEW i \in 1 .. Len(events'), NEW j \in Job,
             Reports(events'[i], j)
      PROVE  \E k \in 1 .. (i - 1) : events'[k].type = "planCompleted"
  <2>1. i + 1 \in 1 .. Len(events) /\ events'[i] = events[i + 1]
    BY <1>0, ShiftedIndex
  <2>2. PICK k \in 1 .. ((i + 1) - 1) : events[k].type = "planCompleted"
    BY <1>0, <1>5, <1>7, <2>1 DEF ReadyComesFirst
  <2>3. k > 1 /\ k \in 1 .. Len(events)
    BY <1>1, <1>5, <1>7, <2>1, <2>2
  <2>4. k - 1 \in 1 .. (i - 1) /\ events'[k - 1] = events[k]
    BY <1>0, <2>1, <2>2, <2>3, ShiftedIndex
  <2> QED BY <2>2, <2>4
<1> QED BY <1>4, <1>6, <1>7 DEF OrderPart, PlanFailsFirst, ReadyComesFirst

-----------------------------------------------------------------------------
(* The list as an implementation of its promise: the user, and the invariant. *)

\* The user's marks claim neither success nor failure.
LEMMA UserLifecycle ==
  ASSUME LifecycleInv, UserStep
  PROVE  TruthPart' /\ OrderPart'
<1>0. /\ RowsInv /\ HandoffInv /\ TypeOK /\ [Next]_vars /\ kids \subseteq Job
      /\ FailuresAreKnown /\ LastWord /\ RowsAreTrue /\ CompletedIsSettled /\ PlanFailsFirst /\ ReadyComesFirst
  BY DEF LifecycleInv, RowsInv, HandoffInv, TypeOK, Next
<1>1. UserMark
  BY <1>0, UserMarks
<1>2. events' = events /\ pc' = pc /\ kids' = kids
  BY <1>1 DEF UserMark
<1>3. out' = out /\ failures' = failures
  BY DEF UserStep, CancelTransfer, RetryTransfer, ResolveConflict, ClearTerminal, manager
<1>4. \A j \in Job : Settled(j) => Settled(j)'
  BY <1>0, SettledStays
<1>5. \A j \in Job : \A n : Echoes(j, n) => Echoes(j, n)'
  BY <1>2, <1>3 DEF Echoes
<1>6. FailuresAreKnown' /\ LastWord'
  BY <1>0, <1>2, <1>3, <1>4, <1>5 DEF FailuresAreKnown, LastWord
<1>7. RowsAreTrue'
  <2> SUFFICES ASSUME plan' \in {"absent", "planning", "queued", "completed"}, NEW j \in Job
               PROVE  RowIsTrue(j)'
    BY DEF RowsAreTrue
  <2>1. plan' = plan
    BY <1>1 DEF UserMark
  <2>2. RowIsTrue(j)
    BY <1>0, <2>1 DEF RowsAreTrue
  <2>3. rows'[j] \in Good \cup Bad => rows'[j] = rows[j]
    BY <1>1 DEF UserMark, Good, Bad
  <2>4. job[j] # "none" => job'[j] # "none"
    BY <1>0, JobsStay
  <2> QED BY <1>3, <1>4, <1>5, <2>2, <2>3, <2>4 DEF RowIsTrue
<1>8. CompletedIsSettled'
  <2> SUFFICES ASSUME plan' = "completed"
               PROVE  /\ rows'[Root] \in Final \cup {"absent"}
                      /\ \A j \in kids' : Settled(j)' /\ Echoes(j, 1)' /\ rows'[j] \in Final \cup {"absent"}
    BY DEF CompletedIsSettled
  <2>1. plan = "completed"
    BY <1>1 DEF UserMark
  <2>2. /\ rows[Root] \in Final \cup {"absent"}
        /\ \A j \in kids : Settled(j) /\ Echoes(j, 1) /\ rows[j] \in Final \cup {"absent"}
    BY <1>0, <2>1 DEF CompletedIsSettled
  <2>3. ASSUME NEW j \in kids
        PROVE  rows'[j] \in Final \cup {"absent"}
    <3>1. j \in Job /\ rows[j] \notin {"queued", "running"}
      BY <1>0, <2>2, <2>3 DEF Final
    <3> QED BY <1>1, <2>2, <2>3, <3>1 DEF UserMark
  <2>4. rows'[Root] \in Final \cup {"absent"}
    BY <1>1, <2>2 DEF UserMark
  <2> QED BY <1>0, <1>2, <1>4, <1>5, <2>2, <2>3, <2>4
<1>9. PlanFailsFirst'
  <2>1. plan \in {"absent", "planning"} => plan' = plan
    BY <1>1 DEF UserMark
  <2> QED BY <1>0, <1>2, <2>1 DEF PlanFailsFirst
<1>10. ReadyComesFirst'
  <2>1. plan' \in {"absent", "planning"} => plan' = plan
    BY <1>1 DEF UserMark
  <2>2. Ready' => Ready
    BY <1>0, <1>2, ReadyBefore DEF FinishComplete
  <2> QED BY <1>0, <1>2, <2>1, <2>2 DEF ReadyComesFirst, InQueue
<1> QED BY <1>6, <1>7, <1>8, <1>9, <1>10 DEF TruthPart, OrderPart

\* At first nothing is claimed.
LEMMA LifecycleInit == Init => LifecycleInv
<1> SUFFICES ASSUME Init PROVE LifecycleInv
  OBVIOUS
<1>1. RowsInv
  BY RowsInit
<1>2. /\ Len(events) = 0 /\ Len(requests) = 0 /\ pc = "idle" /\ plan = "absent"
      /\ token = FALSE /\ recorded = {}
      /\ \A j \in Job : job[j] = "none" /\ out[j] = "none" /\ rows[j] = "absent"
  BY DEF Init, Rows
<1>3. ~Ready /\ ~Asked("cancel") /\ ~Asked("cancelPlan") /\ ~InQueue({"planCancelled"})
  BY <1>2 DEF Ready, Asked, InQueue, NoJobs
<1>4. CancelsWereAsked
  BY <1>2, <1>3 DEF CancelsWereAsked
<1>5. FailuresAreKnown /\ LastWord
  BY <1>2 DEF FailuresAreKnown, LastWord, Bad
<1>6. RowsAreTrue /\ CompletedIsSettled
  BY <1>2 DEF RowsAreTrue, RowIsTrue, CompletedIsSettled, Good, Bad
<1>7. PlanFailsFirst /\ ReadyComesFirst
  BY <1>2, <1>3 DEF PlanFailsFirst, ReadyComesFirst
<1> QED BY <1>1, <1>4, <1>5, <1>6, <1>7 DEF LifecycleInv

\* Every step keeps what rows and events claim true.
LEMMA LifecycleStep ==
  ASSUME LifecycleInv, [Next]_vars
  PROVE  LifecycleInv'
<1>0. HandoffInv /\ TypeOK /\ TruthPart /\ OrderPart /\ FailuresAreKnown
  BY DEF LifecycleInv, RowsInv, HandoffInv, TruthPart, OrderPart
<1>1. RowsInv' /\ CancelsWereAsked'
  BY RowsStep, CancelsStep DEF LifecycleInv, RowsInv
<1> SUFFICES TruthPart' /\ OrderPart'
  BY <1>1 DEF LifecycleInv, TruthPart, OrderPart
<1>2. CASE StartTransfer \/ PlannerStep
  BY <1>2, PlannerLifecycle
<1>3. CASE HandleRequest
  BY <1>3, ManagerLifecycle
<1>4. CASE \E j \in Job : JobStep(j) \/ MakeProgress(j)
  BY <1>4, JobLifecycle
<1>5. CASE ApplyEvent
  BY <1>5, StoreTruth, StoreOrder
<1>6. CASE UserStep
  BY <1>6, UserLifecycle
<1>7. CASE UNCHANGED vars
  <2>1. /\ events' = events /\ pc' = pc /\ plan' = plan /\ kids' = kids /\ rows' = rows
        /\ out' = out /\ failures' = failures
    BY <1>7 DEF vars, planner, manager, store
  <2>2. ~FinishComplete /\ \A j \in Job : out'[j] \in Bad => j \in failures'
    BY <1>0, <2>1 DEF FinishComplete, FailuresAreKnown
  <2> QED BY <1>0, <2>1, <2>2, TruthQuiet, OrderQuiet
<1> QED BY <1>2, <1>3, <1>4, <1>5, <1>6, <1>7 DEF Next

\* What events and rows say of a job is true, success is the last word on it, and
\* plan events reach the store before those of its jobs.
THEOREM LifecycleInvariance == Spec => []LifecycleInv
BY LifecycleInit, LifecycleStep, PTL DEF Spec

-----------------------------------------------------------------------------
(* The list as an implementation of its promise: the steps of PlanLifecycle. *)

WorkStates == {"none", "live", "completed", "skipped", "failed"}

\* What became of a file, by the state of its job.
LEMMA WorkIs ==
  ASSUME NEW j \in Job
  PROVE  /\ job[j] = "none" => WorkOf(j) = "none"
         /\ job[j] \in {"ended", "done"} => WorkOf(j) = IF out[j] = "failedFinal" THEN "failed" ELSE out[j]
         /\ job[j] \notin {"none", "ended", "done"} => WorkOf(j) = "live"
BY DEF WorkOf

\* The same after a step.
LEMMA WorkBecomes ==
  ASSUME NEW j \in Job
  PROVE  /\ job'[j] = "none" => WorkOf(j)' = "none"
         /\ job'[j] \in {"ended", "done"} =>
                WorkOf(j)' = IF out'[j] = "failedFinal" THEN "failed" ELSE out'[j]
         /\ job'[j] \notin {"none", "ended", "done"} => WorkOf(j)' = "live"
BY DEF WorkOf

\* It is one of the states of PlanLifecycle.
LEMMA WorkTyped ==
  ASSUME RowsInv'
  PROVE  \A j \in Job : WorkOf(j)' \in WorkStates
<1>1. ASSUME NEW j \in Job, job'[j] \in {"ended", "done"}
      PROVE  out'[j] \in Final
  BY <1>1 DEF RowsInv, OutcomesAreTold, Tried, Told
<1> QED BY <1>1, WorkBecomes DEF WorkStates, Final

\* What the detailed step has to show for each step of the promise.
LEMMA Stutters ==
  ASSUME plan' = plan, published' = published, failures' = failures, cancelled' = cancelled,
         \A j \in Job : WorkOf(j)' = WorkOf(j)
  PROVE  UNCHANGED Lifecycle!vars
BY DEF Lifecycle!vars

\* Jobs that move legally, and only they, make a step of PlanLifecycle.
LEMMA JobsMoved ==
  ASSUME LifecycleInv', plan' = plan, published' = published, cancelled' = cancelled,
         failures \subseteq failures',
         \A j \in failures' : j \in failures \/ WorkOf(j)' = "failed",
         \A j \in Job : \/ WorkOf(j)' = WorkOf(j)
                        \/ WorkOf(j) = "none" /\ WorkOf(j)' \in {"live", "skipped", "failed"}
                        \/ WorkOf(j) = "live" /\ WorkOf(j)' \in {"completed", "skipped", "failed"}
                        \/ WorkOf(j) = "failed" /\ WorkOf(j)' = "live"
  PROVE  Lifecycle!JobsMove
<1>0. RowsInv' /\ TypeOK' /\ JobsArePublished' /\ FailuresAreKnown'
  BY DEF LifecycleInv, RowsInv, HandoffInv
<1>1. [j \in Job |-> WorkOf(j)]' \in [Job -> {"none", "live"} \cup Lifecycle!Ended]
  <2>1. \A j \in Job : WorkOf(j)' \in WorkStates
    BY <1>0, WorkTyped
  <2> QED BY <2>1 DEF WorkStates, Lifecycle!Ended
<1>2. ASSUME NEW j \in Job
      PROVE  Lifecycle!LegalMove(j)
  BY DEF Lifecycle!LegalMove, Lifecycle!Ended
<1>3. ASSUME NEW j \in Job, WorkOf(j)' # "none"
      PROVE  j \in 1 .. published
  <2>1. job'[j] # "none"
    BY <1>3, WorkBecomes
  <2>2. j <= published
    BY <1>0, <2>1 DEF JobsArePublished
  <2>3. published \in Nat /\ j \in Nat \ {0}
    BY <1>0 DEF TypeOK, Job
  <2> QED BY <2>2, <2>3
<1>4. failures' = failures \cup {j \in Job : WorkOf(j)' = "failed"}
  <2>1. ASSUME NEW j \in Job, WorkOf(j)' = "failed"
        PROVE  j \in failures'
    <3>1. job'[j] \in {"ended", "done"} /\ out'[j] \in Bad
      BY <2>1, WorkBecomes DEF Bad
    <3> QED BY <1>0, <3>1 DEF FailuresAreKnown
  <2>2. failures' \subseteq Job
    BY <1>0 DEF TypeOK
  <2> QED BY <2>1, <2>2
<1> QED BY <1>1, <1>2, <1>3, <1>4 DEF Lifecycle!JobsMove

\* No job and no outcome changes.
LEMMA WorkKept ==
  ASSUME job' = job, out' = out
  PROVE  \A j \in Job : WorkOf(j)' = WorkOf(j)
BY DEF WorkOf

\* The planner publishes files, or is invisible.
LEMMA PlannerSimulates ==
  ASSUME LifecycleInv, LifecycleInv', StartTransfer \/ PlannerStep
  PROVE  Lifecycle!Next \/ UNCHANGED Lifecycle!vars
<1>0. HandoffInv /\ TypeOK /\ HandedOverOnce /\ TypeOK' /\ [Next]_vars
  BY DEF LifecycleInv, RowsInv, HandoffInv, Next
<1>1. plan' = plan /\ cancelled' = cancelled
  BY DEF PlannerStep, StartTransfer, EmitChild, PlannerCancelled, PlannerFails,
       PlanningDropped, FinishFlush, FinishComplete, NothingPlanned, HandoffCancelled, HandoffFails,
       SendEnqueue, TakePlanningGuard, store, user
<1>2. CASE HandoffFails
  <2>1. NoJobs /\ published' = published
    BY <1>0, <1>2, HandoverIsFresh DEF HandoffFails
  <2>2. /\ \A j \in Job : j <= emitted => job'[j] = "done" /\ out'[j] = "failedFinal"
        /\ \A j \in Job : ~(j <= emitted) => job'[j] = "none"
        /\ failures' = failures \cup 1 .. emitted
    BY <1>0, <1>2, <2>1 DEF HandoffFails, NoJobs, TypeOK
  <2>3. \A j \in Job : /\ WorkOf(j) = "none"
                       /\ j <= emitted => WorkOf(j)' = "failed"
                       /\ ~(j <= emitted) => WorkOf(j)' = "none"
    BY <2>1, <2>2, WorkIs, WorkBecomes DEF NoJobs
  <2>4. ASSUME NEW j \in failures'
        PROVE  j \in failures \/ WorkOf(j)' = "failed"
    <3>1. j \in Job /\ (j \in failures \/ j \in 1 .. emitted)
      BY <1>0, <2>2, <2>4 DEF TypeOK
    <3>2. emitted \in Nat
      BY <1>0 DEF TypeOK
    <3> QED BY <2>3, <3>1, <3>2
  <2>5. failures \subseteq failures'
    BY <2>2
  <2>6. Lifecycle!JobsMove
    BY <1>1, <2>1, <2>3, <2>4, <2>5, JobsMoved
  <2> QED BY <2>6 DEF Lifecycle!Next
<1>3. CASE EmitChild \/ FinishFlush
  <2>1. pc = "planning" /\ job' = job /\ out' = out /\ failures' = failures
    BY <1>3 DEF EmitChild, FinishFlush, manager
  <2>2. \A j \in Job : job[j] = "none"
    BY <1>0, <2>1 DEF HandedOverOnce, NoJobs
  <2>3. \A j \in Job : WorkOf(j) = "none" /\ WorkOf(j)' = WorkOf(j)
    BY <2>1, <2>2, WorkIs, WorkKept
  <2>4. published \in Nat /\ published' \in Nat /\ published <= published' /\ published' <= Files
    <3>1. /\ emitted \in 0 .. Files /\ published \in 0 .. emitted
          /\ emitted' \in 0 .. Files /\ published' \in 0 .. emitted'
      BY <1>0 DEF TypeOK
    <3>2. published' = published \/ (published' = emitted' /\ emitted' \in {emitted, emitted + 1})
      BY <1>3 DEF EmitChild, FinishFlush
    <3> QED BY <3>1, <3>2, RowsAssumption
  <2>5. 1 .. published \subseteq 1 .. published' /\ 1 .. published' \subseteq Job
    BY <2>4, RowsAssumption DEF Job
  <2>6. Lifecycle!Publish
    BY <1>1, <2>1, <2>3, <2>5 DEF Lifecycle!Publish
  <2> QED BY <2>6 DEF Lifecycle!Next
<1>4. CASE ~(HandoffFails \/ EmitChild \/ FinishFlush)
  <2>1. job' = job /\ out' = out /\ failures' = failures /\ published' = published
    BY <1>4 DEF PlannerStep, StartTransfer, PlannerCancelled, PlannerFails,
       PlanningDropped, FinishComplete, NothingPlanned, HandoffCancelled,
       SendEnqueue, TakePlanningGuard, manager
  <2> QED BY <1>1, <2>1, WorkKept, Stutters
<1> QED BY <1>2, <1>3, <1>4

\* The manager starts, skips or restarts files, or is invisible.
LEMMA ManagerSimulates ==
  ASSUME LifecycleInv, LifecycleInv', HandleRequest
  PROVE  Lifecycle!Next \/ UNCHANGED Lifecycle!vars
<1>0. HandoffInv /\ TypeOK /\ RetriesHaveFailed /\ [Next]_vars /\ RowsInv'
  BY DEF LifecycleInv, RowsInv, HandoffInv, Next
<1>1. PICK u : Handles(u)
  BY DEF HandleRequest, EnqueueCancelled, Enqueue, ForgetPlan, CancelPlan, CancelRoot,
     CancelQueued, CancelRunning, CancelUnknown, Retry, RetryWithoutConnection, RetryUnknown
<1>2. plan' = plan /\ cancelled' = cancelled /\ published' = published
  BY <1>1 DEF Handles, store, planner, user
<1>3. failures' = failures
  BY DEF HandleRequest, EnqueueCancelled, Enqueue, ForgetPlan, CancelPlan, CancelRoot, DoCancelPlan,
     CancelQueued, CancelRunning, CancelUnknown, Retry, RetryWithoutConnection, RetryUnknown
<1>4. ASSUME \A j \in Job : \/ WorkOf(j)' = WorkOf(j)
                            \/ WorkOf(j) = "none" /\ WorkOf(j)' \in {"live", "skipped", "failed"}
                            \/ WorkOf(j) = "live" /\ WorkOf(j)' \in {"completed", "skipped", "failed"}
                            \/ WorkOf(j) = "failed" /\ WorkOf(j)' = "live"
      PROVE  Lifecycle!Next
  <2>1. Lifecycle!JobsMove
    BY <1>2, <1>3, <1>4, JobsMoved
  <2> QED BY <2>1 DEF Lifecycle!Next
<1>5. CASE EnqueueCancelled \/ Enqueue
  <2>1. NoJobs
    BY <1>0, <1>5, HandoverIsFresh
  <2>2. \A j \in Job : \/ job'[j] = "none" \/ job'[j] = "queued"
                       \/ job'[j] = "done" /\ out'[j] = "skipped"
    BY <1>0, <1>5, <2>1 DEF EnqueueCancelled, Enqueue, NoJobs, TypeOK
  <2>3. \A j \in Job : WorkOf(j) = "none" /\ WorkOf(j)' \in {"none", "live", "skipped"}
    BY <2>1, <2>2, WorkIs, WorkBecomes DEF NoJobs
  <2> QED BY <1>4, <2>3
<1>6. CASE CancelPlan \/ CancelRoot
  <2>1. DoCancelPlan
    BY <1>6 DEF CancelPlan, CancelRoot
  <2>2. ASSUME NEW j \in Job
        PROVE  \/ WorkOf(j)' = WorkOf(j)
               \/ WorkOf(j) = "live" /\ WorkOf(j)' \in {"completed", "skipped", "failed"}
    <3>1. CASE job[j] = "queued"
      <4>1. job'[j] = "done" /\ out'[j] = Dropped(j) /\ out[j] \in {"none"} \cup Final
        BY <1>0, <2>1, <3>1 DEF DoCancelPlan, Queued, TypeOK
      <4>2. out'[j] \in Final
        BY <4>1 DEF Dropped, Final
      <4>3. WorkOf(j) = "live" /\ WorkOf(j)' = IF out'[j] = "failedFinal" THEN "failed" ELSE out'[j]
        BY <3>1, <4>1, WorkIs, WorkBecomes
      <4> QED BY <4>2, <4>3 DEF Final
    <3>2. CASE job[j] # "queued"
      <4>1. job'[j] = job[j] /\ out'[j] = out[j]
        BY <1>0, <2>1, <3>2 DEF DoCancelPlan, Queued, TypeOK
      <4> QED BY <4>1 DEF WorkOf
    <3> QED BY <3>1, <3>2
  <2> QED BY <1>4, <2>2
<1>7. CASE CancelQueued
  <2>1. ASSUME NEW j \in Job
        PROVE  \/ job'[j] = job[j] /\ out'[j] = out[j]
               \/ job[j] = "queued" /\ job'[j] = "done" /\ out'[j] = "skipped"
    BY <1>0, <1>7 DEF CancelQueued, Queued, TypeOK
  <2>2. ASSUME NEW j \in Job
        PROVE  WorkOf(j)' = WorkOf(j) \/ (WorkOf(j) = "live" /\ WorkOf(j)' = "skipped")
    <3>1. CASE job'[j] = job[j] /\ out'[j] = out[j]
      BY <3>1 DEF WorkOf
    <3>2. CASE job[j] = "queued" /\ job'[j] = "done" /\ out'[j] = "skipped"
      BY <3>2, WorkIs, WorkBecomes
    <3> QED BY <2>1, <3>1, <3>2
  <2> QED BY <1>4, <2>2
<1>8. CASE Retry
  <2>1. ASSUME NEW j \in Job
        PROVE  \/ job'[j] = job[j] /\ out'[j] = out[j]
               \/ job[j] = "done" /\ out[j] = "failed" /\ job'[j] = "queued"
    BY <1>0, <1>8 DEF Retry, RetriesHaveFailed, TypeOK
  <2>2. ASSUME NEW j \in Job
        PROVE  WorkOf(j)' = WorkOf(j) \/ (WorkOf(j) = "failed" /\ WorkOf(j)' = "live")
    <3>1. CASE job'[j] = job[j] /\ out'[j] = out[j]
      BY <3>1 DEF WorkOf
    <3>2. CASE job[j] = "done" /\ out[j] = "failed" /\ job'[j] = "queued"
      BY <3>2, WorkIs, WorkBecomes
    <3> QED BY <2>1, <3>1, <3>2
  <2> QED BY <1>4, <2>2
<1>9. CASE ForgetPlan \/ CancelRunning \/ CancelUnknown \/ RetryWithoutConnection \/ RetryUnknown
  <2>1. job' = job /\ out' = out
    BY <1>9 DEF ForgetPlan, CancelRunning, CancelUnknown, RetryWithoutConnection, RetryUnknown
  <2> QED BY <1>2, <1>3, <2>1, WorkKept, Stutters
<1> QED BY <1>5, <1>6, <1>7, <1>8, <1>9 DEF HandleRequest

\* A job ends its file, or is invisible.
LEMMA JobSimulates ==
  ASSUME LifecycleInv, LifecycleInv', NEW d \in Job, JobStep(d) \/ MakeProgress(d)
  PROVE  Lifecycle!Next \/ UNCHANGED Lifecycle!vars
<1>0. HandoffInv /\ TypeOK
  BY DEF LifecycleInv, RowsInv, HandoffInv
<1>1. plan' = plan /\ cancelled' = cancelled /\ published' = published
  BY DEF JobStep, StartJob, AskConflict, BeginWork, EndAttempt, HandleCompleted,
     MakeProgress, JobTask, store, planner, user
<1>2. CASE ~EndAttempt(d)
  <2>1. /\ out' = out /\ failures' = failures
        /\ \A j \in Job : j # d => job'[j] = job[j]
        /\ \/ job'[d] = job[d]
           \/ job[d] = "ended" /\ job'[d] = "done"
           \/ job[d] \notin {"none", "ended", "done"} /\ job'[d] \notin {"none", "ended", "done"}
    BY <1>0, <1>2 DEF JobStep, StartJob, AskConflict, BeginWork, HandleCompleted, MakeProgress, TypeOK
  <2>2. ASSUME NEW j \in Job
        PROVE  WorkOf(j)' = WorkOf(j)
    <3>1. CASE job'[j] = job[j]
      BY <2>1, <3>1 DEF WorkOf
    <3>2. CASE job'[j] # job[j]
      BY <2>1, <3>2, WorkIs, WorkBecomes
    <3> QED BY <3>1, <3>2
  <2> QED BY <1>1, <2>1, <2>2, Stutters
<1>3. CASE EndAttempt(d)
  <2>1. PICK r \in Outcomes(d) :
            /\ job' = [job EXCEPT ![d] = "ended"]
            /\ out' = [out EXCEPT ![d] = r]
            /\ failures' = IF r \in {"failed", "failedFinal"} THEN failures \cup {d} ELSE failures
    BY <1>3 DEF EndAttempt
  <2>2. r \in Final /\ job[d] \notin {"none", "ended", "done"}
    BY <2>1 DEF Outcomes, Final
  <2>3. /\ job'[d] = "ended" /\ out'[d] = r
        /\ \A j \in Job : j # d => job'[j] = job[j] /\ out'[j] = out[j]
    BY <1>0, <2>1 DEF TypeOK
  <2>4. WorkOf(d) = "live" /\ WorkOf(d)' = IF r = "failedFinal" THEN "failed" ELSE r
    BY <2>2, <2>3, WorkIs, WorkBecomes
  <2>5. \A j \in Job : j # d => WorkOf(j)' = WorkOf(j)
    BY <2>3 DEF WorkOf
  <2>6. WorkOf(d)' \in {"completed", "skipped", "failed"}
    BY <2>2, <2>4 DEF Final
  <2>7. failures \subseteq failures' /\ \A j \in failures' : j \in failures \/ WorkOf(j)' = "failed"
    BY <2>1, <2>4
  <2>8. Lifecycle!JobsMove
    BY <1>1, <2>4, <2>5, <2>6, <2>7, JobsMoved
  <2> QED BY <2>8 DEF Lifecycle!Next
<1> QED BY <1>2, <1>3

\* The store shows a state of the plan that PlanLifecycle allows.
LEMMA StoreSimulates ==
  ASSUME LifecycleInv, LifecycleInv', ApplyEvent
  PROVE  Lifecycle!Next \/ UNCHANGED Lifecycle!vars
<1>0. /\ RowsInv /\ TypeOK /\ FailuresAreKnown /\ RowsAreTrue /\ CompletedIsSettled /\ ReportsFollow
      /\ PlanFailsFirst /\ ReadyComesFirst /\ CancelsWereAsked /\ CompletedIsSettled' /\ kids \subseteq Job
  BY DEF LifecycleInv, RowsInv, HandoffInv, TypeOK
<1>1. /\ job' = job /\ out' = out /\ failures' = failures /\ cancelled' = cancelled
      /\ published' = published
  BY DEF ApplyEvent, manager, planner, user
<1>2. [j \in Job |-> WorkOf(j)]' = [j \in Job |-> WorkOf(j)]
  BY <1>1, WorkKept
<1>3. PICK e : e = events[1]
  OBVIOUS
<1>4. /\ plan = "absent" => e.type = "started"
      /\ e.type = "started" => plan = "absent"
      /\ e.type \notin {"started", "progress"} => \A j \in Job : j \in kids <=> j <= published
  BY <1>0, <1>3, FirstEvent
<1>5. 1 \in 1 .. Len(events)
  BY <1>0, ShiftedIndex
<1>6. \A j \in 1 .. published : j \in Job /\ j <= published
  BY <1>0, RowsAssumption DEF TypeOK, Job
<1>7. CASE plan' = plan
  BY <1>1, <1>7, WorkKept, Stutters
<1>8. CASE DoesStart(e)
  <2>1. Lifecycle!Begin
    BY <1>1, <1>2, <1>4, <1>8 DEF DoesStart, Lifecycle!Begin
  <2> QED BY <2>1 DEF Lifecycle!Next
<1>9. CASE DoesPublish(e)
  BY <1>7, <1>9 DEF DoesPublish
<1>10. CASE DoesComplete(e) /\ plan' # plan
  <2>1. plan \in {"planning", "queued"} /\ plan' = IF kids = {} THEN "completed" ELSE "queued"
    BY <1>10 DEF DoesComplete
  <2>2. CASE kids = {}
    <3>1. ~\E j \in 1 .. published : TRUE
      BY <1>4, <1>6, <1>10, <2>2 DEF DoesComplete
    <3>2. Lifecycle!Complete
      BY <1>1, <1>2, <2>1, <2>2, <3>1 DEF Lifecycle!Complete
    <3> QED BY <3>2 DEF Lifecycle!Next
  <2>3. CASE kids # {}
    <3>1. Lifecycle!Ready
      BY <1>1, <1>2, <1>10, <2>1, <2>3 DEF Lifecycle!Ready
    <3> QED BY <3>1 DEF Lifecycle!Next
  <2> QED BY <2>2, <2>3
<1>11. CASE DoesCancel(e) /\ plan' # plan
  <2>1. /\ plan \in {"planning", "queued", "completed"} /\ plan' = "cancelled"
        /\ \E r \in kids \cup {Root} : Present(r) /\ rows[r] \notin Final
    BY <1>11 DEF DoesCancel
  <2>2. plan # "completed"
    BY <1>0, <2>1 DEF CompletedIsSettled, Present
  <2>3. cancelled
    <3>1. InQueue({"planCancelled"})
      BY <1>3, <1>5, <1>11 DEF InQueue, DoesCancel
    <3> QED BY <1>0, <3>1 DEF CancelsWereAsked
  <2>4. Lifecycle!Cancel
    BY <1>1, <1>2, <2>1, <2>2, <2>3 DEF Lifecycle!Cancel
  <2> QED BY <2>4 DEF Lifecycle!Next
<1>12. CASE DoesFail(e) /\ plan' # plan
  <2>1. e.type \in {"planFailed", "planFailedFinal"} /\ plan' = "failed"
    BY <1>12 DEF DoesFail
  <2>2. plan = "planning"
    BY <1>0, <1>3, <1>4, <1>5, <2>1 DEF PlanFailsFirst
  <2>3. NoJobs
    BY <1>0, <1>3, <1>5, <2>1 DEF ReportsFollow, InQueue
  <2>4. \A j \in Job : WorkOf(j) = "none"
    BY <2>3, WorkIs DEF NoJobs
  <2>5. Lifecycle!Fail
    BY <1>1, <1>2, <2>1, <2>2, <2>4 DEF Lifecycle!Fail
  <2> QED BY <2>5 DEF Lifecycle!Next
<1>13. ASSUME NEW d \in Job, DoesEnd(e, d), plan' # plan
       PROVE  Lifecycle!Next
  <2>1. /\ kids' = kids /\ plan \in {"planning", "queued"} /\ \A k \in kids : rows'[k] \in Final
        /\ plan' = IF \E k \in kids : rows'[k] \in Bad THEN "failed" ELSE "completed"
        /\ e.type \in Final /\ e.ids = {d}
        /\ \A j \in Job : rows'[j] = IF j = d /\ Present(d) THEN e.type ELSE rows[j]
    BY <1>13 DEF DoesEnd
  <2>2. Reports(e, d)
    BY <2>1 DEF Reports, JobEvents
  <2>3. plan = "queued"
    <3>1. ~\E k \in 1 .. (1 - 1) : TRUE
      OBVIOUS
    <3>2. plan # "planning"
      BY <1>0, <1>3, <1>5, <2>2, <3>1 DEF ReadyComesFirst
    <3> QED BY <2>1, <3>2
  <2>4. /\ e.type \in Bad => d \in failures
        /\ job[d] # "none"
    BY <1>0, <1>3, <1>5, <2>2 DEF FailuresAreKnown, ReportsFollow
  <2>5. \A j \in 1 .. published : j \in kids
    <3>1. e.type \notin {"started", "progress"}
      BY <2>1 DEF Final
    <3> QED BY <1>4, <1>6, <3>1
  <2>6. CASE plan' = "completed"
    <3>1. \A j \in kids : Settled(j)'
      BY <1>0, <2>1, <2>6 DEF CompletedIsSettled
    <3>2. \A j \in kids : j \in Job /\ job[j] \in {"ended", "done"} /\ out[j] \in {"completed", "skipped"}
      BY <1>0, <1>1, <3>1 DEF Settled, Good
    <3>3. \A j \in kids : WorkOf(j) \in {"completed", "skipped"}
      BY <3>2, WorkIs
    <3>4. \A j \in 1 .. published : j \in Job /\ WorkOf(j) \in {"completed", "skipped"}
      BY <1>6, <2>5, <3>3
    <3>5. Lifecycle!Complete
      BY <1>1, <1>2, <2>3, <2>6, <3>4 DEF Lifecycle!Complete
    <3> QED BY <3>5 DEF Lifecycle!Next
  <2>7. CASE plan' # "completed"
    <3>0. ASSUME NEW j \in kids
          PROVE  j \in Job /\ job[j] # "none" /\ (rows'[j] \in Bad => j \in failures)
      <4>1. j \in Job /\ RowIsTrue(j)
        BY <1>0, <2>3, <3>0 DEF RowsAreTrue
      <4>2. CASE j = d
        <5>1. rows'[j] = e.type \/ rows'[j] = rows[j]
          BY <2>1, <4>1
        <5> QED BY <2>4, <4>1, <4>2, <5>1 DEF RowIsTrue
      <4>3. CASE j # d
        <5>1. rows'[j] = rows[j] /\ rows[j] \in Good \cup Bad
          BY <2>1, <3>0, <4>1, <4>3 DEF Final, Good, Bad
        <5> QED BY <4>1, <5>1 DEF RowIsTrue, Settled
      <4> QED BY <4>1, <4>2, <4>3
    <3>1. plan' = "failed" /\ failures # {}
      BY <2>1, <2>7, <3>0
    <3>2. \A j \in kids : WorkOf(j) # "none"
      <4>1. ASSUME NEW j \in kids
            PROVE  WorkOf(j) # "none"
        <5>1. j \in Job /\ job[j] # "none"
          BY <3>0
        <5>2. job[j] \in {"ended", "done"} => out[j] \in Final
          BY <1>0, <5>1 DEF RowsInv, OutcomesAreTold, Tried, Told
        <5>3. job[j] \in {"ended", "done"} => WorkOf(j) # "none"
          BY <5>1, <5>2, WorkIs DEF Final
        <5>4. job[j] \notin {"ended", "done"} => WorkOf(j) = "live"
          BY <5>1, WorkIs
        <5> QED BY <5>3, <5>4
      <4> QED BY <4>1
    <3>3. \A j \in 1 .. published : j \in Job /\ WorkOf(j) # "none"
      BY <1>6, <2>5, <3>2
    <3>4. Lifecycle!Fail
      BY <1>1, <1>2, <2>3, <3>1, <3>3 DEF Lifecycle!Fail
    <3> QED BY <3>4 DEF Lifecycle!Next
  <2> QED BY <2>6, <2>7
<1>14. ASSUME NEW d \in Job, DoesLive(e, d)
       PROVE  plan' = plan
  BY <1>14 DEF DoesLive
<1> QED BY <1>0, <1>3, <1>7, <1>8, <1>9, <1>10, <1>11, <1>12, <1>13, <1>14, StoreCases

\* The user asks for a cancel, or removes a plan that is over.
LEMMA UserSimulates ==
  ASSUME LifecycleInv, UserStep
  PROVE  Lifecycle!Next \/ UNCHANGED Lifecycle!vars
<1>0. RowsInv /\ TypeOK
  BY DEF LifecycleInv, RowsInv, HandoffInv
<1>1. out' = out /\ failures' = failures /\ published' = published
  BY DEF UserStep, CancelTransfer, RetryTransfer, ResolveConflict, ClearTerminal, manager, planner
<1>2. \A j \in Job : WorkOf(j)' = WorkOf(j)
  <2>1. \A j \in Job : job'[j] = job[j] \/ (job[j] = "asking" /\ job'[j] = "answered")
    BY <1>0 DEF UserStep, CancelTransfer, RetryTransfer, ResolveConflict, ClearTerminal, manager, TypeOK
  <2>2. ASSUME NEW j \in Job
        PROVE  WorkOf(j)' = WorkOf(j)
    <3>1. CASE job'[j] = job[j]
      BY <1>1, <3>1 DEF WorkOf
    <3>2. CASE job[j] = "asking" /\ job'[j] = "answered"
      BY <3>2, WorkIs, WorkBecomes
    <3> QED BY <2>1, <3>1, <3>2
  <2> QED BY <2>2
<1>3. ASSUME NEW r \in Rows, CancelTransfer(r)
      PROVE  Lifecycle!Next
  <2>1. plan' = plan /\ cancelled' = TRUE
    BY <1>3 DEF CancelTransfer
  <2>2. Lifecycle!Ask
    BY <1>1, <1>2, <2>1 DEF Lifecycle!Ask
  <2> QED BY <2>2 DEF Lifecycle!Next
<1>4. CASE \/ \E j \in Job : RetryTransfer(j)
           \/ \E j \in Job, all \in BOOLEAN : ResolveConflict(j, all)
  <2>1. plan' = plan /\ cancelled' = cancelled
    BY <1>4 DEF RetryTransfer, ResolveConflict, store, user
  <2> QED BY <1>1, <1>2, <2>1, Stutters
<1>5. CASE ClearTerminal
  <2>1. cancelled' = cancelled /\ (plan' = plan \/ plan' = "gone")
    BY <1>5 DEF ClearTerminal
  <2>2. CASE plan' = plan
    BY <1>1, <1>2, <2>1, <2>2, Stutters
  <2>3. CASE plan' # plan
    <3>1. plan' = "gone" /\ plan \in {"completed", "cancelled", "failed"}
      BY <1>0, <2>1, <2>3, UserMarks DEF UserMark, TypeOK, TerminalPlan
    <3>2. Lifecycle!Remove
      BY <1>1, <1>2, <2>1, <3>1 DEF Lifecycle!Remove
    <3> QED BY <3>2 DEF Lifecycle!Next
  <2> QED BY <2>2, <2>3
<1> QED BY <1>3, <1>4, <1>5 DEF UserStep

\* The first state is one of PlanLifecycle.
LEMMA LifecycleStarts == Init => Lifecycle!Init
<1> SUFFICES ASSUME Init PROVE Lifecycle!Init
  OBVIOUS
<1>1. /\ plan = "absent" /\ published = 0 /\ failures = {} /\ cancelled = FALSE
      /\ \A j \in Job : job[j] = "none"
  BY DEF Init
<1>2. \A j \in Job : WorkOf(j) = "none"
  BY <1>1, WorkIs
<1>3. 1 .. published = {}
  BY <1>1
<1> QED BY <1>1, <1>2, <1>3 DEF Lifecycle!Init

\* Every step is one of PlanLifecycle, or invisible.
LEMMA LifecycleSimulates ==
  ASSUME LifecycleInv, LifecycleInv', [Next]_vars
  PROVE  [Lifecycle!Next]_(Lifecycle!vars)
<1>1. CASE UNCHANGED vars
  <2>1. /\ plan' = plan /\ published' = published /\ failures' = failures /\ cancelled' = cancelled
        /\ job' = job /\ out' = out
    BY <1>1 DEF vars, planner, manager, store, user
  <2> QED BY <2>1, WorkKept, Stutters
<1>2. CASE Next
  BY <1>2, PlannerSimulates, ManagerSimulates, JobSimulates, StoreSimulates, UserSimulates DEF Next
<1> QED BY <1>1, <1>2

\* Planner, handoff task, manager, jobs and store together implement PlanLifecycle,
\* for every number of files, batch size and channel with room for an event of each
\* file: the list shows what really happened to the files of a plan
\* (TransferStore::apply_event).
THEOREM ListKeepsItsPromise == Spec => ImplementsLifecycle
<1>1. Init => Lifecycle!Init
  BY LifecycleStarts
<1>2. LifecycleInv /\ LifecycleInv' /\ [Next]_vars => [Lifecycle!Next]_(Lifecycle!vars)
  BY LifecycleSimulates
<1> QED BY <1>1, <1>2, LifecycleInvariance, PTL DEF Spec, ImplementsLifecycle, Lifecycle!Spec

=============================================================================
