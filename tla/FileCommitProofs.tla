-------------------------- MODULE FileCommitProofs --------------------------
(***************************************************************************)
(* The destination of a transfer is never half a file, an old destination  *)
(* goes only when its replacement is ready, and every temporary file left  *)
(* behind is on record: for any number of files, attempts and faults.      *)
(***************************************************************************)
EXTENDS FileCommit, TLAPS

\* What travels on the event channel to the user interface.
Events == [kind : Kinds, id : Job]

\* A fresh process with an empty record and no files satisfies the invariant.
LEMMA InitInv == Init => IInv
<1> SUFFICES ASSUME Init PROVE IInv
  OBVIOUS
<1>1. TypeOK
  <2>1. up \in BOOLEAN /\ online \in BOOLEAN /\ blocked \in BOOLEAN
    BY DEF Init
  <2>2. QED
    BY <2>1, CommitAssumption DEF Init, TypeOK, Steps
<1>2. ProbeMeansLinks /\ WholeAfterCopy /\ QuietWhenDown
  BY DEF Init, ProbeMeansLinks, WholeAfterCopy, QuietWhenDown
<1>3. DownloadsUndisturbed /\ UploadsUndisturbed
  BY CommitAssumption DEF Init, DownloadsUndisturbed, UploadsUndisturbed, Writing, Download
<1>4. DestinationWhole /\ LeftoversOnRecord
  BY DEF Init, DestinationWhole, LeftoversOnRecord
<1>5. QED
  BY <1>1, <1>2, <1>3, <1>4 DEF IInv

\* Sending an event keeps the events a sequence of events.
LEMMA EmitType ==
    ASSUME events \in Seq(Events), NEW k \in Kinds, NEW j \in Job, Emit(k, j)
    PROVE  events' \in Seq(Events)
BY DEF Emit, Events

\* Every step keeps the types.
LEMMA TypeStep == TypeOK /\ ProbeMeansLinks /\ [Next]_vars => TypeOK'
<1> SUFFICES ASSUME TypeOK, ProbeMeansLinks, [Next]_vars PROVE TypeOK'
  OBVIOUS
<1> USE CommitAssumption DEF TypeOK, Goto, Fault, GiveUp, files, job, app, store, world, Steps
<1>0. events \in Seq(Events)
  BY DEF Events
<1>1. ASSUME NEW j \in Job, OpenTemp(j) PROVE TypeOK'
  BY <1>1 DEF OpenTemp
<1>2. ASSUME NEW j \in Job, ReportTemp(j) PROVE TypeOK'
  <2>1. events' \in Seq([kind : Kinds, id : Job])
    BY <1>0, <1>2, EmitType DEF ReportTemp, Kinds, Events
  <2>2. QED
    BY <1>2, <2>1 DEF ReportTemp
<1>3. ASSUME NEW j \in Job, CopyDone(j) PROVE TypeOK'
  BY <1>3 DEF CopyDone
<1>4. ASSUME NEW j \in Job, CopyFails(j) PROVE TypeOK'
  BY <1>4 DEF CopyFails
<1>5. ASSUME NEW j \in Job, Verify(j) PROVE TypeOK'
  BY <1>5 DEF Verify
<1>6. ASSUME NEW j \in Job, RemoveProbe(j) PROVE TypeOK'
  BY <1>6 DEF RemoveProbe, ProbeMeansLinks
<1>7. ASSUME NEW j \in Job, RemoveDest(j) \/ RemoveDestFails(j) PROVE TypeOK'
  BY <1>7 DEF RemoveDest, RemoveDestFails
<1>8. ASSUME NEW j \in Job, Commit(j) PROVE TypeOK'
  BY <1>8 DEF Commit
<1>9. ASSUME NEW j \in Job, Cleanup(j) PROVE TypeOK'
  <2>1. events' \in Seq([kind : Kinds, id : Job])
    BY <1>0, <1>9, EmitType DEF Cleanup, Kinds, Events
  <2>2. QED
    BY <1>9, <2>1 DEF Cleanup
<1>10. ASSUME NEW j \in Job, DestAppears(j) PROVE TypeOK'
  BY <1>10 DEF DestAppears
<1>11. ASSUME NEW j \in Upload, CleanRemote(j) PROVE TypeOK'
  BY <1>11 DEF CleanRemote
<1>12. ASSUME NEW j \in Upload, ReportCleaned(j) PROVE TypeOK'
  <2>1. events' \in Seq([kind : Kinds, id : Job])
    BY <1>0, <1>12, EmitType DEF ReportCleaned, Kinds, Events
  <2>2. QED
    BY <1>12, <2>1 DEF ReportCleaned
<1>13. ASSUME NEW j \in Upload, CleanRemoteFails(j) PROVE TypeOK'
  BY <1>13 DEF CleanRemoteFails
<1>14. ASSUME events # <<>>
       PROVE  /\ Tail(events) \in Seq([kind : Kinds, id : Job])
              /\ Head(events).id \in Job
              /\ Applied(Head(events), records) \subseteq Job
  <2>1. Head(events) \in Events /\ Tail(events) \in Seq(Events)
    BY <1>0, <1>14
  <2>2. QED
    BY <2>1 DEF Events, Applied
<1>15. CASE ApplyRecord
  BY <1>14, <1>15 DEF ApplyRecord
<1>16. CASE RecordFails
  <2>1. /\ mem' \subseteq Job /\ faults' \in 0 .. MaxFaults
        /\ escaped' \subseteq Job
        /\ events' \in Seq([kind : Kinds, id : Job])
    BY <1>14, <1>16 DEF RecordFails
  <2>2. QED
    BY <1>16, <2>1 DEF RecordFails
<1>17. CASE Connect
  BY <1>17 DEF Connect
<1>18. CASE ConnectionLost
  <2>1. online' \in BOOLEAN /\ up' \in BOOLEAN
    BY <1>18 DEF ConnectionLost
  <2>2. mailbox' \subseteq Upload /\ faults' \in 0 .. MaxFaults
    BY <1>18 DEF ConnectionLost
  <2>3. QED
    BY <1>18, <2>1, <2>2 DEF ConnectionLost
<1>19. CASE Crash
  <2>1. online' \in BOOLEAN /\ up' \in BOOLEAN
    BY <1>19 DEF Crash
  <2>2. /\ mailbox' \subseteq Upload /\ removed' \subseteq Upload
        /\ faults' \in 0 .. MaxFaults
        /\ events' \in Seq([kind : Kinds, id : Job])
        /\ step' \in [Job -> Steps] /\ good' \subseteq Job /\ proven' \subseteq linkable'
        /\ escaped' \subseteq Job /\ mem' \subseteq Job
    BY <1>19 DEF Crash
  <2>3. QED
    BY <1>19, <2>1, <2>2 DEF Crash
<1>20. CASE Launch
  <2>1. PICK kept \in SUBSET (records \cap Download), saved \in BOOLEAN :
            LET gone == (records \cap Download) \ kept
            IN  /\ IF kept = {} /\ saved THEN UNCHANGED faults ELSE Fault
                /\ temp' = [j \in Job |-> IF j \in gone THEN "none" ELSE temp[j]]
                /\ mem' = records \ gone
                /\ records' = IF saved THEN records \ gone ELSE records
    BY <1>20 DEF Launch
  <2>2. /\ mem' \subseteq Job /\ records' \subseteq Job /\ faults' \in 0 .. MaxFaults
        /\ temp' \in [Job -> {"none", "partial", "full"}]
    BY <2>1
  <2>3. up' \in BOOLEAN /\ blocked' \in BOOLEAN /\ escaped' \subseteq Job
    BY <1>20 DEF Launch
  <2>4. QED
    BY <1>20, <2>2, <2>3 DEF Launch
<1>21. CASE LaunchUnreadable
  <2>1. up' \in BOOLEAN /\ blocked' \in BOOLEAN /\ faults' \in 0 .. MaxFaults
    BY <1>21 DEF LaunchUnreadable
  <2>2. QED
    BY <1>21, <2>1 DEF LaunchUnreadable
<1>22. CASE UNCHANGED vars
  BY <1>22 DEF vars
<1>23. QED
  BY <1>1, <1>2, <1>3, <1>4, <1>5, <1>6, <1>7, <1>8, <1>9, <1>10, <1>11, <1>12, <1>13,
     <1>15, <1>16, <1>17, <1>18, <1>19, <1>20, <1>21, <1>22 DEF Next, Attempt

\* A job comes to its probe, and past it, only where links work.
LEMMA ProbeStep == TypeOK /\ ProbeMeansLinks /\ [Next]_vars => ProbeMeansLinks'
<1> SUFFICES ASSUME TypeOK, ProbeMeansLinks, [Next]_vars PROVE ProbeMeansLinks'
  OBVIOUS
<1> USE DEF TypeOK, ProbeMeansLinks, Goto, GiveUp, files, job, app, world
<1>1. ASSUME NEW j \in Job, Attempt(j) \/ DestAppears(j) PROVE ProbeMeansLinks'
  BY <1>1 DEF Attempt, OpenTemp, ReportTemp, CopyDone, CopyFails, Verify, RemoveProbe, RemoveDest,
     RemoveDestFails, Commit, Cleanup, DestAppears
<1>2. CASE UNCHANGED step /\ UNCHANGED linkable
  BY <1>2
<1>3. CASE Crash
  BY <1>3 DEF Crash
<1>4. QED
  BY <1>1, <1>2, <1>3 DEF Next, vars, CleanRemote, ReportCleaned, CleanRemoteFails, ApplyRecord,
     RecordFails, Connect, ConnectionLost, Launch, LaunchUnreadable

\* A job goes on only from a complete copy.
LEMMA WholeStep == TypeOK /\ WholeAfterCopy /\ [Next]_vars => WholeAfterCopy'
<1> SUFFICES ASSUME TypeOK, WholeAfterCopy, [Next]_vars PROVE WholeAfterCopy'
  OBVIOUS
<1> USE DEF TypeOK, WholeAfterCopy, Goto, GiveUp, files, job, app, world
<1>1. ASSUME NEW j \in Job, Attempt(j) \/ DestAppears(j) PROVE WholeAfterCopy'
  BY <1>1 DEF Attempt, OpenTemp, ReportTemp, CopyDone, CopyFails, Verify, RemoveProbe, RemoveDest,
     RemoveDestFails, Commit, Cleanup, DestAppears
<1>2. CASE UNCHANGED step /\ \A j \in Job : temp'[j] \in {temp[j], "none"}
  BY <1>2
<1>3. CASE Crash
  BY <1>3 DEF Crash
<1>4. ASSUME NEW j \in Upload, CleanRemote(j) PROVE \A k \in Job : temp'[k] \in {temp[k], "none"}
  BY <1>4 DEF CleanRemote
<1>5. Launch => \A k \in Job : temp'[k] \in {temp[k], "none"}
  BY DEF Launch
<1>6. QED
  BY <1>1, <1>2, <1>3, <1>4, <1>5 DEF Next, vars, CleanRemote, ReportCleaned, CleanRemoteFails,
     ApplyRecord, RecordFails, Connect, ConnectionLost, Launch, LaunchUnreadable

\* Only a whole file is linked to the destination.
LEMMA DestStep ==
    TypeOK /\ WholeAfterCopy /\ DestinationWhole /\ [Next]_vars => DestinationWhole'
<1> SUFFICES ASSUME TypeOK, WholeAfterCopy, DestinationWhole, [Next]_vars
             PROVE  DestinationWhole'
  OBVIOUS
<1> USE DEF TypeOK, DestinationWhole, files
<1>1. ASSUME NEW j \in Job, Commit(j) PROVE DestinationWhole'
  BY <1>1 DEF Commit, AtCommit, WholeAfterCopy
<1>2. ASSUME NEW j \in Job, RemoveDest(j) \/ DestAppears(j) PROVE DestinationWhole'
  BY <1>2 DEF RemoveDest, DestAppears
<1>3. CASE UNCHANGED dest
  BY <1>3
<1>4. QED
  BY <1>1, <1>2, <1>3 DEF Next, Attempt, OpenTemp, ReportTemp, CopyDone, CopyFails, Verify,
     RemoveProbe, RemoveDestFails, Cleanup, vars, CleanRemote, ReportCleaned, CleanRemoteFails,
     ApplyRecord, RecordFails, Connect, ConnectionLost, Crash, Launch, LaunchUnreadable

\* Jobs and events are those of a running process.
LEMMA QuietStep == TypeOK /\ QuietWhenDown /\ [Next]_vars => QuietWhenDown'
<1> SUFFICES ASSUME TypeOK, QuietWhenDown, [Next]_vars PROVE QuietWhenDown'
  OBVIOUS
<1> USE DEF files, job, app, world
<1>1. up /\ ~up' => Crash
  BY DEF Next, Attempt, OpenTemp, ReportTemp, CopyDone, CopyFails, Verify, RemoveProbe, RemoveDest,
     RemoveDestFails, Commit, Cleanup, DestAppears, vars, CleanRemote, ReportCleaned,
     CleanRemoteFails, ApplyRecord, RecordFails, Connect, ConnectionLost, Launch,
     LaunchUnreadable
<1>2. Crash => QuietWhenDown'
  BY DEF Crash, QuietWhenDown
<1>3. ~up => UNCHANGED <<step, events>>
  BY DEF Next, Attempt, OpenTemp, Reach, ReportTemp, CopyDone, CopyFails, Verify, RemoveProbe,
     RemoveDest, RemoveDestFails, Commit, Cleanup, DestAppears, vars, CleanRemote, ReportCleaned,
     CleanRemoteFails, ApplyRecord, RecordFails, Connect, ConnectionLost, Crash, Launch,
     LaunchUnreadable
<1>4. up' => QuietWhenDown'
  BY DEF QuietWhenDown
<1>5. ~up => QuietWhenDown'
  <2>1. ~up => events = <<>> /\ \A j \in Job : step[j] = "idle"
    BY DEF QuietWhenDown
  <2>2. ~up => events' = <<>> /\ \A j \in Job : step'[j] = "idle"
    BY <1>3, <2>1
  <2>3. QED
    BY <2>2 DEF QuietWhenDown
<1>6. QED
  BY <1>1, <1>2, <1>4, <1>5

\* Nothing but its own attempt takes away what a download wrote: launches come
\* before the jobs of a run, and the clean-up of a connection is about uploads.
LEMMA DownloadStep ==
    TypeOK /\ QuietWhenDown /\ DownloadsUndisturbed /\ [Next]_vars => DownloadsUndisturbed'
<1> SUFFICES ASSUME TypeOK, QuietWhenDown, DownloadsUndisturbed, [Next]_vars
             PROVE  DownloadsUndisturbed'
  OBVIOUS
<1> USE CommitAssumption
    DEF TypeOK, DownloadsUndisturbed, Writing, Download, Goto, GiveUp, files, job, app, world
<1>1. ASSUME NEW j \in Job, OpenTemp(j) PROVE DownloadsUndisturbed'
  BY <1>1 DEF OpenTemp
<1>2. ASSUME NEW j \in Job, ReportTemp(j) \/ CopyDone(j) \/ CopyFails(j)
      PROVE  DownloadsUndisturbed'
  BY <1>2 DEF ReportTemp, CopyDone, CopyFails
<1>3. ASSUME NEW j \in Job, Verify(j) \/ RemoveProbe(j) PROVE DownloadsUndisturbed'
  BY <1>3 DEF Verify, RemoveProbe
<1>4. ASSUME NEW j \in Job, RemoveDest(j) \/ RemoveDestFails(j) PROVE DownloadsUndisturbed'
  BY <1>4 DEF RemoveDest, RemoveDestFails
<1>5. ASSUME NEW j \in Job, Commit(j) \/ Cleanup(j) PROVE DownloadsUndisturbed'
  <2>1. /\ step'[j] \in {"cleanup", "done", "failed"}
        /\ \A i \in Job \ {j} : step'[i] = step[i] /\ temp'[i] = temp[i]
    BY <1>5 DEF Commit, Cleanup, AtCommit
  <2>2. QED
    BY <2>1
<1>6. ASSUME NEW j \in Job, DestAppears(j) PROVE DownloadsUndisturbed'
  BY <1>6 DEF DestAppears
<1>7. ASSUME NEW j \in Upload, CleanRemote(j) PROVE DownloadsUndisturbed'
  BY <1>7 DEF CleanRemote
<1>8. CASE UNCHANGED <<step, temp>>
  BY <1>8
<1>9. CASE Crash
  BY <1>9 DEF Crash
<1>10. CASE Launch
  BY <1>10 DEF Launch, QuietWhenDown
<1>11. QED
  BY <1>1, <1>2, <1>3, <1>4, <1>5, <1>6, <1>7, <1>8, <1>9, <1>10 DEF Next, Attempt, vars,
     ReportCleaned, CleanRemoteFails, ApplyRecord, RecordFails, Connect, ConnectionLost,
     LaunchUnreadable

\* Without overlap clean-ups and uploads keep out of each other's way.
LEMMA UploadStep ==
    TypeOK /\ QuietWhenDown /\ UploadsUndisturbed /\ [Next]_vars => UploadsUndisturbed'
<1> SUFFICES ASSUME TypeOK, QuietWhenDown, UploadsUndisturbed, [Next]_vars, ~Overlap
             PROVE  UploadsUndisturbed'
  BY DEF UploadsUndisturbed
<1> USE CommitAssumption
    DEF TypeOK, UploadsUndisturbed, Writing, Download, Idle, Goto, GiveUp, files, job, app, world
<1>1. ASSUME NEW j \in Job, OpenTemp(j) PROVE UploadsUndisturbed'
  BY <1>1 DEF OpenTemp
<1>2. ASSUME NEW j \in Job, ReportTemp(j) \/ CopyDone(j) \/ CopyFails(j)
      PROVE  UploadsUndisturbed'
  BY <1>2 DEF ReportTemp, CopyDone, CopyFails
<1>3. ASSUME NEW j \in Job, Verify(j) \/ RemoveProbe(j) PROVE UploadsUndisturbed'
  BY <1>3 DEF Verify, RemoveProbe
<1>4. ASSUME NEW j \in Job, RemoveDest(j) \/ RemoveDestFails(j) PROVE UploadsUndisturbed'
  BY <1>4 DEF RemoveDest, RemoveDestFails
<1>5. ASSUME NEW j \in Job, Commit(j) \/ Cleanup(j) PROVE UploadsUndisturbed'
  <2>1. /\ mailbox' = mailbox /\ removed' = removed
        /\ ~Idle(j)
        /\ step'[j] \in {"cleanup", "done", "failed"}
        /\ \A i \in Job \ {j} : step'[i] = step[i] /\ temp'[i] = temp[i]
    BY <1>5 DEF Commit, Cleanup, AtCommit
  <2>2. mailbox \cup removed = {} \/ \A i \in Upload \ {j} : Idle(i)
    OBVIOUS
  <2>3. (mailbox \cup removed = {} \/ \A i \in Upload : Idle(i))'
    BY <2>1, <2>2
  <2>4. QED
    BY <2>1, <2>3
<1>6. ASSUME NEW j \in Job, DestAppears(j) PROVE UploadsUndisturbed'
  BY <1>6 DEF DestAppears
<1>7. ASSUME NEW j \in Upload, CleanRemote(j) \/ ReportCleaned(j) \/ CleanRemoteFails(j)
      PROVE  UploadsUndisturbed'
  BY <1>7 DEF CleanRemote, ReportCleaned, CleanRemoteFails
<1>8. CASE ApplyRecord \/ RecordFails \/ Connect \/ ConnectionLost
  BY <1>8 DEF ApplyRecord, RecordFails, Connect, ConnectionLost
<1>9. CASE Crash
  BY <1>9 DEF Crash
<1>10. CASE Launch \/ LaunchUnreadable
  BY <1>10 DEF Launch, LaunchUnreadable, QuietWhenDown
<1>11. CASE UNCHANGED vars
  BY <1>11 DEF vars
<1>12. QED
  BY <1>1, <1>2, <1>3, <1>4, <1>5, <1>6, <1>7, <1>8, <1>9, <1>10, <1>11 DEF Next, Attempt

-----------------------------------------------------------------------------
(* The record. *)

\* An event decides about its own job and about no other.
LEMMA EmitTracks ==
    ASSUME events \in Seq(Events), NEW k \in Kinds, NEW j \in Job, NEW i \in Job,
           Emit(k, j), records' = records
    PROVE  /\ i # j /\ Tracked(i) => Tracked(i)'
           /\ k = "created" => Tracked(j)'
<1>1. /\ Len(events') = Len(events) + 1 /\ Len(events) \in Nat
      /\ \A n \in 1 .. Len(events) : events'[n] = events[n]
      /\ events'[Len(events) + 1] = [kind |-> k, id |-> j]
  BY DEF Emit, Events
<1>2. ASSUME i # j, Tracked(i) PROVE Tracked(i)'
  <2>1. ASSUME NEW n \in 1 .. Len(events), events[n] = [kind |-> "created", id |-> i],
               \A m \in 1 .. Len(events) : m > n => events[m].id # i
        PROVE  Tracked(i)'
    <3>1. n \in 1 .. Len(events') /\ events'[n] = [kind |-> "created", id |-> i]
      BY <1>1, <2>1
    <3>2. \A m \in 1 .. Len(events') : m > n => events'[m].id # i
      BY <1>1, <1>2, <2>1
    <3>3. QED
      BY <3>1, <3>2 DEF Tracked
  <2>2. ASSUME i \in records, \A m \in 1 .. Len(events) : events[m].id # i
        PROVE  Tracked(i)'
    BY <1>1, <1>2, <2>2 DEF Tracked
  <2>3. QED
    BY <1>2, <2>1, <2>2 DEF Tracked
<1>3. ASSUME k = "created" PROVE Tracked(j)'
  <2>1. Len(events) + 1 \in 1 .. Len(events')
    BY <1>1
  <2>2. \A m \in 1 .. Len(events') : ~(m > Len(events) + 1)
    BY <1>1
  <2>3. QED
    BY <1>1, <1>3, <2>1, <2>2 DEF Tracked
<1>4. QED
  BY <1>2, <1>3

\* Applying the first event changes nothing of what the record will say.
LEMMA ApplyTracks ==
    ASSUME events \in Seq(Events), NEW i \in Job, ApplyRecord, Tracked(i)
    PROVE  Tracked(i)'
<1>1. /\ events # <<>> /\ events' = Tail(events)
      /\ records' = IF events[1].kind = "created" THEN records \cup {events[1].id}
                                                  ELSE records \ {events[1].id}
  <2>1. Head(events) = events[1]
    BY DEF ApplyRecord
  <2>2. QED
    BY <2>1 DEF ApplyRecord, Applied
<1>2. /\ Len(events) \in Nat /\ Len(events) > 0 /\ Len(events') = Len(events) - 1
      /\ \A n \in 1 .. Len(events') : events'[n] = events[n + 1]
  BY <1>1 DEF Events
<1>3. ASSUME NEW n \in 1 .. Len(events), events[n] = [kind |-> "created", id |-> i],
             \A m \in 1 .. Len(events) : m > n => events[m].id # i
      PROVE  Tracked(i)'
  <2>1. CASE n = 1
    <3>1. i \in records'
      BY <1>1, <1>3, <2>1
    <3>2. \A m \in 1 .. Len(events') : events'[m].id # i
      BY <1>2, <1>3, <2>1
    <3>3. QED
      BY <3>1, <3>2 DEF Tracked
  <2>2. CASE n # 1
    <3>1. n - 1 \in 1 .. Len(events') /\ events'[n - 1] = [kind |-> "created", id |-> i]
      BY <1>2, <1>3, <2>2
    <3>2. \A m \in 1 .. Len(events') : m > n - 1 => events'[m].id # i
      BY <1>2, <1>3
    <3>3. QED
      BY <3>1, <3>2 DEF Tracked
  <2>3. QED
    BY <2>1, <2>2
<1>4. ASSUME i \in records, \A m \in 1 .. Len(events) : events[m].id # i
      PROVE  Tracked(i)'
  <2>1. i \in records'
    BY <1>1, <1>2, <1>4
  <2>2. \A m \in 1 .. Len(events') : events'[m].id # i
    BY <1>2, <1>4
  <2>3. QED
    BY <2>1, <2>2 DEF Tracked
<1>5. QED
  BY <1>3, <1>4 DEF Tracked

\* An event that is dropped takes at most the registration in it.
LEMMA DropTracks ==
    ASSUME events \in Seq(Events), NEW i \in Job, events # <<>>, events' = Tail(events),
           records' = records, Tracked(i), ~Tracked(i)'
    PROVE  /\ Head(events).kind = "created" /\ Head(events).id = i
           /\ \A k \in 2 .. Len(events) : events[k].id # i
<1>1. /\ Len(events) \in Nat /\ Len(events) > 0 /\ Len(events') = Len(events) - 1
      /\ \A n \in 1 .. Len(events') : events'[n] = events[n + 1]
      /\ Head(events) = events[1]
  BY DEF Events
<1>2. ~(i \in records /\ \A m \in 1 .. Len(events) : events[m].id # i)
  BY <1>1 DEF Tracked
<1>3. PICK n \in 1 .. Len(events) :
          /\ events[n] = [kind |-> "created", id |-> i]
          /\ \A m \in 1 .. Len(events) : m > n => events[m].id # i
  BY <1>2 DEF Tracked
<1>4. n = 1
  <2> SUFFICES ASSUME n # 1 PROVE FALSE
    OBVIOUS
  <2>1. n - 1 \in 1 .. Len(events') /\ events'[n - 1] = [kind |-> "created", id |-> i]
    BY <1>1, <1>3
  <2>2. \A m \in 1 .. Len(events') : m > n - 1 => events'[m].id # i
    BY <1>1, <1>3
  <2>3. QED
    BY <2>1, <2>2 DEF Tracked
<1>5. QED
  BY <1>1, <1>3, <1>4

\* What is left behind stays on record.
LEMMA RecordStep ==
    TypeOK /\ QuietWhenDown /\ LeftoversOnRecord /\ [Next]_vars => LeftoversOnRecord'
<1> SUFFICES ASSUME TypeOK, QuietWhenDown, LeftoversOnRecord, [Next]_vars,
                    NEW i \in Job, temp'[i] # "none", step'[i] # "created"
             PROVE  Tracked(i)' \/ i \in escaped'
  BY DEF LeftoversOnRecord
<1> USE DEF TypeOK, Goto, GiveUp, files, job, app, store, world
<1>0. /\ events \in Seq(Events)
      /\ temp[i] # "none" /\ step[i] # "created" => Tracked(i) \/ i \in escaped
  BY DEF Events, LeftoversOnRecord
<1>1. ASSUME UNCHANGED <<events, records, escaped>>, temp[i] # "none", step[i] # "created"
      PROVE  Tracked(i)' \/ i \in escaped'
  BY <1>0, <1>1 DEF Tracked
<1>2. ASSUME NEW j \in Job, OpenTemp(j) PROVE Tracked(i)' \/ i \in escaped'
  <2>1. i # j
    BY <1>2 DEF OpenTemp
  <2>2. temp[i] # "none" /\ step[i] # "created" /\ (i \in escaped => i \in escaped')
    BY <1>2, <2>1 DEF OpenTemp
  <2>3. UNCHANGED <<events, records>>
    BY <1>2 DEF OpenTemp
  <2>4. QED
    BY <1>0, <2>2, <2>3 DEF Tracked
<1>3. ASSUME NEW j \in Job, ReportTemp(j) PROVE Tracked(i)' \/ i \in escaped'
  <2>1. Emit("created", j) /\ records' = records /\ "created" \in Kinds /\ escaped' = escaped
    BY <1>3 DEF ReportTemp, Kinds
  <2>2. CASE i = j
    BY <1>0, <2>1, <2>2, EmitTracks
  <2>3. CASE i # j
    <3>1. temp[i] # "none" /\ step[i] # "created"
      BY <1>3, <2>3 DEF ReportTemp
    <3>2. QED
      BY <1>0, <2>1, <2>3, <3>1, EmitTracks
  <2>4. QED
    BY <2>2, <2>3
<1>4. ASSUME NEW j \in Job,
             CopyDone(j) \/ CopyFails(j) \/ Verify(j) \/ RemoveProbe(j) \/ RemoveDest(j)
               \/ RemoveDestFails(j) \/ Commit(j) \/ DestAppears(j)
      PROVE  Tracked(i)' \/ i \in escaped'
  <2>1. UNCHANGED <<events, records, escaped>>
    BY <1>4 DEF CopyDone, CopyFails, Verify, RemoveProbe, RemoveDest, RemoveDestFails, Commit,
       DestAppears
  <2>2. temp[i] # "none" /\ step[i] # "created"
    BY <1>4 DEF CopyDone, CopyFails, Verify, RemoveProbe, RemoveDest, RemoveDestFails, Commit,
       AtCommit, DestAppears
  <2>3. QED
    BY <1>1, <2>1, <2>2
<1>5. ASSUME NEW j \in Job, Cleanup(j) PROVE Tracked(i)' \/ i \in escaped'
  <2>1. temp[i] # "none" /\ step[i] # "created" /\ records' = records /\ escaped' = escaped
    BY <1>5 DEF Cleanup
  <2>2. CASE temp'[j] = "none" /\ Emit("cleared", j)
    <3>1. i # j /\ "cleared" \in Kinds
      BY <2>2 DEF Kinds
    <3>2. QED
      BY <1>0, <2>1, <2>2, <3>1, EmitTracks
  <2>3. CASE UNCHANGED <<temp, events>>
    BY <1>1, <2>1, <2>3
  <2>4. QED
    BY <1>5, <2>2, <2>3 DEF Cleanup
<1>6. ASSUME NEW j \in Upload, CleanRemote(j) PROVE Tracked(i)' \/ i \in escaped'
  <2>1. temp[i] # "none" /\ step[i] # "created" /\ UNCHANGED <<events, records, escaped>>
    BY <1>6, CommitAssumption DEF CleanRemote
  <2>2. QED
    BY <1>1, <2>1
<1>7. ASSUME NEW j \in Upload, ReportCleaned(j) PROVE Tracked(i)' \/ i \in escaped'
  <2>1. /\ temp[i] # "none" /\ step[i] # "created" /\ records' = records
        /\ escaped \subseteq escaped' /\ (i = j => i \in escaped')
        /\ Emit("cleared", j) /\ "cleared" \in Kinds
    BY <1>7 DEF ReportCleaned, Kinds
  <2>2. QED
    BY <1>0, <2>1, EmitTracks, CommitAssumption
<1>8. ASSUME NEW j \in Upload, CleanRemoteFails(j) PROVE Tracked(i)' \/ i \in escaped'
  BY <1>1, <1>8 DEF CleanRemoteFails
<1>9. CASE ApplyRecord
  <2>1. temp[i] # "none" /\ step[i] # "created" /\ escaped' = escaped
    BY <1>9 DEF ApplyRecord
  <2>2. QED
    BY <1>0, <1>9, <2>1, ApplyTracks
<1>10. CASE RecordFails
  <2>1. /\ temp[i] # "none" /\ step[i] # "created" /\ records' = records
        /\ events # <<>> /\ events' = Tail(events)
        /\ escaped' = IF Registers(Head(events)) THEN escaped \cup {Head(events).id} ELSE escaped
    BY <1>10 DEF RecordFails
  <2>2. CASE Tracked(i) /\ ~Tracked(i)'
    <3>1. /\ Head(events).kind = "created" /\ Head(events).id = i
          /\ \A k \in 2 .. Len(events) : events[k].id # i
      BY <1>0, <2>1, <2>2, DropTracks
    <3>2. Registers(Head(events))
      BY <2>1, <3>1 DEF Registers
    <3>3. QED
      BY <2>1, <3>1, <3>2
  <2>3. QED
    BY <1>0, <2>1, <2>2
<1>11. CASE Connect \/ ConnectionLost
  BY <1>1, <1>11 DEF Connect, ConnectionLost
<1>12. CASE Crash
  <2>1. i \in records \/ i \in escaped'
    BY <1>12 DEF Crash
  <2>2. events' = <<>> /\ records' = records
    BY <1>12 DEF Crash
  <2>3. QED
    BY <2>1, <2>2 DEF Tracked
<1>13. CASE Launch
  <2>1. PICK kept \in SUBSET (records \cap Download), saved \in BOOLEAN :
            LET gone == (records \cap Download) \ kept
            IN  /\ IF kept = {} /\ saved THEN UNCHANGED faults ELSE Fault
                /\ temp' = [j \in Job |-> IF j \in gone THEN "none" ELSE temp[j]]
                /\ mem' = records \ gone
                /\ records' = IF saved THEN records \ gone ELSE records
    BY <1>13 DEF Launch
  <2>2. temp[i] # "none" /\ (i \in records => i \in records')
    BY <2>1
  <2>3. step[i] # "created" /\ events' = events /\ escaped' = escaped \ records
    BY <1>13 DEF Launch
  <2>4. events = <<>>
    BY <1>13 DEF Launch, QuietWhenDown
  <2>5. QED
    BY <1>0, <2>2, <2>3, <2>4 DEF Tracked
<1>14. CASE LaunchUnreadable
  BY <1>1, <1>14 DEF LaunchUnreadable
<1>15. CASE UNCHANGED vars
  BY <1>1, <1>15 DEF vars
<1>16. QED
  BY <1>2, <1>3, <1>4, <1>5, <1>6, <1>7, <1>8, <1>9, <1>10, <1>11, <1>12, <1>13, <1>14,
     <1>15 DEF Next, Attempt

-----------------------------------------------------------------------------
(* The theorems. *)

\* The inductive invariant holds always.
THEOREM CommitInvariance == Spec => []IInv
<1>1. IInv /\ [Next]_vars => IInv'
  BY TypeStep, ProbeStep, WholeStep, QuietStep, DownloadStep, UploadStep, DestStep,
     RecordStep DEF IInv
<1>2. QED
  BY InitInv, <1>1, PTL DEF Spec

\* The state keeps its type; links are only taken for proven where they work.
THEOREM CommitTypeCorrect == Spec => []TypeOK
<1>1. IInv => TypeOK
  BY DEF IInv
<1>2. QED
  BY <1>1, CommitInvariance, PTL

\* A destination is never half a file (commit_remote_temp, commit_local_temp).
THEOREM DestinationAlwaysWhole == Spec => []DestinationWhole
<1>1. IInv => DestinationWhole
  BY DEF IInv
<1>2. QED
  BY <1>1, CommitInvariance, PTL

\* Every temporary file left behind is on record, or its registration was lost by a
\* crash before it was made, by a failing save (modify, add_and_save), or to the
\* report of a clean-up of the same path (RemoveRemoteTempFile).
THEOREM LeftoversAlwaysOnRecord == Spec => []LeftoversOnRecord
<1>1. IInv => LeftoversOnRecord
  BY DEF IInv
<1>2. QED
  BY <1>1, CommitInvariance, PTL

\* The clean-ups take no file of a running download, even if tabs connect while it
\* runs (reconcile_local_residual_temps, clean_remote_residual_temps).
THEOREM CleanUpSparesDownloads == Spec => []DownloadsUndisturbed
<1>1. IInv => DownloadsUndisturbed
  BY DEF IInv
<1>2. QED
  BY <1>1, CommitInvariance, PTL

\* What a step may take away of an old destination.
Replaceable(j) ==
    dest[j] # "none" /\ dest'[j] = "none" => temp[j] = "full" /\ j \in linkable

\* An old destination goes only when the whole replacement can be linked, of an
\* upload provided that no tab connects meanwhile.
LEMMA ReplaceStep ==
    IInv /\ [Next]_vars => \A j \in Job : j \in Download \/ ~Overlap => Replaceable(j)
<1> SUFFICES ASSUME IInv, [Next]_vars, NEW j \in Job, j \in Download \/ ~Overlap,
                    dest[j] # "none", dest'[j] = "none"
             PROVE  temp[j] = "full" /\ j \in linkable
  BY DEF Replaceable
<1> USE DEF IInv, TypeOK, files
<1>1. RemoveDest(j)
  <2>1. ASSUME NEW i \in Job, Commit(i) \/ DestAppears(i) PROVE FALSE
    BY <2>1 DEF Commit, DestAppears
  <2>2. ASSUME NEW i \in Job, RemoveDest(i) PROVE i = j
    BY <2>2 DEF RemoveDest
  <2>3. dest' # dest
    OBVIOUS
  <2>4. QED
    BY <2>1, <2>2, <2>3 DEF Next, Attempt, OpenTemp, ReportTemp, CopyDone, CopyFails, Verify,
       RemoveProbe, RemoveDestFails, Cleanup, vars, CleanRemote, ReportCleaned,
       CleanRemoteFails, ApplyRecord, RecordFails, Connect, ConnectionLost, Crash, Launch,
       LaunchUnreadable
<1>2. step[j] = "verified"
  BY <1>1 DEF RemoveDest
<1>3. QED
  BY <1>2 DEF ProbeMeansLinks, WholeAfterCopy, DownloadsUndisturbed, UploadsUndisturbed, Writing,
     Download

\* A download removes an old local file only when the whole replacement can be
\* linked, whatever tabs do (prepare_download_destination, verify_local_hardlink).
THEOREM DownloadsKeepOld == Spec => [][\A j \in Download : Replaceable(j)]_vars
<1>1. IInv /\ [Next]_vars => [\A j \in Download : Replaceable(j)]_vars
  BY ReplaceStep DEF Download
<1>2. QED
  BY <1>1, CommitInvariance, PTL DEF Spec

\* If no tab connects during an upload, the same is true of every destination
\* (verify_remote_hardlink before remove_remote_destination).
THEOREM OldIsKept == ASSUME ~Overlap PROVE Spec => OldKeptUntilReplaceable
<1> DEFINE Keeps == \A j \in Job : dest[j] # "none" /\ dest'[j] = "none"
                        => temp[j] = "full" /\ j \in linkable
<1>1. IInv /\ [Next]_vars => [Keeps]_vars
  BY ReplaceStep DEF Replaceable
<1>2. QED
  BY <1>1, CommitInvariance, PTL DEF Spec, OldKeptUntilReplaceable
=============================================================================
