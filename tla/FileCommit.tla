----------------------------- MODULE FileCommit -----------------------------
(***************************************************************************)
(* How a transferred file gets to its destination, and what is left behind *)
(* when that is interrupted. A job writes a temporary file beside the      *)
(* destination, removes the old file if it is to be replaced, links the    *)
(* temporary file to the destination and removes it. The application keeps *)
(* a record of every temporary file on disk, learns of them through the    *)
(* event channel, and removes the recorded ones later: local ones at the   *)
(* next launch, remote ones when a tab connects to the server.             *)
(*                                                                         *)
(* The connection may be lost and the process may crash at any step, and   *)
(* the file of the record may fail to be locked, read or written.          *)
(* Transfer ids start again at every launch, so a job of the next run can  *)
(* have the temporary path of one of the last: a job here is such a path.  *)
(***************************************************************************)
EXTENDS Naturals, Sequences, FiniteSets

CONSTANTS
    Job,        \* files being transferred, one temporary path each
    Upload,     \* the ones whose destination is on the server
    Overlap,    \* a tab may connect, and clean up, while an upload is under way
    Capacity,   \* event_channel_capacity
    MaxTries,   \* bound: attempts of all jobs
    MaxFaults   \* bound: lost connections, crashes and failing file operations

ASSUME CommitAssumption ==
    /\ Upload \subseteq Job
    /\ Overlap \in BOOLEAN
    /\ Capacity \in Nat \ {0}
    /\ MaxTries \in Nat /\ MaxFaults \in Nat

VARIABLES
    up,         \* the application runs
    online,     \* the connection to the server works
    linkable,   \* directories of these destinations accept hard links
    step,       \* where each job is
    replace,    \* its conflict policy is OverwriteAll
    good,       \* the attempt has succeeded, only the clean-up is left
    temp,       \* the temporary files
    probe,      \* jobs whose commit probe exists
    dest,       \* the destinations
    proven,     \* hardlink_commit_confirmed for the job's directory
    events,     \* ResidualTempCreated and ResidualTempCleared under way
    records,    \* residual_temp.json
    mem,        \* the records as the store last had them in memory
    blocked,    \* initial_error: the file could not be read at launch
    mailbox,    \* RemoveRemoteTempFile requests in the session's mailbox
    removed,    \* files the session actor removed and has not reported yet
    escaped,    \* temporary files whose registration was lost (see below)
    tries,      \* attempts so far
    faults      \* faults so far

files == <<temp, probe, dest>>
job   == <<step, replace, good, proven, tries>>
store == <<records, mem, blocked>>
app   == <<events, store, mailbox, removed, escaped>>
world == <<up, online, linkable, faults>>
vars  == <<files, job, app, world>>

Steps == {"idle", "created", "copying", "copied", "probing", "verified",
          "cleared", "cleanup", "failed", "done"}
Kinds == {"created", "cleared"}

TypeOK ==
    /\ up \in BOOLEAN /\ online \in BOOLEAN
    /\ linkable \subseteq Job
    /\ step \in [Job -> Steps]
    /\ replace \subseteq Job /\ good \subseteq Job
    /\ temp \in [Job -> {"none", "partial", "full"}]
    /\ probe \subseteq Job
    /\ dest \in [Job -> {"none", "old", "partial", "full"}]
    /\ proven \subseteq linkable
    /\ events \in Seq([kind : Kinds, id : Job])
    /\ records \subseteq Job
    /\ mem \subseteq Job /\ blocked \in BOOLEAN
    /\ mailbox \subseteq Upload /\ removed \subseteq Upload
    /\ escaped \subseteq Job
    /\ tries \in 0 .. MaxTries
    /\ faults \in 0 .. MaxFaults

Init ==
    /\ up = TRUE /\ online = TRUE
    /\ linkable \in SUBSET Job
    /\ step = [j \in Job |-> "idle"]
    /\ replace = {} /\ good = {} /\ proven = {}
    /\ temp = [j \in Job |-> "none"] /\ probe = {}
    /\ dest \in [Job -> {"none", "old"}]
    /\ events = <<>> /\ records = {} /\ mem = {} /\ blocked = FALSE
    /\ mailbox = {} /\ removed = {} /\ escaped = {}
    /\ tries = 0 /\ faults = 0

Idle(j) == step[j] \in {"idle", "failed", "done"}
Download == Job \ Upload

\* Operations of a job on its files work unless they are remote and offline.
Reach(j) == up /\ (j \in Upload => online)

Goto(j, s) == step' = [step EXCEPT ![j] = s]
Fault == faults < MaxFaults /\ faults' = faults + 1

\* The event channel is bounded: a sender waits for room.
Emit(k, j) ==
    /\ Len(events) < Capacity
    /\ events' = Append(events, [kind |-> k, id |-> j])

-----------------------------------------------------------------------------
\* One attempt of a job.

\* A temporary file of an earlier attempt is removed before the new one is
\* created (open with EXCLUDE, cleanup without a record, open again).
OpenTemp(j) ==
    /\ step[j] \in {"idle", "failed"} /\ Reach(j) /\ tries < MaxTries
    /\ Overlap \/ j \in Download \/ mailbox \cup removed = {}
    /\ Goto(j, "created")
    /\ \E r \in {replace \cup {j}, replace \ {j}} : replace' = r
    /\ temp' = [temp EXCEPT ![j] = "partial"]
    /\ escaped' = escaped \ {j}
    /\ good' = good \ {j}
    /\ tries' = tries + 1
    /\ UNCHANGED <<probe, dest, proven, events, store, mailbox, removed, world>>

\* emit_residual_temp_created
ReportTemp(j) ==
    /\ up /\ step[j] = "created"
    /\ Goto(j, "copying")
    /\ Emit("created", j)
    /\ UNCHANGED <<files, replace, good, proven, tries, store, mailbox, removed, escaped, world>>

\* The copy is complete. What was written to an unlinked file is gone.
CopyDone(j) ==
    /\ up /\ online /\ step[j] = "copying"
    /\ Goto(j, "copied")
    /\ temp' = [temp EXCEPT ![j] = IF @ = "none" THEN "none" ELSE "full"]
    /\ UNCHANGED <<probe, dest, replace, good, proven, tries, app, world>>

\* Mutant: an error of the copy does not keep the file from being committed.
CopyFailsMut(j) ==
    /\ up /\ step[j] = "copying"
    /\ Goto(j, "copied")
    /\ IF online THEN Fault ELSE UNCHANGED faults
    /\ UNCHANGED <<files, replace, good, proven, tries, app, up, online, linkable>>

\* The copy meets an error, a lost connection or a cancel.
CopyFails(j) ==
    /\ up /\ step[j] = "copying"
    /\ Goto(j, "cleanup")
    /\ IF online THEN Fault ELSE UNCHANGED faults
    /\ UNCHANGED <<files, replace, good, proven, tries, app, up, online, linkable>>

\* Where an attempt goes when replacing the destination fails: a download
\* removes its temporary file, an upload returns and leaves it behind.
GiveUp(j) == Goto(j, IF j \in Download THEN "cleanup" ELSE "failed")

\* Mutant: the destination is removed without proof that links work.
VerifyMut(j) ==
    /\ up /\ step[j] = "copied" /\ j \in replace
    /\ Goto(j, "verified")
    /\ UNCHANGED <<files, replace, good, proven, tries, app, world>>

\* hardlink_commit_confirmed, or the first half of verify_*_hardlink: the
\* temporary file is linked to a probe.
Verify(j) ==
    /\ up /\ step[j] = "copied" /\ j \in replace
    /\ \/ j \in proven /\ Goto(j, "verified") /\ UNCHANGED probe
       \/ /\ j \notin proven
          /\ IF Reach(j) /\ j \in linkable /\ temp[j] # "none"
             THEN Goto(j, "probing") /\ probe' = probe \cup {j}
             ELSE GiveUp(j) /\ UNCHANGED probe
    /\ UNCHANGED <<temp, dest, replace, good, proven, tries, app, world>>

\* The second half: the probe is removed, or the attempt fails.
RemoveProbe(j) ==
    /\ up /\ step[j] = "probing"
    /\ IF Reach(j)
       THEN /\ Goto(j, "verified")
            /\ probe' = probe \ {j}
            /\ proven' = proven \cup {j}
       ELSE GiveUp(j) /\ UNCHANGED <<probe, proven>>
    /\ UNCHANGED <<temp, dest, replace, good, tries, app, world>>

\* remove_remote_destination, remove_downloaded_file_destination
RemoveDest(j) ==
    /\ Reach(j) /\ step[j] = "verified"
    /\ Goto(j, "cleared")
    /\ dest' = [dest EXCEPT ![j] = "none"]
    /\ UNCHANGED <<temp, probe, replace, good, proven, tries, app, world>>

\* It fails: no permission, a folder in its place, or the connection is lost.
RemoveDestFails(j) ==
    /\ up /\ step[j] = "verified"
    /\ GiveUp(j)
    /\ IF Reach(j) THEN Fault ELSE UNCHANGED faults
    /\ UNCHANGED <<files, replace, good, proven, tries, app, up, online, linkable>>

AtCommit(j) ==
    \/ step[j] = "cleared"
    \/ step[j] = "copied" /\ j \notin replace

\* commit_remote_temp, commit_local_temp: a link that never replaces a file.
Commit(j) ==
    /\ up /\ AtCommit(j)
    /\ Goto(j, "cleanup")
    /\ IF Reach(j) /\ j \in linkable /\ temp[j] # "none" /\ dest[j] = "none"
       THEN /\ dest' = [dest EXCEPT ![j] = temp[j]]
            /\ good' = good \cup {j}
       ELSE UNCHANGED <<dest, good>>
    /\ UNCHANGED <<temp, probe, replace, proven, tries, app, world>>

\* Mutant: the record is dropped although the file could not be removed.
CleanupMut(j) ==
    /\ up /\ step[j] = "cleanup"
    /\ Goto(j, IF j \in good THEN "done" ELSE "failed")
    /\ IF Reach(j) THEN temp' = [temp EXCEPT ![j] = "none"] ELSE UNCHANGED temp
    /\ Emit("cleared", j)
    /\ UNCHANGED <<probe, dest, replace, good, proven, tries, store, mailbox, removed, escaped,
                   world>>

\* cleanup_remote_temp, cleanup_local_temp: the file is removed, or it cannot be
\* reached, or its removal is refused; the record is given up only in the first case.
Cleanup(j) ==
    /\ up /\ step[j] = "cleanup"
    /\ Goto(j, IF j \in good THEN "done" ELSE "failed")
    /\ \/ /\ Reach(j)
          /\ temp' = [temp EXCEPT ![j] = "none"]
          /\ Emit("cleared", j)
          /\ UNCHANGED faults
       \/ /\ IF Reach(j) THEN Fault ELSE UNCHANGED faults
          /\ UNCHANGED <<temp, events>>
    /\ UNCHANGED <<probe, dest, replace, good, proven, tries, store, mailbox, removed, escaped,
                   up, online, linkable>>

Attempt(j) ==
    \/ OpenTemp(j) \/ ReportTemp(j) \/ CopyDone(j) \/ CopyFails(j)
    \/ Verify(j) \/ RemoveProbe(j) \/ RemoveDest(j) \/ RemoveDestFails(j)
    \/ Commit(j) \/ Cleanup(j)

\* Something else creates the destination.
DestAppears(j) ==
    /\ dest[j] = "none"
    /\ dest' = [dest EXCEPT ![j] = "old"]
    /\ Fault
    /\ UNCHANGED <<temp, probe, job, app, up, online, linkable>>

-----------------------------------------------------------------------------
\* The record of temporary files, and what is done with it.

\* ResidualTempStore::add, ResidualTempStore::remove
Applied(e, S) == IF e.kind = "created" THEN S \cup {e.id} ELSE S \ {e.id}

\* add_and_save, remove_and_save: modify reloads the file, applies the event
\* and saves.
ApplyRecord ==
    /\ up /\ events # <<>> /\ ~blocked
    /\ records' = Applied(Head(events), records)
    /\ mem' = records'
    /\ events' = Tail(events)
    /\ UNCHANGED <<files, job, blocked, mailbox, removed, escaped, world>>

\* The first event registers a file that is there, and none after it is about
\* that file.
Registers(e) ==
    /\ e.kind = "created" /\ temp[e.id] # "none" /\ step[e.id] # "created"
    /\ \A k \in 2 .. Len(events) : events[k].id # e.id

\* modify fails: the file was unreadable at launch, it cannot be locked or
\* reloaded, or it cannot be saved, which leaves the event applied in memory. The
\* coordinator warns and drops the event; the registration in it is lost.
RecordFails ==
    LET e == Head(events)
    IN  /\ up /\ events # <<>>
        /\ \/ blocked /\ UNCHANGED <<mem, faults>>
           \/ ~blocked /\ Fault /\ mem' \in {mem, Applied(e, records)}
        /\ events' = Tail(events)
        /\ escaped' = IF Registers(e) THEN escaped \cup {e.id} ELSE escaped
        /\ UNCHANGED <<files, job, records, blocked, mailbox, removed, up, online, linkable>>

\* Mutant: leftovers of a lost connection are not looked for on the next one.
ConnectMut ==
    /\ up
    /\ Overlap \/ \A j \in Upload : Idle(j)
    /\ online' = TRUE
    /\ UNCHANGED <<files, job, app, up, linkable, faults>>

\* TabConnected and clean_remote_residual_temps: one request for each remote
\* record in memory, as far as the mailbox has room.
Connect ==
    /\ up
    /\ Overlap \/ \A j \in Upload : Idle(j)
    /\ online' = TRUE
    /\ \E S \in SUBSET (mem \cap Upload) : mailbox' = mailbox \cup S
    /\ UNCHANGED <<files, job, events, store, removed, escaped, up, linkable, faults>>

\* RemoveRemoteTempFile in the session actor: the file is removed.
CleanRemote(j) ==
    /\ up /\ online /\ j \in mailbox
    /\ mailbox' = mailbox \ {j}
    /\ temp' = [temp EXCEPT ![j] = "none"]
    /\ removed' = removed \cup {j}
    /\ UNCHANGED <<probe, dest, job, events, store, escaped, world>>

\* Then the removal is reported, also when the connection is lost by now. A new
\* attempt may have registered the path in the meantime: the report takes that
\* registration away.
ReportCleaned(j) ==
    /\ up /\ j \in removed
    /\ removed' = removed \ {j}
    /\ Emit("cleared", j)
    /\ escaped' = IF temp[j] # "none" /\ step[j] # "created" THEN escaped \cup {j} ELSE escaped
    /\ UNCHANGED <<files, job, store, mailbox, world>>

\* The server refuses: the record stays for the next connection.
CleanRemoteFails(j) ==
    /\ up /\ online /\ j \in mailbox
    /\ mailbox' = mailbox \ {j}
    /\ Fault
    /\ UNCHANGED <<files, job, events, store, removed, escaped, up, online, linkable>>

\* The session ends, and its mailbox with it.
ConnectionLost ==
    /\ up /\ online
    /\ online' = FALSE
    /\ mailbox' = {}
    /\ Fault
    /\ UNCHANGED <<files, job, events, store, removed, escaped, up, linkable>>

\* A crash: what is on disk and on the server stays. Events under way are lost,
\* and with them the registrations not yet made.
Crash ==
    /\ up
    /\ up' = FALSE /\ online' = FALSE
    /\ step' = [j \in Job |-> "idle"]
    /\ good' = {} /\ proven' = {}
    /\ events' = <<>> /\ mailbox' = {} /\ removed' = {} /\ mem' = {}
    /\ escaped' = escaped \cup {j \in Job : temp[j] # "none" /\ j \notin records}
    /\ Fault
    /\ UNCHANGED <<files, replace, tries, records, blocked, linkable>>

\* ResidualTempStore::open_or_empty and reconcile_local_residual_temps: a file
\* that cannot be removed keeps its record, and the save at the end may fail.
Launch ==
    /\ ~up
    /\ up' = TRUE /\ blocked' = FALSE
    /\ \E kept \in SUBSET (records \cap Download), saved \in BOOLEAN :
          LET gone == (records \cap Download) \ kept
          IN  /\ IF kept = {} /\ saved THEN UNCHANGED faults ELSE Fault
              /\ temp' = [j \in Job |-> IF j \in gone THEN "none" ELSE temp[j]]
              /\ mem' = records \ gone
              /\ records' = IF saved THEN records \ gone ELSE records
    /\ escaped' = escaped \ records
    /\ UNCHANGED <<probe, dest, job, events, mailbox, removed, online, linkable>>

\* The file cannot be read: nothing is reconciled, and nothing is written until
\* the next launch, so that recovery data is not overwritten.
LaunchUnreadable ==
    /\ ~up
    /\ up' = TRUE /\ blocked' = TRUE
    /\ Fault
    /\ UNCHANGED <<files, job, events, records, mem, mailbox, removed, escaped, online, linkable>>

-----------------------------------------------------------------------------
Next ==
    \/ \E j \in Job : Attempt(j) \/ DestAppears(j)
    \/ \E j \in Upload : CleanRemote(j) \/ ReportCleaned(j) \/ CleanRemoteFails(j)
    \/ ApplyRecord \/ RecordFails
    \/ Connect \/ ConnectionLost \/ Crash \/ Launch \/ LaunchUnreadable

Spec == Init /\ [][Next]_vars

\* Tasks and channels make progress, the application is started again, and as
\* long as there are records some tab connects to their server again.
Fairness ==
    /\ \A j \in Job : WF_vars(Attempt(j))
    /\ \A j \in Upload : WF_vars(CleanRemote(j)) /\ WF_vars(ReportCleaned(j))
    /\ WF_vars(ApplyRecord \/ RecordFails)
    /\ WF_vars(Connect)
    /\ WF_vars(Launch)

FairSpec == Spec /\ Fairness

-----------------------------------------------------------------------------
\* Safety

\* What the record says once the events under way are applied: the last event
\* about the job decides.
Tracked(j) ==
    \/ \E i \in 1 .. Len(events) :
          /\ events[i] = [kind |-> "created", id |-> j]
          /\ \A k \in 1 .. Len(events) : k > i => events[k].id # j
    \/ j \in records /\ \A k \in 1 .. Len(events) : events[k].id # j

\* Whatever a job leaves behind is on record: a temporary file exists without
\* one only between its creation and the report, or when its registration was
\* lost, in one of three ways: a crash came before it was made; modify failed
\* ("Losing a registration would leave a `.macsftp-part` file that launch
\* cleanup can never identify"); or the report of a clean-up crossed a new
\* attempt with the same path. Nothing else loses it: no failed clean-up, no
\* lost connection, no failed or interrupted launch.
LeftoversOnRecord ==
    \A j \in Job : temp[j] # "none" /\ step[j] # "created" => Tracked(j) \/ j \in escaped

\* No reader of a destination sees half a file, whatever fails and whenever the
\* process dies: a destination is the old file, nothing, or the whole new one.
DestinationWhole == \A j \in Job : dest[j] # "partial"

\* An existing destination is removed only when its whole replacement is there
\* to be linked and the directory has been seen to accept links: nobody has
\* removed the temporary file in the meantime (verify_*_hardlink before
\* remove_*_destination).
OldKeptUntilReplaceable ==
    [][\A j \in Job : dest[j] # "none" /\ dest'[j] = "none"
                        => temp[j] = "full" /\ j \in linkable]_vars

\* The clean-up of leftovers takes no file that a running job still needs.
TempSurvives ==
    \A j \in Job : step[j] \in {"copying", "copied", "probing", "verified", "cleared"}
                     => temp[j] # "none"

-----------------------------------------------------------------------------
\* The inductive invariant behind the safety properties.

\* A job past its probe has seen that links work.
ProbeMeansLinks == \A j \in Job : step[j] \in {"probing", "verified"} => j \in linkable

\* A job past its copy has no partial file.
WholeAfterCopy ==
    \A j \in Job : step[j] \in {"copied", "probing", "verified", "cleared"}
                     => temp[j] # "partial"

\* A process that is not running has no jobs and no events.
QuietWhenDown == up \/ (events = <<>> /\ \A j \in Job : step[j] = "idle")

\* The steps of an attempt that has written its temporary file and needs it.
Writing == {"created", "copying", "copied", "probing", "verified", "cleared"}

\* What a running download wrote is there, whatever is cleaned up at launch and on
\* connections.
DownloadsUndisturbed == \A j \in Download : step[j] \in Writing => temp[j] # "none"

\* If no tab connects during an upload, clean-ups and uploads do not meet: what a
\* running upload wrote is there.
UploadsUndisturbed ==
    ~Overlap =>
        /\ mailbox \cup removed = {} \/ \A j \in Upload : Idle(j)
        /\ \A j \in Upload : step[j] \in Writing => temp[j] # "none"

IInv ==
    /\ TypeOK
    /\ ProbeMeansLinks
    /\ WholeAfterCopy
    /\ QuietWhenDown
    /\ DownloadsUndisturbed
    /\ UploadsUndisturbed
    /\ DestinationWhole
    /\ LeftoversOnRecord

-----------------------------------------------------------------------------
\* Liveness

\* Remote leftovers of jobs that are over are reclaimed in the end, through
\* failed clean-ups, failed saves, lost connections and crashes, unless their
\* registration was lost or the record could not be read at the last launch.
LeftoversReclaimed ==
    <>[](\A j \in Upload : Idle(j)) =>
        <>[](\A j \in Upload : temp[j] = "none" \/ j \in escaped \/ blocked)
=============================================================================
