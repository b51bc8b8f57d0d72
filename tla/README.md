# TLA+ models of macSFTP

macSFTP is an SFTP client for macOS written in Rust: a GPUI application on top of
`russh`. This directory models its concurrent core, checks the models with TLC on
small instances and proves the main results with TLAPS for every instance.

`tlc -config TransferManager_retries.cfg MCTransferManager` runs one configuration;
`PROJECT.json` lists all of them. `tlapm TransferManagerProofs.tla` checks the proofs of one module;
the others are `ConnectionPoolProofs`, `TransferRowsProofs`, `RemoteEditProofs`, `FileCommitProofs`,
`ProfileStoreProofs`, `PaneProofs` and `PipelineProofs`.

## Inventory of the system

| Component | State | Operations | Interacts with |
|---|---|---|---|
| Transfer manager (`sftp/src/transfer_manager.rs`) | queue of jobs, running jobs, per-plan counters and root, pre-enqueue cancellations, retry routes, idle sessions, policies, conflict waiters | `Enqueue`, `Cancel`, `CancelPlan`, `ForgetPlan`, `Retry`, `ResolveConflict`, completions, `start_queued` | request channel from the runtime and the planners; completion channel from the tasks; counters, policies, waiters and tokens shared with the tasks |
| Job task (`sftp/src/transfer_job.rs`) | session, job, policy, permission to clear | open a session, conflict check and prompt, upload or download, terminal event, completion | manager, connection, user interface |
| Planning and handoff (`sftp/src/runtime.rs`, `transfer_planner.rs`) | planning guard of each plan, recorded cancels | start, cancel, hand over, forget | manager, transfer store |
| Connection pool (`sftp/src/pool.rs`) | entry per connection key: attempt or connection | `get_or_connect`, `mark_connected`, `abandon_attempt`, reaping | runtime, physical connection |
| Runtime (`sftp/src/runtime.rs`) | sessions of the tabs, reconnect tasks, pending prompts | one command handler each | everything in `sftp` |
| Session actor (`sftp/src/session_actor.rs`) | one browsing session of a tab | list, create, rename, delete, ... until cancelled or disconnected | connection, user interface |
| Physical connection (`sftp/src/physical_connection.rs`) | SSH handle, `connection_lost`, cause of disconnection | handshake, authentication, keepalive | pool, trust and keyboard-interactive registries |
| Known hosts, trust, keyboard-interactive | pending prompts, known keys | ask, answer, cancel | physical connection, user interface |
| Pipelined reader and writer | window of in-flight requests, contiguous prefix | fill, complete, fail, cancel | job task |
| Transfer store (`core/src/core.rs`) | rows of jobs and plans | one reducer per transfer event | events of manager and tasks |
| Tabs (`core/src/core.rs`, `app/src/session_coordinator.rs`, `event_coordinator.rs`) | connection state and epoch of each tab | connect, reconnect, events | runtime |
| Remote edit (`core/src/remote_edit.rs`, `app/src/edit_effects.rs`) | state of each edited file | open, change, check, upload, resolve, close | transfers, file watcher |
| Storage (`storage/src`) | files of profiles, recents, configuration, session, residual temporaries | read, replace atomically under a lock | application, Keychain |
| Keychain (`storage/src/keychain.rs`) | one secret for each profile and kind | store, delete | profile store |
| Panes (`app/src/workspace/panes.rs`, `file_ops.rs`, `nav.rs`, `core/src/core.rs`) | path, listing, spinner and history of each pane, open dialogs | navigate, back, forward, refresh, follow a link, rename, create, delete | runtime, background threads, tabs |
| Workspace, UI, platform, menu | view state | rendering, input, system calls | all of the above |

What is hard here, and where:

* *Order.* Requests, completions, planners and the user's cancels reach the manager on
  different channels; a cancel may precede the job it is for, or follow its end.
* *Shared counters.* `active_channels` is changed by the manager, by the tasks and by the
  browsing actors, and is read by the scheduler without a lock.
* *Retries and reconnects.* A job outlives its connection; a plan outlives its jobs; a
  retried folder job must not delete what its children wrote.
* *Waiting.* A job waits for the user, the queue waits for a slot, a slot waits for a
  completion.
* *Stale answers.* A check, an event or a snapshot that was right when it was made, and is used after a
  save, a reconnect or another instance's commit.
* *Failure in the middle.* Replacing a destination, changing a file and the Keychain together, and
  the residue of a crash.

What makes the components correct: the manager starts what is queued, once, within its
limits, and never after a cancel; each attempt of a job has one outcome; a plan that is
over leaves nothing behind; the pool has one attempt per key and hands every waiter a
current answer; the store's rows agree with what the manager did; an edit never
overwrites a version it has not seen; a stored file has its old or its new content; a pane shows
the directory it names and comes to show what was done in it; a transfer that succeeds has moved
every byte to its place.

## Modules

### `TransferManager`

The manager and the tasks it spawns. State and code correspond as follows.

* `mgr` is the place of the manager's loop: it takes a request or a completion in
  `"select"`, which is one action each, and then starts jobs one by one in `"start"`,
  `StartNext`, until `StartDone`. Tasks, connections and browsing actors move in between.
* `pending` maps each queued job to the set of jobs ahead of it and its connection. This
  is the `VecDeque`, with one representation for each content. `pendingPerPlan`,
  `pendingRoots`, `runningPerPlan`, `rootJob`, `childrenStarted`, `tombs`, `routes` and
  `idle` are the manager's maps; an absent key is 0, `NoId`, `Unset` or an empty sequence.
* `pc[j]` is the place of the task of `j`: opening its session, in the conflict check,
  asking the user, transferring, or done and not yet collected. `pc[j] # "idle"` is the
  presence of `j` in `running`. The fields of the task are reset when it is collected.
* `policies`, `waiting`, `decision`, `cancelled` and `channels` are what manager and tasks
  share: plan policies, conflict waiters with their one-shot channels, cancellation tokens
  and `active_channels`.
* `phase`, `epoch`, `up` and `browse` are the surroundings: whether the plan is still being
  planned, the newest connection of the key, whether it lives, and the browsing actors.
* `told`, `asked`, `planAsked`, `started`, `retries` and `cancels` only observe.

The requests are `Enqueue`, `EnqueueCancelledPlan`, `ForgetPlan`, `CancelPlan`, `Cancel` (of
a root, a queued, a running or an unknown id), `Retry`, `RetryWithoutConnection` and
`ResolveConflict`; `HandleCompleted` and `Stop` complete the loop. A task takes
`OpenSession` or `OpenFails`, then `CheckPasses`, `CheckEnds` or `AskUser`, a decision, and
`TransferEnds`. Every path ends in `Finish`: terminal event, channel given back, completion
sent. A task sends the event first and gives the channel back right after; the model does
both at once, which hides only states in which a channel is counted a moment longer.

Abstractions: a path, a size, a progress event or an error text is not represented; an
outcome is completed, skipped (with a clean session or not), failed or retryable. `plan_facts`,
a cache of directories known to exist, changes no control. A retry finds the connection
of the failed attempt if it lives, else the live one of the same key; with one key both are
the newest connection. Requests that the manager ignores (a retry without a route, a
decision without a waiter) only wake `start_queued`, which finds nothing new to do.

Two ids deserve a word. A plan has a row of its own, `Row[p]`, whose id is `root_job_id`.
Planners allocate fresh ids for the jobs, and the manager calls the first of them,
`First[p]`, the root. `Row[p]` is therefore never a job.

`MCTransferManager` holds the instances; plans are strings, ids numbers in the order the
planner hands them out, which is the order in which a batch is queued.

### `TransferManagerProofs`

The theorems about `TransferManager`, below.

### `ConnectionPool`

The pool for one connection key, the attempts that fill it and the tabs that use it. Keys
do not interact: the pool is a map, and every operation names one key.

* `entry` is the pool's entry: none, `Connecting(n)` or `Connected(n)`. An attempt and the
  connection it establishes have the same number; `last` is the newest.
* `pc[n]` is the place of the attempt's task: `handshake`, `trust` (waiting for a decision
  about the host key), `auth`, `keyboard` (waiting for answers), `setup`, `settled` (has a
  connection, not yet pooled), `sending`, `sent` and `gone`. `outcome[n]` is its result:
  `ok`, `auth` for `AuthFailed`, or `failed` for every failure that has an event of its own.
* `pending` and `decision` are the two prompt registries and the one-shot channels of their
  entries. An attempt has one prompt at a time, so its number identifies the prompt.
* `deadline` and `watcher` are the shared deadline and the task that reaps a stalled attempt.
* `reaper` is the task of `mark_connected`; its idle check and the removal are two steps.
* `dispatching` separates the two parts of a connect command, the rejection of old prompts
  and `get_or_connect`; attempts move in between. `session`, `on` and `heard` are the session
  task of each tab: waiting for the broadcast, opening its channel, browsing or ended.

`JoinAttempt`, `ReuseConnection` and `StartAttempt` are the three results of `get_or_connect`.
A receiver taken by `resubscribe()` after the result was sent is `"late"`: it sees only that
the channel is closed. `TellOwner` is the one `AuthFailed` event, sent to the tab that started
the attempt; the user interface drops it, and a prompt, if that session is no longer the
tab's current one.

Abstractions: time is a choice (a deadline may pass whenever the attempt lives, because the
budget counts a fixed number of keyboard rounds and the loop does not). The old session task
of a reconnecting tab is taken to stop at once; in the code it stops at its next poll, and
until then only holds its connection a little longer. A transfer that holds a connection
keeps the reaper from removing it, a step the model does not force anyway. An attempt
is taken not to panic while it only waits for the user. After an attempt has ended its
watcher and deadline are forgotten: `is_current_attempt` makes what is left of them a no-op.

### `ConnectionPoolProofs`

The theorems about `ConnectionPool`, below.

### `TransferRows` and `PlanLifecycle`

One plan from the click to the rows of the transfer list: planner, handoff task and planning
guard, manager, job tasks, event channel, store and user, composed.

* `pc`, `emitted`, `published`, `guard` and `token` are the planner and the handoff task: how
  many files were found, how many have been sent in a `PlanProgress`, whether
  `planning_cancellations` still holds the root's token, whether the token is cancelled.
* `requests` is the manager's request channel and `recorded`, `rootKnown`, `routes`, `job`, `stop`
  are the manager with the choices that the rows can tell apart; its scheduling, counters and
  sessions are in `TransferManager`.
* `events` is the bounded event channel: a sender waits for room, so that a slow user interface
  holds the senders up. `ApplyEvent` is the reducer (`TransferStore::apply_event`) on `plan`,
  `kids`, `rows` and `conflicts`.
* The user acts on what the list shows: `Visible` rows, their cancel and retry controls, conflict
  dialogs, "clear finished". A command reaches the runtime in the step that issues it; the store
  may lag behind by the events under way, which covers a command that travels.
* `out`, `failures`, `asks`, `cancelled`, `cleared` and `dropped` only observe, the bound aside.

`PlanLifecycle` is the promise of the list, without channels and tasks: a plan is shown as completed
only when every published file arrived or was left out, as cancelled only when the user asked for
a cancel, as failed only when preparing failed or some file did and every file had its turn;
a finished plan stays what it is until it is removed; only a failed file starts again.
`ImplementsLifecycle` is the refinement, `member <- 1 .. published`, `work <-` what became of
each job, `asked <- cancelled`, and the store's `plan` as it is.

### `RemoteEdit`

Editing a remote file in a local editor: the state machine of `core/remote_edit.rs`, driven by the
workspace, by the results of checks and transfers, by the file watcher and by the tab's connection.

* `sess[id]` is an `EditSession` with its phase; `local[id]` the temporary copy; `watch` the events of
  the file watcher under way; `checks` and `transfers` the checks and transfers under way, each with
  the epoch it belongs to. `tabs` holds connection state, epoch and connection key of each tab, `up`
  being the session actor that a tab may not know to be gone; `modal` the confirmation of large files.
* A *stamp* stands for what the code compares of a file, its size and its modification time. A copy
  has the stamp of its original; every save and every change by others makes a new one. `srv` keeps
  the history of the stamps of a remote file.
* A check goes to the runtime, to the mailbox of the session actor, to the server and back; it may be
  undeliverable, die with its mailbox, or come back in another epoch. `base` is the `local_baseline` the watcher compares
  with. `known`, `seen` and `owner` only observe: which stamps the session has seen, whether
  an upload was authorised, on which server the file was opened. A copy is *edited* (`Edited`) as long as its stamp was never
  on a server, whatever baseline the session has taken meanwhile.

### `FileCommit`

How a transferred file reaches its destination, and what is left behind when that is interrupted:
temporary file, report of it to the application, copy, probe for hard links, removal of the old
file, hard link, removal of the temporary file; the record `residual_temp.json`, the clean-up of
local leftovers at launch and of remote ones when a tab connects. An upload and a download are the
same sequence with the differences the code has: after a failed verification or removal a
download cleans up and an upload leaves its temporary file to the record. Symbolic
links and directories are not files of this kind and are left out. With `Overlap = FALSE` no tab
connects while an upload is under way; the run `commit_overlap` is about what happens otherwise.

* `records` is the file on disk, `mem` what the store has of it in memory, which is what the clean-up on a
  connection looks at. `ApplyRecord` is `modify`: lock, reload, apply, save. `RecordFails` is each of its error
  exits: the coordinator warns and goes on, the event is gone, and `mem` has the event applied or not, depending on
  whether the save or something before it failed. After a launch that could not read the file (`LaunchUnreadable`,
  `blocked`) every event ends there.
* `CleanRemote` and `ReportCleaned` are the two sides of the `await` in the session actor; `removed` is what lies
  between. `Cleanup` removes the file, cannot reach it, or is refused.
* `escaped` observes the leftovers whose registration was lost: to a crash before it was saved, to a failing
  `modify`, or to the report of a clean-up that crossed a new attempt with the same path.

### `ProfileStore`

`profiles.json` and the secrets in the Keychain, changed by several instances of the application. An
instance works on the snapshot it loaded (`mem`). A save stores the secret outside of any lock
(`StoreSecret`), takes the advisory lock and reloads (`OpenTransaction`; `RefuseChange` for a
conflict, an overflowing revision, a jump host in use or a file that would not load), writes and
syncs the temporary file (`Stage`), renames it (`Rename`), syncs the directory (`SyncParent`) and
removes the secret the profile no longer uses (`CleanOrphan`). What fails before the rename is
rolled back (`UndoSecret`); a failed sync after it counts as committed (`SyncParentFails`). Every
Keychain call and every file operation may fail, an instance may crash at any step, and a power loss
may undo renames that were not synced: `recoverable` is the set of contents it may leave.
`meant` is not in the file: it is the secret the user last saved with the profile. `excused`
collects the profiles the code makes no promise about.

### `RemoteBrowse` and `PaneNavHistory`

The server pane of one tab, from the click to the listing: window, command channel, runtime, the actors of
the tab's sessions, event channel.

* `tab` is the tab's connection and epoch and its `RemotePaneState`: path, entries, `refreshing`, error, and
  the path to restore after a lost connection. `history` is its back and forward list, whose operations
  are in `PaneNavHistory`; `dialog` the rename banner and the delete confirmation.
* `commands` and `events` are the two channels; `session` is the runtime's handle of the tab, and
  `actor[e]` the session actor of epoch `e`: opening, live, cancelled or over, with its mailbox and the
  request it is in. A tab that connects again has two actors for a while.
* The files of a directory are a version number. A listing is put together on the server (`ServerLists`)
  and passed on later (`FinishRead`), so that it may be outdated when it arrives.
* `mine` observes which version the operations of a session made, also one that failed part-way; `torn` the
  directories of a session where such a failure was the last word, nothing having been listed since.

A listing or a link check that cannot be forwarded is answered, or not, as in the code: `RunRead`
reports a full mailbox, a read without a session is dropped. `DropStale` is
`accepts_remote_event`. A file operation lists its directory again before the actor takes the next request. Sending
to the window is taken not to block: the window drains its channel whatever the actor does.

### `LocalPane`

The local pane: reads, file operations and link checks run on background threads, each in two steps (what the thread
does, what the window does with the result), in any order. `read_epoch` is `pane.epoch`. `mine` is
as above. `strayed` observes the two cases in which the code does not bring the pane up to date by itself: a read of
another directory has taken the pane's epoch, or an operation in the pane's path failed after it had changed
something. A read of the pane's own path ends both.

`MCPanes` puts the two panes of a tab side by side, the server pane as the instance `B`. They share nothing but names and the
step of one leaves the other alone; the runs `browse` and `local` each let the user act in one of them and
keep the other at rest, with no moves, no connects and no changes.

### `Pipeline`, `PipelinedReader`, `PipelinedWriter`

The two loops that move the content of a file with a window of requests in flight. A byte is its offset in
the source, and the destination a function from offsets to bytes, so that a misplaced, repeated or missing byte is visible.

* Reader: `next`, `retry`, `inflight`, `eof`, `current` are the variables of `download_to`; `cursor`
  is where the destination really is, which the code tracks to save seeks. `SpawnRetry`, `SpawnNext` and `Spawned`
  are `spawn_read_requests`, which runs before and after each answer is taken (`fill`, `refill`);
  `Join` handles short and empty answers, `WriteChunk` writes. An answer has any length the protocol allows.
* Writer: the disk delivers a buffer in pieces; a buffer that is full, or that the end of the file cuts short, is
  sent; the server performs the writes in any order and may refuse one.
* Sizes are announced or not (`known`), the file on either side may have another size by then. Lengths
  are cast to `Word` as the code casts them to `u32`.
* `fault` observes whether anything happened that a transfer may fail for.

`MCPipeline` runs both under one specification: a transfer has one direction.

### Types

Each module has a `TypeOK`, which documents the shape of its state. It is a part of each inductive invariant, and so proved; no run spends time on it, since the checked properties would
fail on a state of another shape.

## Runs

| Run | Instance | Checks |
|---|---|---|
| `retries` | download plan of three jobs, two slots, one connection, two retries, one cancel | the manager's invariants, cancelled jobs do not start, one outcome for each attempt |
| `live` | upload plan of two jobs that ask, two connections of two channels each, two browsing sessions, fair scheduling | prompts and answers, queued jobs leave the queue, cancelled jobs end |
| `pool` | two tabs with one connect each, two attempts, panics, fair scheduling | the pool's invariants, waiting ends, lost entries go |
| `edit` | two tabs (one also connects without a profile), one file, two sessions, three stamps, two connects, two checks | uploads are authorised, edits are not lost, checks end |
| `rows` | one plan of up to two files, channel of two events, two cancels or retries | rows, conflicts, planning cancels, refinement of `PlanLifecycle` |
| `rows_live` | the same with one cancel or retry, fair scheduling | plans end, no row stays in Cancelling |
| `commit` | an uploaded and a downloaded file, two attempts, three faults (a failing save or an unreadable record is one) | the destination, the old file and the leftovers |
| `commit_overlap` | the same, and a tab that connects meanwhile | *violated*: the temporary file of a running job is not removed |
| `storage` | two instances, two ids, three requests, one fault | the file, the revisions, the secrets |
| `browse` | one tab, two connects, two servers, two directories, three moves, mailbox of one | the pane shows its place, loading ends, own changes show |
| `local` | two directories, background reads, links and operations, four acts of a user who may leave | the pane settles |
| `transfer` | files up to seven bytes in chunks of three, window of two, either direction | success is complete, failure has a reason, transfers end |

The properties of the manager, each with the mistake it is there for:

* `CountersAgree`: a path that forgets one of the counters a removal has to update. The limits
  on running jobs are checked against these counters, and hold of the jobs only if they are exact.
* `OwnedOnce`: the same job queued while it runs, or a stale cancel that would swallow it.
* `RootRunsAlone`, `ClearsOnlyUntouchedTree`: a folder job deleting what its children wrote.
* `IdlePlanKeepsNothing`: policies, sessions or roots that outlive the plan.
* `WaitersMatchPrompts`: prompts nobody can answer, answers nobody waits for.
* `CancelledJobNeverStarts`, `OneOutcomePerAttempt`: cancels that lose, or win, a race.
* `QueuedJobLeaves`: a slot or a channel that a job gives back without a look at the queue. It is about jobs that are
  queued when the manager looks or while a job runs. Exempted by name (`Crowded`) is a round that finds no
  job running and browsing sessions on all channels of the connection: their end wakes nobody (see below).
* `CancelledJobEnds`: a job that sleeps on a prompt and does not see its token.

Of the pool:

* `SingleFlight`: an old guard or watcher that removes the newer entry, so that two
  attempts run and their waiters part. `NewestInPool`, which is proved, is the same about a
  superseded attempt that succeeds late.
* `EntryIsTended`: a Connecting entry whose task is gone; every later tab would join it.
* `PromptsAwaited`: a registered prompt nobody waits for, or a wait nobody can end.
* `TabStopsWaiting`, `LostConnectionLeaves`: the timeouts, the watcher and the reaper really do
  their work.

Of the transfer list:

* `RowsTellTheOutcome`: a plan cancel, a late report or a repeated event that rewrites the row
  of an attempt that is over.
* `ConflictsAreLive`: a dialog for a job that is gone.
* `PlanningCancelWins`: a cancel that falls between the handoff and the release of the guard.
* `ImplementsLifecycle`: a plan that reads completed while a file is missing, or changes after its end.
* `PlanEnds`, `CancellingSettles`: a plan or a row that waits for an event nobody sends.

Of remote edits:

* `UploadAuthorised`: a stale or mismatched check that authorises the upload of another session
  or of an older save; the upload would replace a version nobody has looked at.
* `EditsNotLost`: an upload's end, a re-opened file or a reconnect that drops a newer save or takes its modified
  mark away. A save counts as long as it was never on a server, also after the end of an upload has made it the
  baseline. For the mark there is one exception, in which the code does clear it (see below): the end of the upload of an earlier
  save. The copy is kept there too.
* `CheckEnds`: an answer that is dropped for its epoch and leaves the session in Checking.

Of the file commit:

* `DestinationWhole`: a reader that sees half a file.
* `OldKeptUntilReplaceable`: the old file removed before the new one is complete and linkable.
* `LeftoversOnRecord`, `LeftoversReclaimed`: a temporary file that nothing will ever remove. Both name what they do
  not cover, the registrations in `escaped`, and the latter a record that could not be read at the last
  launch (`blocked`); failed clean-ups, lost connections, failed launches and all later crashes are covered.

Of the profile store:

* `FileLoads`: a change checked against an outdated snapshot that makes `profiles.json` unloadable.
* `VersionsToldApart`: two contents of a profile under the same revision, which the pool takes
  for the same connection.
* `SecretsInStep`: a rollback after the point of no return, a forgotten secret, a missing one.
* `CommitsKeepOthers`: a save that undoes what another instance committed, an id used twice.

Of the panes:

* `PaneShowsItsPlace`: a late listing of the previous server, or of a directory the user has left, under
  the present path.
* `LoadingEnds`: a request that is dropped (a full mailbox, an ended actor, another directory's answer)
  and leaves the spinner on.
* `OwnChangesShow`: an operation whose new listing is lost or overtaken by an older one. Exempted is `torn`: the
  code lists nothing after an operation that failed part-way.
* `PaneSettles`: the same of the local pane, where reads finish in any order. Exempted is `strayed`.

Each of these exemptions is needed: without it TLC finds the behaviour that "What else the models show" describes.

Of the content of a transfer:

* `Complete`, `UploadComplete`: a short answer whose rest is lost, a write at the wrong
  place after answers in another order, a success before the last write.
* `TransferFailsForAReason`: a length that wraps around, a final check that miscounts.
* `TransferEnds`: a loop that waits with nothing in flight.

Bounds. For the pool: two attempts are what superseding needs, one that outlives its deadline and a newer
one; two tabs with one connect each are an owner and one that joins, reuses or supersedes. Tabs
that connect again and jump hosts are left to the theorems, which hold for every instance. For the manager: three jobs let one job be the root, one run beside another, and one wait. Two slots
for three jobs make the limit bite. Two retries let the root be retried after a child
and a child after the root. One cancel meets every state a job can be in; the cancel
of the plan comes on top. The record of
cancellations is larger than the number of cancels: the code holds 1024, and eviction is a
loss the code accepts. In `live` the browsing sessions are as many as the channels, so that they can take all of them. For the rows: two files are the manager's root and another job; a batch of two is
published together or at the end; a channel of two makes every sender wait at times; two requests of
the user are a cancel of a row and one of the plan, or a retry and a cancel. For edits: three stamps are the original, one
save and one change by others or a second save; two connects are a reconnect during a check
or the connection of the other tab; `MaxWork` cuts off the longest combinations of all of these. For
the commit: two attempts are a failure and its retry, three faults a failed copy with a lost
connection and a crash, or a failed save between two of these. For profiles: two ids are a jump host and the profile reached through it;
three requests a creation and two that race; one fault each behaviour. For the panes: two connects are a session and its successor whose actors overlap;
three moves are a connect, a change of directory or an operation, and one more (a Forward, which
takes back a Back, is not counted); a mailbox of one is full with one request; a history of one drops its oldest
place; others change one directory of one server. For
the content: with chunks of three and a word of four, a file of seven bytes has a rest that does not
fit a word; a window of two is full, partly filled and empty. `CHECK_DEADLOCK FALSE` is
set everywhere: the manager really stops (`Stop`), tabs, jobs and instances may be at rest, and
the surroundings are bounded.

Fairness. `WF(StartQueued)` and `WF(JobStep(j))`: the runtime polls a ready task.
`SF(HandleCompleted(j))`: `tokio::select!` chooses at random among its ready branches, so a
completion that is offered again and again is taken even under a stream of requests. No
request, and nothing of the connection, is assumed to happen; an answer of the user is not
a step of the job. `QueuedJobLeaves` is therefore stated for behaviours in which prompts are
answered again and again, and nothing is assumed of browsing sessions. For the pool: `WF(AttemptStep(n))`, since every phase of an attempt
has a timeout; weak fairness of the session tasks, the reaper, the watcher and the dispatcher.
Opening a tab's channel has no timeout of its own, but the keepalive of the connection
ends it. A server may send rounds of keyboard prompts for ever, and a user may answer
them; `TabStopsWaiting` is stated for behaviours in which this stops. For the rows: the
application drains the event channel (`WF(ApplyEvent)`), and strong fairness of planner, manager
and jobs, because a sender that waits for room in a full channel is served in turn although
others fill it again. `PlanEnds` is stated for behaviours in which conflicts are answered. For edits: checks are
answered or die with their session, the application handles a disconnection and runs the hook of
a closed window; saving, uploading and deciding are left to the user. For the commit: jobs and clean-ups
go on, events are handled, whether their save succeeds or fails (`WF(ApplyRecord \/ RecordFails)`), and, as an assumption about the surroundings, the application is started again and some tab
connects again to a server that has leftovers. For the panes: the runtime's dispatch loop, the actors' tasks
and the window's event drain run; a server answers, or the request times out and
fails. Nothing of the user is assumed. For the content: the transfer's task runs, and requests are
answered or time out.

### What the violated property shows

`commit_overlap`: on every `TabConnected` the clean-up of remote leftovers asks for the removal of
every recorded temporary file of that server, and the file of an upload that runs in another
tab is on record too. The upload then fails at its commit; with overwrite, after
the old destination was removed.

### What else the models show of the code

Behaviours that the models contain as the code has them and that a reader of the code may not expect.
They are outside of the properties above, or exempted there by name.

* *Manager.* A finished job gives its channel back to `active_channels` while its idle session stays open:
  the jobs of another plan may take a connection past its channel limit, against
  `transfer_manager.rs:22`. Idle sessions are kept by plan and direction, so that a job retried after
  a reconnect gets one of the lost connection and fails again. The cancel control of the row of a plan's first job
  cancels the plan. A cancel of the plan's own row that is sent after the guard was released is recorded under
  an id no enqueue will bring; while rows of files are shown, the list does not show the plan's row. The end of
  a browsing session gives its channel back (`session_actor.rs:221`) and wakes nobody: if tabs use all channels of a
  connection and no job runs, a queued job waits for the next request or completion of any transfer, however many tabs
  are closed meanwhile (`transfer_manager.rs:161`).
* *Pool.* `AuthFailed` is told to the tab that started the attempt and to no other that joined it
  (`runtime.rs:1484` says "each waiter"); a tab that joins between the sending of a failure and the
  removal of the entry hears nothing. An attempt that outlives its tab may register a prompt in its name
  (`trust.rs:100`); it is dropped by the user interface and times out.
* *Transfer list.* A download whose planning request dies with its session stays in "Preparing"
  (`dropped` in `PlanEnds`); rows cleared while a plan runs are forgotten by it (`cleared`). A failed plan
  stays failed when the retry of its file succeeds. "Apply to all" leaves the other dialogs up
  until their jobs move on. A retry that arrives before the completion of the failed attempt is dropped.
* *Edits.* When an upload ends, `on_transfer_finished` clears the modified mark and takes the copy as it is by then
  for the baseline (`core/remote_edit.rs:540`). A save made after the job had read the copy loses its mark that way; it stays in the
  copy, is uploaded with the next save or request, and then meets a conflict, the baseline being a version the server never had. The events of the
  watcher are ignored in other phases than editing, so that a save made while a check or a conflict is pending may never be
  marked. A manual connection has a key of its own for each connect, so that an edit begun before a manual
  reconnect cannot be uploaded without a conflict decision. A failed or cancelled plan leaves the session in
  Downloading or UploadingBack. Confirming a large file twice opens two sessions. A retried upload
  runs without a new check. `resolve_conflict` with `Overwrite` does not compare connection keys as
  `request_upload` does: a tab that was connected to another server while the conflict was pending
  uploads there (`UploadToOwnServer` does not hold). A download that ends after its tab was closed creates the directory again.
* *File commit.* If verification or the removal of the old file fails, an upload leaves its temporary file
  behind where a download removes it; probe files are on no record; manual connections never
  clean up; a connection lost between the removal of the old file and the link leaves no destination. If the record cannot
  be locked, read or saved (`residual_temp.rs:218`), a registration is dropped with a warning (`event_coordinator.rs:157`)
  and its file, should it be left behind, is known to nobody; a failed save leaves memory and file apart until the next
  event. A record that is unreadable at launch stops all registrations until the next launch. Transfer ids
  start again at each launch, so that the report of a clean-up may take away the registration that a new attempt has
  made for the same path in the meantime.
* *Profiles.* With two instances the rollback of a creation that conflicts may delete the secret of the other
  instance's profile, and a change based on an outdated snapshot may leave a secret behind or a reference
  without one, against `profiles.rs:13`. After `ConcurrentModification` the snapshot is not reloaded.
* *Server pane.* A rename or a new folder that is begun on one server and confirmed after the tab was connected to
  another is carried out on the latter: the banner keeps no epoch (`file_ops.rs:308`), against the
  scope described at `core.rs:238` (`OperationsStayOnTheirServer` does not hold with two servers). `go_back`
  and `go_forward` are called inside `debug_assert_eq!` (`panes.rs:1203`, `panes.rs:1216`):
  with `DebugBuild = FALSE`, as in a release build, Back leaves the history as it was, Forward has nothing to
  go to, and `TrailIsKept` does not hold, although `README.md:49` of the repository lists the feature. `AuthFailed` leaves
  the entries and the spinner of the previous session as they were. Navigating in a disconnected tab
  sets path and spinner, and nobody answers. The path to restore is that of the lost connection even if the next
  one goes to another server. A link check that was under way when the session broke moves the pane only if it still shows
  the link's directory, and is otherwise lost. A change made by the previous session's actor after the tab
  reconnected shows with the next listing only. A delete of several entries that fails after the first ones is only
  reported (`session_actor.rs:351`): the pane keeps showing the entries that are gone until something is listed (`torn`).
* *Local pane.* An operation that ends after the user has gone elsewhere reads its own directory and thereby takes
  the epoch of the read of the new one (`file_ops.rs:398`, `core.rs:1753`, `panes.rs:839`): the result of the
  latter is then not accepted, and the pane stays empty or stale without an error until its path is read again. A
  delete that fails part-way is only reported here too (`file_ops.rs:404`). `strayed` is both.
* *Content.* If a file whose length was not announced grows while an empty answer is under way, later answers are
  still written and the hole stays (`pipelined_reader.rs:373`, against the comment at line 386;
  `NoHoles` does not hold with `MayChange = TRUE`).

## Proofs

`TransferManagerProofs` proves, for every finite set of plans and ids and every value of the
limits and bounds (`IdAssumption`, `BoundAssumption`):

* `Invariance`: `Spec => []IInv`, and from it
* `TypeCorrect`, `CountersAlwaysAgree`, `JobOwnedOnce`, `RootAlwaysAlone`,
  `ClearIsHarmless`, `PromptsAlwaysMatch` and `IdlePlanAlwaysClean`, one for each of the invariants of the same
  subject;
* `OutcomeIsFinal` (`OneOutcomePerAttempt`) and, if `MaxCancels <= MaxPendingCancels`, `CancelledStaysOut`
  (`CancelledJobNeverStarts`), the two action properties.

The assumptions on the constants are what the code guarantees: ids are distinct and ascending,
the first job of a plan has its smallest id and is not its row, limits are positive.

None of them is inductive alone. `IInv` adds five facts. `SessionHeld`: a task past its
opening holds a session, so that no missing session is filed as idle.
`UntouchedBeforeEnqueue`: nothing of a plan is with the manager before its enqueue, so
that `push_pending` never queues a job twice and the batch is counted once.
`RootIsFirst`: while the root is remembered, it is the first job, and until a child has
started no other job has. `StartedCovers`: what runs has been started, and only a running root
may clear. `OutcomeInStep`: a job that is queued, or that runs and has not ended, has no outcome yet, and one that
has ended has its result, retryable while it has a route, so that every report is the first of its attempt.

`CountersAgree` needs `OwnedOnce` (a started job was not running, a retried job not
queued) and `OwnedOnce` needs `UntouchedBeforeEnqueue`. `RootRunsAlone` for a plan whose root was
forgotten by a plan cancel rests on `running_per_plan` being exact: the code then starts a job only if
nothing of the plan runs. `ClearsOnlyUntouchedTree` follows from
`RootIsFirst` when the permission is given, and from `RootRunsAlone` afterwards: while the
permission is held no other job of the plan can start. `CancelledStaysOut` has an invariant of its own,
`CancelInv`: a job whose cancel was handled is not queued, and as long as it has not arrived its cancel is on
record (`AskedIsKept`); there are no more records than cancels (`RecordsFit`), which is why the theorem assumes
that the record holds them all. The code evicts the oldest of 1024 otherwise, and the property then fails.

The proof has one lemma for each part of `IInv`, and lemmas such as `QueueCases`,
`RunCases`, `ChannelCases` and `RootCases` that reduce the twenty-odd actions to the few ways in which they change
one map. TLC checked `IInv` as an invariant of small instances first, here and in the modules below.

`ConnectionPoolProofs` proves, for any set of tabs, any number of attempts and reconnects, one
or two hops, with panics or without (`PoolAssumption`):

* `PoolInvariance`: `Spec => []IInv`, and from it
* `PoolTypeCorrect`, `PoolKeepsNewest`, `PoolSingleFlight`, `PoolEntryTended`, `PoolPromptsAwaited`.

Here `IInv` adds only `AttemptsInOrder`. Exactly the attempts up to `last` have started, so that
a new attempt is not one that is under way. A decision is left only where a prompt is awaited,
so that a new prompt does not find an old answer. `SingleFlight` is kept by `StartAttempt`
because an attempt that is under way in time would be the entry, and then the command joins it;
it is kept by every removal because a removal concerns the remover's own entry. There is one
lemma for each part of `IInv`, with one step for each action that changes its variables.

`ProfileStoreProofs` proves, for any instances, ids and secrets and every bound (`StoreAssumption`):
`StoreInvariance`, and from it `FileAlwaysLoads` (`FileLoads`), `RevisionsIdentify` (`VersionsToldApart`) and
`CommitsNeverUndo` (`CommitsKeepOthers`). The strengthening says who may write: `LockHeld` (at most one instance is
between reload and release), `WritesWhatItRead` (what it will write is the file it reloaded with its own change),
`IdsHandedOut` (ids in files, snapshots and staged contents were handed out before), `SnapshotsAreOld` and
`SnapshotsAgree` (a snapshot never has a newer revision than the file, and the same content at the same one). A
power loss is covered because every recoverable content satisfies the same facts. `SecretsAlwaysInStep` (`SecretsInStep`)
needs another invariant, `KeyInv`: at most one request is under way for a profile the code makes a promise about
(`OneRequestEach`; a second one excuses it), what a request says of the profile's former secret is what its
snapshot says (`RequestFits`), and at each of its steps the Keychain is as the steps before left it (`KeychainFits`):
untouched before `StoreSecret`, the new secret beside the old profile until the rename, the old secret beside
the new profile until `CleanOrphan`, or its undoing.

`FileCommitProofs` proves, for any set of jobs (`CommitAssumption`): `CommitInvariance`, `CommitTypeCorrect`,
`DestinationAlwaysWhole` and `LeftoversAlwaysOnRecord`; `CleanUpSparesDownloads` (a running download keeps its
temporary file) and `DownloadsKeepOld` (its old destination goes only when the new one is complete and linkable), both also
when tabs connect during transfers; and for `Overlap = FALSE` `OldIsKept` (`OldKeptUntilReplaceable`, of uploads too).
The strengthening: `ProbeMeansLinks` (after the probe links work), `WholeAfterCopy` (past the copy the temporary file is not
partial), `QuietWhenDown` (the clean-up at launch meets no running job), `DownloadsUndisturbed` (a running download's file is
there) and `UploadsUndisturbed` (the same of uploads if no tab connects meanwhile, because no request to remove a
file is then in a mailbox or half done; the run `commit_overlap` shows that the hypothesis is needed).
`LeftoversOnRecord` is inductive because each step that takes an event or a record away either has removed the file,
is followed by a later event about it, or puts it into `escaped`.

`PaneProofs` proves of the local pane, for any directories and bounds (`LocalAssumption`): `LocalInvariance`, `LocalTypeCorrect`,
`LocalListingsNeverRegress` and `PaneAlwaysSettles` (`PaneSettles`, for a user who goes where he likes). The strengthening:
`EpochsUnique` and `NothingFromTheFuture` (at most one read has the pane's epoch, and nothing read is newer than the disk), `NewestReadIsNewer` (its listing is no older than
what the pane shows), and, unless the pane has strayed, `OnItsPath` (the newest read is of the pane's path and has the user's
changes, or an operation is still to ask for one that will have them).

Of the server pane (the instance `B` of `RemoteBrowse`, under `BrowseAssumption`) it proves
`RemoteInvariance` and, with the local pane beside it (`PanesSpec`), `PaneAlwaysInItsPlace` (`PaneShowsItsPlace`). The invariant `PlaceInv` says that commands, events and
actors are *timely*: none is of an epoch that is still to come, and what is of the tab's present epoch is of the tab's present
server. A reconnect makes everything that is under way one epoch older, and so harmless without a look at it; an
answer that passes `accepts_remote_event` is of the present epoch, hence of the present server, and the comparison of paths does the rest.

`PipelineProofs` proves, for every chunk size, window, word and size of the file (`PipelineAssumption`), of the reader
`DownloadInvariance`, `DownloadTypeCorrect`, `DownloadComplete` (`Complete`) and `DownloadFailsForAReason`; of the writer
(the instance `U`) `UploadInvariance` and `UploadTypeCorrect`; and of the specification of both,
which the run checks, `TransferInvariance`, `TransferUploadComplete` (`UploadComplete`) and `TransferReasons`
(`TransferFailsForAReason`). What is about the reader assumes `~MayChange`, that a file of unknown length keeps its length
during the download; without it the property is false (see above).

The strengthening partitions the offsets: each one below `next` is written, in a request, in a retry or in the answer
being written (`NothingLost`), what is written is at its place (`Placed`), the believed cursor is the cursor
(`CursorAgrees`), requests lie in the file (`RequestsGood`), an empty answer means the end (`EofIsTheEnd`), and
a loop that has ended has nothing in flight (`Ended`). The writer has `SourceInStep` instead: the source's
cursor is the offset of the buffer and its length. That a transfer fails only for a reason is a matter of counting: requests, retries and the
answer being written never overlap (`FlightApart`, `RetryApart`, `BothApart`, `PartApart`) and are not written yet
(`Unwritten`), so that `bytes_done` is the number of bytes written (`Counted`), and a final check that fails
means a file shorter than announced (`Reasons`).

`RemoteEditProofs` proves, for any finite set of tabs, any servers, files and links and any number of sessions, saves, checks and
reconnects (`EditAssumption`): `InvariantHolds`, `TypeCorrect`, `AlwaysAuthorised` (`UploadAuthorised`) and the action property
`EditsAreKept` (`EditsNotLost`, with its exception for the mark). Tabs are finitely many, so that the bound on their connects can be counted. The difficulty
is a save between an upload and its completion: `on_upload_complete` takes the copy's present stamp as the snapshot,
a version the session neither opened nor uploaded. The invariant shows that it authorises nothing: such a
stamp is *private* (`Private`), it is in this session's copy and was never on a server, while what a check
answers has been on one (`AnswersSeen`). So `SnapshotKnown` and `UploadedKnown` say "known or private", and an answer
that equals the snapshot is of a known version. The rest is order: the clock is the newest stamp (`StampsOld`), a
session that is gone leaves nothing (`NothingOfTheGone`), a download belongs to its phase (`TransfersFit`).

`TransferRowsProofs` proves, for every number of files, batch size, number of requests and every event channel with
room for an event of each file (`RowsAssumption`; the model sends the events of one handler in one step):

* `TypeCorrect`, `HandoffInvariance`, and from it `PlanningCancelAlwaysWins` (`PlanningCancelWins`). `HandoffInv`: the
  guard holds the token until the jobs were sent (`GuardInPlace`), they are sent once (`HandedOverOnce`), and a cancel that
  the token took is behind them in the request channel as long as a job waits for its first attempt (`CancelFollows`).
* `ConflictsAlwaysLive` (`ConflictsAreLive`), from `DialogsEnd`: behind the question of a job that is over, the end of its attempt is in the
  event channel.
* `RowsInvariance`, and from it `RowsAlwaysTell` (`RowsTellTheOutcome`). `RowsInv`: the events of planning come first in the
  channel (`PlanningComesFirst`), the store knows the published files or will hear of them (`FilesAreAnnounced`), neither row
  nor plan has heard of a job that waits to be tried (`WaitingIsPristine`), and the outcome of one that
  was tried is in its row, on its way there, or with a plan cancel that will be the first the store hears of it
  (`OutcomesAreTold`).
* `LifecycleInvariance`, and from it `ListKeepsItsPromise`, the refinement `Spec => ImplementsLifecycle`. `LifecycleInv`: every
  trace of a cancel goes back to the user (`CancelsWereAsked`); a report or a row of success is the last word on its job (`LastWord`,
  `RowsAreTrue`); reported failures happened (`FailuresAreKnown`); nothing can happen any more to the rows of a completed
  plan (`CompletedIsSettled`); the store hears that planning failed, or that the plan is ready, before it
  hears of jobs (`PlanFailsFirst`, `ReadyComesFirst`). The simulation goes step by step: a publication is `Publish`, an attempt's
  start, end and retry are those of one file, a handled plan cancel ends several at once, `ApplyEvent` is the change of the
  plan's state that the reducer makes, if any, and everything else stutters.

With this every safety invariant, action property and refinement that a passing run checks is also a theorem. Only
model-checked are the liveness properties `QueuedJobLeaves`, `CancelledJobEnds`, `TabStopsWaiting`, `LostConnectionLeaves`, `CheckEnds`,
`PlanEnds`, `CancellingSettles`, `LeftoversReclaimed`, `LoadingEnds`, `OwnChangesShow` and `TransferEnds`: liveness needs fairness and
`ENABLED`, which the prover does not handle. The assumptions of single theorems (`~MayChange`, `~Overlap`, `MaxCancels <=
MaxPendingCancels`) each exclude a behaviour of the code that is described above and that breaks the property.

## Plan

1. Done: `TransferManager`, `ConnectionPool`, `TransferRows` with its refinement of `PlanLifecycle`, `RemoteEdit`, `FileCommit`,
   `ProfileStore`, `LocalPane`, `RemoteBrowse`, `PipelinedReader` and `PipelinedWriter`, with theorems for all their
   safety properties.
2. Theorems left: what `TransferRows` keeps of a channel with less room than files, which needs the events of one
   handler sent one by one; facts behind the liveness properties that are not temporal (for instance that a spinner has a request
   behind it, or a waiting tab a live attempt).
3. Worth a module: the session file and the window coordinator that writes it; the append to `known_hosts`;
   the planner's walk of a directory tree; the shutdown of the process.

## Not modelled

* Rendering and input, selection, sorting and filters; the platform and menu crates; the SSH transport and the
  vendored crates.
* Directories and symbolic links in `FileCommit`; how a planner walks a tree; several plans in one store
  (the reducer treats plans separately); byte counts, speeds and warnings of rows.
* The Compare view of a conflict and the adoption of baselines from a listing in `RemoteEdit`.
* Which panes a finished plan reloads (`reload_panes_for_finished_plan`): in `RemoteBrowse` and `LocalPane` a
  reload may come at any time.
* Recents, configuration and session files: they use the same lock, reload and replacement as the profiles
  (the session file has no lock), without secrets. The `known_hosts` file.
* In `TransferManager` physical connections are what their users observe: they are up, then lost, then
  replaced; how they come about is in `ConnectionPool`. The shutdown of the process, which rejects every
  prompt and aborts every task, is not modelled beyond the manager's `Stop`.

The share of the repository's lines that the models stand for is small although its concurrent core is modelled: a
third of the lines is vendored code, another large part are the tests inside the source files, and
most of the rest draws the user interface.
