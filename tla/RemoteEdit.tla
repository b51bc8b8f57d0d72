----------------------------- MODULE RemoteEdit -----------------------------
(* Remote edit sessions: the life cycle of core/remote_edit.rs and its store    *)
(* in core.rs, driven by the workspace (open, upload, resolve, close), by the   *)
(* event coordinator (check results, finished transfers, watcher events) and    *)
(* by the tab's connection.                                                     *)
(*                                                                              *)
(* A stamp stands for what the code compares of a file, its size and its        *)
(* modification time in whole seconds. Transfers preserve the modification      *)
(* time, so a copy has the stamp of its original, and every save or change by   *)
(* somebody else makes a new one. Each tab has a window of its own.             *)
EXTENDS Naturals, Sequences, FiniteSets

CONSTANTS
    Tabs,         \* tabs
    ManualTabs,   \* tabs whose user also connects without a saved profile
    Servers,      \* servers a tab may connect to
    Paths,        \* remote paths as the listing shows them
    Targets,      \* Targets[p]: what opening p may resolve to, {p} for a plain file
    NoTab,        \* the tab of the key of a saved profile
    MaxSess,      \* bound: edit sessions ever registered
    MaxStamp,     \* bound: saves and remote changes
    MaxEpoch,     \* bound: connects of all tabs together
    MaxWork,      \* bound: sessions, checks, new stamps and connects together
    MaxFailed,    \* bound: failed transfers that may be retried, at a time
    MaxCheck      \* bound: checks of the remote file

ASSUME EditAssumption ==
    /\ NoTab \notin Tabs
    /\ ManualTabs \subseteq Tabs
    /\ Targets \in [Paths -> SUBSET Paths]
    /\ Tabs # {} /\ Servers # {} /\ Paths # {}
    /\ MaxSess \in Nat
    /\ MaxStamp \in Nat \ {0}
    /\ MaxEpoch \in Nat
    /\ MaxCheck \in Nat
    /\ MaxFailed \in Nat
    /\ MaxWork \in Nat
    /\ IsFiniteSet(Tabs)

VARIABLES
    tabs,      \* tabs[t]: the tab and its session actor
    modal,     \* modal[t]: the edit waiting for the large-file confirmation
    sess,      \* sess[id]: the edit session, phase "none" when there is none
    nextId,    \* number of session ids given out
    nextCheck, \* number of check ids given out
    local,     \* local[id]: stamp of the temporary copy, 0 when there is none
    watch,     \* sessions with an undelivered event of the file watcher
    checks,    \* checks of a remote file under way
    transfers, \* transfers started by edit sessions
    srv,       \* srv[s][p]: the stamps the file has had, the last is current
    clock      \* the newest stamp

appVars == <<tabs, modal>>
editVars == <<sess, nextId, nextCheck>>
envVars == <<local, watch, srv, clock>>
vars == <<appVars, editVars, envVars, checks, transfers>>

Ids == 1 .. MaxSess
Stamps == 0 .. MaxStamp
Keys == [server : Servers, tab : Tabs \union {NoTab}, epoch : 0 .. MaxEpoch]

TabStates ==
    [open : BOOLEAN, conn : {"idle", "connecting", "connected"}, up : BOOLEAN,
     epoch : 0 .. MaxEpoch, key : Keys]

\* EditPhase; "none" is a session that is not in the store.
Phases == {"none", "downloading", "editing", "checking", "uploading", "conflict"}

Sessions ==
    [tab : Tabs, epoch : 0 .. MaxEpoch, key : Keys, name : Paths, path : Paths,
     phase : Phases, snap : Stamps, check : 0 .. MaxCheck, seenLocal : Stamps,
     dirty : BOOLEAN, base : Stamps, known : SUBSET Stamps]

Edits == [name : Paths, path : Paths, listed : Stamps]
NoEdit == <<>>

Checks ==
    [sid : Ids, check : 0 .. MaxCheck, tab : Tabs, epoch : 0 .. MaxEpoch,
     path : Paths, at : {"queued", "asked", "answered", "undeliverable"},
     result : Stamps]

Transfers ==
    [sid : Ids, dir : {"down", "up"}, tab : Tabs, epoch : 0 .. MaxEpoch, path : Paths,
     server : Servers, owner : Servers, forced : BOOLEAN, seen : BOOLEAN,
     at : {"queued", "running", "done", "failed", "refused", "failedRow"}]

TypeOK ==
    /\ tabs \in [Tabs -> TabStates]
    /\ modal \in [Tabs -> Edits \union {NoEdit}]
    /\ sess \in [Ids -> Sessions]
    /\ nextId \in 0 .. MaxSess
    /\ nextCheck \in 0 .. MaxCheck
    /\ local \in [Ids -> Stamps]
    /\ watch \subseteq Ids
    /\ checks \subseteq Checks
    /\ transfers \subseteq Transfers
    /\ srv \in [Servers -> [Paths -> Seq(Stamps)]]
    /\ clock \in Stamps

Files == UNION {Targets[p] : p \in Paths}

NoKey == [server |-> CHOOSE s \in Servers : TRUE, tab |-> NoTab, epoch |-> 0]
NoSession ==
    [tab |-> CHOOSE t \in Tabs : TRUE, epoch |-> 0, key |-> NoKey,
     name |-> CHOOSE p \in Paths : TRUE, path |-> CHOOSE p \in Paths : TRUE,
     phase |-> "none", snap |-> 0, check |-> 0, seenLocal |-> 0, dirty |-> FALSE,
     base |-> 0, known |-> {}]

Init ==
    /\ tabs = [t \in Tabs |-> [open |-> TRUE, conn |-> "idle", up |-> FALSE, epoch |-> 0,
                               key |-> NoKey]]
    /\ modal = [t \in Tabs |-> NoEdit]
    /\ sess = [id \in Ids |-> NoSession]
    /\ nextId = 0
    /\ nextCheck = 0
    /\ local = [id \in Ids |-> 0]
    /\ watch = {}
    /\ checks = {}
    /\ transfers = {}
    /\ srv = [s \in Servers |-> [p \in Paths |-> IF p \in Files THEN <<1>> ELSE <<>>]]
    /\ clock = 1

Current(s, p) == srv[s][p][Len(srv[s][p])]
Connects == UNION {{t} \X (1 .. tabs[t].epoch) : t \in Tabs}
WorkLeft == nextId + nextCheck + clock + Cardinality(Connects) < MaxWork
Live(id) == sess[id].phase # "none"

-----------------------------------------------------------------------------
(* The tab and its connection                                                *)

\* ConnectionKey::new: a saved profile keeps its identity, a manual connection
\* gets the identity of its own, new session.
KeyFor(t, s, saved, e) ==
    IF saved THEN [server |-> s, tab |-> NoTab, epoch |-> 0]
             ELSE [server |-> s, tab |-> t, epoch |-> e]

\* EditSessionStore::update_epoch_for_tab: a check in flight cannot complete.
UpdateEpochForTab(t, e) ==
    [id \in Ids |->
        IF ~(Live(id) /\ sess[id].tab = t) THEN sess[id]
        ELSE IF sess[id].phase # "checking" THEN [sess[id] EXCEPT !.epoch = e]
        ELSE [sess[id] EXCEPT !.epoch = e, !.phase = "editing", !.check = 0, !.seenLocal = 0]]

\* The requests in the mailbox of a session actor are dropped with it.
WithoutMailboxOf(t) == {c \in checks : ~(c.tab = t /\ c.at = "asked")}

\* connect_with: a new epoch and a new key; the edit sessions follow the epoch.
Connect(t, s, saved) ==
    /\ tabs[t].open
    /\ saved \/ t \in ManualTabs
    /\ tabs[t].conn # "connecting"
    /\ Cardinality(Connects) < MaxEpoch /\ WorkLeft
    /\ LET e == tabs[t].epoch + 1
       IN /\ tabs' = [tabs EXCEPT ![t] = [open |-> TRUE, conn |-> "connecting", up |-> FALSE,
                                          epoch |-> e, key |-> KeyFor(t, s, saved, e)]]
          /\ sess' = UpdateEpochForTab(t, e)
    /\ checks' = WithoutMailboxOf(t)
    /\ UNCHANGED <<modal, nextId, nextCheck, envVars, transfers>>

\* TabConnected; or the attempt fails or is cancelled.
ConnectEnds(t) ==
    /\ tabs[t].open
    /\ tabs[t].conn = "connecting"
    /\ \E ok \in BOOLEAN :
          tabs' = [tabs EXCEPT ![t].conn = IF ok THEN "connected" ELSE "idle", ![t].up = ok]
    /\ UNCHANGED <<modal, editVars, envVars, checks, transfers>>

\* The session actor ends: its connection is lost or the user disconnects.
ConnectionLost(t) ==
    /\ tabs[t].up
    /\ tabs' = [tabs EXCEPT ![t].up = FALSE]
    /\ checks' = WithoutMailboxOf(t)
    /\ UNCHANGED <<modal, editVars, envVars, transfers>>

\* The window handles TabDisconnected.
HandleDisconnected(t) ==
    /\ tabs[t].open
    /\ tabs[t].conn = "connected"
    /\ ~tabs[t].up
    /\ tabs' = [tabs EXCEPT ![t].conn = "idle"]
    /\ sess' = UpdateEpochForTab(t, tabs[t].epoch)
    /\ UNCHANGED <<modal, nextId, nextCheck, envVars, checks, transfers>>

-----------------------------------------------------------------------------
(* Registering and removing sessions                                         *)

\* remove_for_tab and reap_tab: the sessions of the tabs in T.
SessionsOf(T) == {id \in Ids : Live(id) /\ sess[id].tab \in T}
Without(ids) == [id \in Ids |-> IF id \in ids THEN NoSession ELSE sess[id]]

\* cleanup_edit_temp_dir of every removed session.
Deleted(ids) == [id \in Ids |-> IF id \in ids THEN 0 ELSE local[id]]

\* Checks and transfers of a removed session go on, but their results find no
\* session: what such an upload still writes is a change by somebody else.
NotOf(ids, S) == {r \in S : r.sid \notin ids}

\* connected_edit_session: the epoch and the key of a connected tab.
IsConnected(t) == tabs[t].open /\ tabs[t].conn = "connected"

Session(t, edit, epoch, key) ==
    [tab |-> t, epoch |-> epoch, key |-> key, name |-> edit.name, path |-> edit.path,
     phase |-> "downloading", snap |-> edit.listed, check |-> 0, seenLocal |-> 0,
     dirty |-> FALSE, base |-> 0, known |-> {edit.listed}]

\* StartTransfer as the edit layer sends it.
Command(id, s, dir, forced, seen) ==
    [sid |-> id, dir |-> dir, tab |-> s.tab, epoch |-> s.epoch, path |-> s.path,
     server |-> tabs[s.tab].key.server, owner |-> s.key.server, forced |-> forced,
     seen |-> seen, at |-> "queued"]

\* start_download after `gone` were removed, and its roll-back (abort_download) when the
\* command does not enter the channel.
StartDownload(gone, t, edit, epoch, key) ==
    /\ nextId < MaxSess /\ WorkLeft
    /\ nextId' = nextId + 1
    /\ LET s == Session(t, edit, epoch, key)
       IN \/ /\ sess' = [Without(gone) EXCEPT ![nextId + 1] = s]
             /\ transfers' = NotOf(gone, transfers) \union
                   {Command(nextId + 1, s, "down", FALSE, TRUE)}
          \/ /\ sess' = Without(gone)
             /\ transfers' = NotOf(gone, transfers)

-----------------------------------------------------------------------------
(* Opening a file                                                            *)

\* find_active_for_remote_path: the newest session opened under this name.
NewestNamed(k, name) ==
    {id \in Ids : /\ Live(id) /\ sess[id].key = k /\ sess[id].name = name
                  /\ \A j \in Ids : Live(j) /\ sess[j].key = k /\ sess[j].name = name => j <= id}

\* begin, the link check: the session of this name that is bound to another file.
Repointed(k, edit) == {id \in NewestNamed(k, edit.name) : sess[id].path # edit.path}

\* find_active in the store without `reaped`: the oldest session on this path.
FindActive(k, path, reaped) ==
    LET on == {id \in Ids : Live(id) /\ id \notin reaped /\ sess[id].key = k /\ sess[id].path = path}
    IN {id \in on : \A j \in on : id <= j}

TabsOf(ids) == {sess[id].tab : id \in ids}

\* begin_edit_resolved and begin: a session of an open tab in the way answers the
\* request with a notice or an editor; those of closed tabs are reaped; then the
\* download starts or the large-file modal opens.
BeginEditResolved(t, edit) ==
    LET k == tabs[t].key
        link == SessionsOf(TabsOf(Repointed(k, edit)))
        active == FindActive(k, edit.path, link)
        reaped == link \union SessionsOf(TabsOf(active))
    IN /\ IsConnected(t)
       /\ \A u \in TabsOf(Repointed(k, edit) \union active) : ~tabs[u].open
       /\ local' = Deleted(reaped)
       /\ checks' = NotOf(reaped, checks)
       /\ watch' = watch \ reaped
       /\ \/ /\ StartDownload(reaped, t, edit, tabs[t].epoch, k)
             /\ UNCHANGED modal
          \/ /\ modal' = [modal EXCEPT ![t] = edit]
             /\ sess' = Without(reaped)
             /\ transfers' = NotOf(reaped, transfers)
             /\ UNCHANGED nextId
       /\ UNCHANGED <<tabs, nextCheck, srv, clock>>

\* The user opens a listed file; the listing may be older than the file.
Open(t) ==
    \E name \in Paths : \E path \in Targets[name] :
        \E i \in 1 .. Len(srv[tabs[t].key.server][path]) :
            BeginEditResolved(t, [name |-> name, path |-> path,
                                  listed |-> srv[tabs[t].key.server][path][i]])

\* confirm_large_edit: the epoch and the key are those of now.
ConfirmLargeEdit(t) ==
    /\ modal[t] # NoEdit
    /\ modal' = [modal EXCEPT ![t] = NoEdit]
    /\ \/ /\ IsConnected(t)
          /\ StartDownload({}, t, modal[t], tabs[t].epoch, tabs[t].key)
       \/ /\ ~IsConnected(t)
          /\ UNCHANGED <<sess, nextId, transfers>>
    /\ UNCHANGED <<tabs, nextCheck, envVars, checks>>

CancelLargeEdit(t) ==
    /\ modal[t] # NoEdit
    /\ modal' = [modal EXCEPT ![t] = NoEdit]
    /\ UNCHANGED <<tabs, editVars, envVars, checks, transfers>>

-----------------------------------------------------------------------------
(* Uploading a copy                                                          *)

\* find_for_tab_path: the newest session of the tab on this path, or else the
\* newest one opened under this name.
FoundForTabPath(t, row) ==
    LET on == {id \in Ids : Live(id) /\ sess[id].tab = t /\ sess[id].path = row}
        named == {id \in Ids : Live(id) /\ sess[id].tab = t /\ sess[id].name = row}
        candidates == IF on # {} THEN on ELSE named
    IN {id \in candidates : \A j \in candidates : j <= id}

Reverted(store, id) ==
    [store EXCEPT ![id].phase = "editing", ![id].check = 0, ![id].seenLocal = 0]

\* upload_selected_edit and request_upload; revert_check when the command does
\* not enter the channel.
RequestUpload(t, row) ==
    /\ IsConnected(t)
    /\ nextCheck < MaxCheck /\ WorkLeft
    /\ \E id \in FoundForTabPath(t, row) :
          /\ sess[id].phase = "editing"
          /\ local[id] # 0
          /\ nextCheck' = nextCheck + 1
          /\ \/ /\ sess[id].key = tabs[t].key
                /\ sess' = [sess EXCEPT ![id].phase = "checking", ![id].epoch = tabs[t].epoch,
                                        ![id].check = nextCheck + 1, ![id].seenLocal = local[id]]
                /\ checks' = checks \union
                      {[sid |-> id, check |-> nextCheck + 1, tab |-> t, epoch |-> tabs[t].epoch,
                        path |-> sess[id].path, at |-> "queued", result |-> 0]}
             \/ /\ sess[id].key = tabs[t].key
                /\ sess' = Reverted([sess EXCEPT ![id].epoch = tabs[t].epoch], id)
                /\ UNCHANGED checks
             \/ /\ sess[id].key # tabs[t].key
                /\ UNCHANGED <<sess, checks>>
    /\ UNCHANGED <<appVars, nextId, envVars, transfers>>

\* route_check_remote_edit_snapshot: the live actor of the tab at this epoch, or
\* an answer without a scope. A full mailbox refuses a check for a live actor too.
RouteCheckRemoteEditSnapshot(c) ==
    /\ c.at = "queued"
    /\ \/ /\ tabs[c.tab].up /\ tabs[c.tab].epoch = c.epoch
          /\ checks' = (checks \ {c}) \union {[c EXCEPT !.at = "asked"]}
       \/ checks' = (checks \ {c}) \union {[c EXCEPT !.at = "undeliverable"]}
    /\ UNCHANGED <<appVars, editVars, envVars, transfers>>

\* The actor stats the file; a failed stat is an answer with no stamp.
AnswerCheck(c) ==
    /\ c.at = "asked"
    /\ \E r \in {0, Current(tabs[c.tab].key.server, c.path)} :
          checks' = (checks \ {c}) \union {[c EXCEPT !.at = "answered", !.result = r]}
    /\ UNCHANGED <<appVars, editVars, envVars, transfers>>

\* accepts_remote_scope: some tab is still in the session the answer comes from.
Accepted(c) ==
    \/ c.at = "undeliverable"
    \/ tabs[c.tab].open /\ tabs[c.tab].epoch = c.epoch /\ tabs[c.tab].conn # "idle"

\* on_check_result, the correlation it re-validates.
Applicable(c) ==
    LET s == sess[c.sid]
    IN /\ s.phase = "checking"
       /\ s.check = c.check
       /\ s.path = c.path
       /\ s.tab = c.tab
       /\ s.epoch = c.epoch

\* Mutant: any answer authorises the upload, not only that of an unchanged file.
AuthorisesMut(c) == c.result # 0

\* on_check_result: the file is still the one the session knows.
Authorises(c) == c.result = sess[c.sid].snap

\* on_check_result: authorises an upload, whose dispatch may fail, records a
\* conflict, or returns to editing.
OnCheckResult(c) ==
    LET id == c.sid
        back == Reverted(sess, id)
        unchanged == local[id] = sess[id].seenLocal
    IN \/ /\ ~unchanged \/ c.result = 0
          /\ sess' = back
          /\ UNCHANGED transfers
       \/ /\ unchanged /\ c.result # 0 /\ Authorises(c)
          /\ \/ /\ sess' = [back EXCEPT ![id].phase = "uploading"]
                /\ transfers' = transfers \union
                      {Command(id, sess[id], "up", FALSE, c.result \in sess[id].known)}
             \/ /\ sess' = back
                /\ UNCHANGED transfers
       \/ /\ unchanged /\ c.result # 0 /\ ~Authorises(c)
          /\ sess' = [back EXCEPT ![id].phase = "conflict"]
          /\ UNCHANGED transfers

\* Mutant: an answer that never reached an actor is not handled.
HandleCheckResultMut(c) ==
    /\ c.at = "answered"
    /\ checks' = checks \ {c}
    /\ IF Accepted(c) /\ Applicable(c) THEN OnCheckResult(c) ELSE UNCHANGED <<sess, transfers>>
    /\ UNCHANGED <<appVars, nextId, nextCheck, envVars>>

\* apply_remote_edit_check_event.
HandleCheckResult(c) ==
    /\ c.at \in {"answered", "undeliverable"}
    /\ checks' = checks \ {c}
    /\ IF Accepted(c) /\ Applicable(c) THEN OnCheckResult(c) ELSE UNCHANGED <<sess, transfers>>
    /\ UNCHANGED <<appVars, nextId, nextCheck, envVars>>

-----------------------------------------------------------------------------
(* Resolving a conflict                                                      *)

\* resolve_conflict, Overwrite; dispatch_failed restores the conflict.
Overwrite(id) ==
    /\ sess[id].phase = "conflict"
    /\ sess' = [sess EXCEPT ![id].phase = "uploading"]
    /\ transfers' = transfers \union {Command(id, sess[id], "up", TRUE, FALSE)}
    /\ UNCHANGED <<appVars, nextId, nextCheck, envVars, checks>>

\* resolve_conflict, DiscardLocal: a new session with the old snapshot.
DiscardLocal(id) ==
    /\ sess[id].phase = "conflict"
    /\ local' = Deleted({id})
    /\ checks' = NotOf({id}, checks)
    /\ watch' = watch \ {id}
    /\ StartDownload({id}, sess[id].tab,
                     [name |-> sess[id].name, path |-> sess[id].path, listed |-> sess[id].snap],
                     sess[id].epoch, sess[id].key)
    /\ UNCHANGED <<appVars, nextCheck, srv, clock>>

\* resolve_conflict, Later.
DecideLater(id) ==
    /\ sess[id].phase = "conflict"
    /\ sess' = [sess EXCEPT ![id].phase = "editing"]
    /\ UNCHANGED <<appVars, nextId, nextCheck, envVars, checks, transfers>>

-----------------------------------------------------------------------------
(* Transfers of edit sessions, as the runtime and the manager run them        *)

Moved(x, at) == (transfers \ {x}) \union {[x EXCEPT !.at = at]}

\* StartTransfer: with the live session of this tab and epoch the job runs on its
\* connection; without, or when its mailbox is full, the planned upload fails and
\* the download does not get past planning, which no TransferFailed reports.
RouteTransfer(x) ==
    /\ x.at = "queued"
    /\ \/ /\ tabs[x.tab].up /\ tabs[x.tab].epoch = x.epoch
          /\ transfers' = (transfers \ {x}) \union
                {[x EXCEPT !.at = "running", !.server = tabs[x.tab].key.server]}
       \/ /\ x.dir = "up"
          /\ transfers' = Moved(x, "refused")
       \/ /\ x.dir = "down"
          /\ transfers' = transfers \ {x}
    /\ UNCHANGED <<appVars, editVars, envVars, checks>>

\* A job writes the whole file. The copy may have changed since the check. The
\* watcher's event for a download is left out: it finds the phase or the baseline.
TransferWrites(x) ==
    /\ x.at = "running"
    /\ \/ /\ x.dir = "down"
          /\ local' = [local EXCEPT ![x.sid] = Current(x.server, x.path)]
          /\ UNCHANGED <<srv, sess>>
       \/ /\ x.dir = "up" /\ local[x.sid] # 0
          /\ srv' = [srv EXCEPT ![x.server][x.path] = Append(@, local[x.sid])]
          /\ sess' = [sess EXCEPT ![x.sid].known = @ \union {local[x.sid]}]
          /\ UNCHANGED local
    /\ transfers' = Moved(x, "done")
    /\ UNCHANGED <<appVars, nextId, nextCheck, watch, clock, checks>>

\* A job fails; its row offers a retry.
TransferFails(x) ==
    /\ x.at = "running"
    /\ Cardinality({y \in transfers : y.at \in {"failed", "failedRow"}}) < MaxFailed
    /\ transfers' = Moved(x, "failed")
    /\ UNCHANGED <<appVars, editVars, envVars, checks>>

\* The user cancels the transfer; its events are not those of a failure.
TransferCancelled(x) ==
    /\ x.at \in {"queued", "running"}
    /\ transfers' = transfers \ {x}
    /\ UNCHANGED <<appVars, editVars, envVars, checks>>

\* The user retries the failed row: the job runs again, no check precedes it.
RetryTransfer(x) ==
    /\ x.at = "failedRow"
    /\ transfers' = Moved(x, "running")
    /\ UNCHANGED <<appVars, editVars, envVars, checks>>

\* on_transfer_finished: direction and phase must agree.
Matches(x) ==
    \/ sess[x.sid].phase = "downloading" /\ x.dir = "down"
    \/ sess[x.sid].phase = "uploading" /\ x.dir = "up"

\* Mutant: a failed upload ends the session as a failed download does.
FinishedMut(x) ==
    IF Matches(x) /\ x.at # "done" THEN Without({x.sid})
    ELSE IF Matches(x) THEN [sess EXCEPT ![x.sid].phase = "editing", ![x.sid].base = local[x.sid]]
    ELSE sess

\* on_transfer_finished: what the session is after the transfer.
Finished(x) ==
    LET id == x.sid
        ok == x.at = "done"
    IN IF ~Matches(x) THEN sess
       ELSE IF x.dir = "down" /\ ~ok THEN Without({id})
       ELSE IF ~ok THEN [sess EXCEPT ![id].phase = "editing"]
       ELSE [sess EXCEPT ![id].phase = "editing", ![id].dirty = FALSE, ![id].base = local[id],
                         ![id].snap = IF x.dir = "up" /\ local[id] # 0 THEN local[id] ELSE @]

\* advance_edit_sessions on the Completed or Failed event of the job.
HandleTransferFinished(x) ==
    LET gone == IF Matches(x) /\ x.dir = "down" /\ x.at # "done" THEN {x.sid} ELSE {}
    IN /\ x.at \in {"done", "failed", "refused"}
       /\ sess' = Finished(x)
       /\ local' = Deleted(gone)
       /\ watch' = watch \ gone
       /\ checks' = NotOf(gone, checks)
       /\ transfers' = NotOf(gone, IF x.at = "failed" THEN Moved(x, "failedRow")
                                                      ELSE transfers \ {x})
       /\ UNCHANGED <<appVars, nextId, nextCheck, srv, clock>>

-----------------------------------------------------------------------------
(* The user's editor, the watcher, and other users of the server             *)

\* The editor saves the temporary copy.
SaveLocal(id) ==
    /\ local[id] # 0
    /\ sess[id].phase \notin {"none", "downloading"}
    /\ clock < MaxStamp /\ WorkLeft
    /\ clock' = clock + 1
    /\ local' = [local EXCEPT ![id] = clock + 1]
    /\ watch' = watch \union {id}
    /\ UNCHANGED <<appVars, editVars, srv, checks, transfers>>

\* handle_local_edit_modified and record_local_modified.
HandleLocalEditModified(id) ==
    /\ id \in watch
    /\ watch' = watch \ {id}
    /\ sess' = IF sess[id].phase = "editing" /\ local[id] # sess[id].base
               THEN [sess EXCEPT ![id].dirty = TRUE] ELSE sess
    /\ UNCHANGED <<appVars, nextId, nextCheck, local, srv, clock, checks, transfers>>

\* Somebody else changes a file.
RemoteChange(s, p) ==
    /\ clock < MaxStamp /\ WorkLeft
    /\ srv[s][p] # <<>>
    /\ clock' = clock + 1
    /\ srv' = [srv EXCEPT ![s][p] = Append(@, clock + 1)]
    /\ UNCHANGED <<appVars, editVars, local, watch, checks, transfers>>

-----------------------------------------------------------------------------
(* Closing tabs and windows                                                  *)

Closed(t) == [tabs EXCEPT ![t].open = FALSE, ![t].conn = "idle", ![t].up = FALSE]

\* close_tab_by_id: the sessions of the tab and their copies go with it.
CloseTab(t) ==
    /\ tabs[t].open
    /\ tabs' = Closed(t)
    /\ modal' = [modal EXCEPT ![t] = NoEdit]
    /\ LET gone == SessionsOf({t})
       IN /\ sess' = Without(gone)
          /\ local' = Deleted(gone)
          /\ watch' = watch \ gone
          /\ checks' = NotOf(gone, checks)
          /\ transfers' = NotOf(gone, transfers)
    /\ UNCHANGED <<nextId, nextCheck, srv, clock>>

\* A window is closed with its tab; the hook that sweeps runs later.
CloseWindow(t) ==
    /\ tabs[t].open
    /\ tabs' = Closed(t)
    /\ modal' = [modal EXCEPT ![t] = NoEdit]
    /\ checks' = WithoutMailboxOf(t)
    /\ UNCHANGED <<editVars, envVars, transfers>>

\* cleanup_orphaned_edit_sessions.
SweepOrphans ==
    LET orphans == SessionsOf({t \in Tabs : ~tabs[t].open})
    IN /\ orphans # {}
       /\ sess' = Without(orphans)
       /\ local' = Deleted(orphans)
       /\ watch' = watch \ orphans
       /\ checks' = NotOf(orphans, checks)
       /\ transfers' = NotOf(orphans, transfers)
       /\ UNCHANGED <<appVars, nextId, nextCheck, srv, clock>>

-----------------------------------------------------------------------------
TabStep(t) ==
    \/ \E s \in Servers, saved \in BOOLEAN : Connect(t, s, saved)
    \/ ConnectEnds(t)
    \/ ConnectionLost(t)
    \/ HandleDisconnected(t)
    \/ CloseTab(t)
    \/ CloseWindow(t)

UserStep(t) ==
    \/ Open(t)
    \/ ConfirmLargeEdit(t)
    \/ CancelLargeEdit(t)
    \/ \E row \in Paths : RequestUpload(t, row)

SessionStep(id) ==
    \/ Overwrite(id)
    \/ DiscardLocal(id)
    \/ DecideLater(id)
    \/ SaveLocal(id)
    \/ HandleLocalEditModified(id)

CheckStep(c) ==
    \/ RouteCheckRemoteEditSnapshot(c)
    \/ AnswerCheck(c)
    \/ HandleCheckResult(c)

TransferStep(x) ==
    \/ RouteTransfer(x)
    \/ TransferWrites(x)
    \/ TransferFails(x)
    \/ TransferCancelled(x)
    \/ RetryTransfer(x)
    \/ HandleTransferFinished(x)

Next ==
    \/ \E t \in Tabs : TabStep(t) \/ UserStep(t)
    \/ \E id \in Ids : SessionStep(id)
    \/ \E c \in checks : CheckStep(c)
    \/ \E x \in transfers : TransferStep(x)
    \/ \E s \in Servers, p \in Paths : RemoteChange(s, p)
    \/ SweepOrphans

Spec == Init /\ [][Next]_vars

\* The runtime and the actors answer the checks they are asked, and the
\* application handles the events it is sent and runs the hook of a closed window.
Fairness ==
    /\ WF_vars(\E c \in checks : CheckStep(c))
    /\ \A t \in Tabs : WF_vars(HandleDisconnected(t))
    /\ WF_vars(SweepOrphans)

FairSpec == Spec /\ Fairness

-----------------------------------------------------------------------------
(* Properties                                                                *)

\* An upload the user did not force was authorised by a stat of the file that
\* showed what this session opened or what it uploaded itself, however checks,
\* saves, reconnects, retried uploads and re-opened files interleave.
UploadAuthorised == \A x \in transfers : x.dir = "up" /\ ~x.forced => x.seen

OnServer(v) == \E s \in Servers, p \in Paths : \E i \in DOMAIN srv[s][p] : srv[s][p][i] = v

\* An edited copy: it holds a save of the user that was never written to a
\* server, whatever stamp the session takes for its baseline.
Edited(id) ==
    /\ Live(id) /\ sess[id].phase # "downloading"
    /\ local[id] # 0 /\ ~OnServer(local[id])

\* The completion of an upload of session id is handled in this step.
UploadEnds(id) == \E x \in transfers \ transfers' : x.sid = id /\ x.dir = "up" /\ x.at = "done"

\* An edited copy is given up only with its tab or for the user's choice to
\* discard it, and nothing but a later save of the user replaces it: not the end
\* of the upload of an earlier save, which makes the copy the new baseline. Nor
\* does anything take its modified mark away, with one exception, which
\* on_transfer_finished makes: the end of the upload of an earlier save clears
\* the mark of the newer one.
EditsNotLost ==
    [][\A id \in Ids : Edited(id) /\ tabs'[sess[id].tab].open =>
          \/ sess[id].phase = "conflict" /\ sess'[id].phase = "none"
          \/ /\ sess'[id].phase # "none" /\ local'[id] >= local[id]
             /\ sess[id].dirty => sess'[id].dirty \/ UploadEnds(id)]_vars

\* Every check comes to an end: the session uploads, is in conflict or is back to
\* editing, also when the connection goes while the check is under way.
CheckEnds ==
    \A id \in Ids : (sess[id].phase = "checking") ~> (sess[id].phase # "checking")

\* "Reconnect to the original server before uploading your changes.": an upload
\* goes to the server the session's file was opened on. It does not hold of a
\* conflict that is resolved with Overwrite: see the README.
UploadToOwnServer == \A x \in transfers : x.dir = "up" /\ x.at = "done" => x.server = x.owner
-----------------------------------------------------------------------------
(* The inductive invariant behind UploadAuthorised and EditsNotLost           *)

\* A stamp that exists nowhere but in the copy of session id.
Private(id, v) ==
    /\ v # 0 /\ v <= clock
    /\ ~OnServer(v)
    /\ \A j \in Ids : j # id => local[j] # v

\* The clock is the newest stamp of all.
StampsOld ==
    /\ \A s \in Servers, p \in Paths : \A i \in DOMAIN srv[s][p] : srv[s][p][i] <= clock
    /\ \A id \in Ids : local[id] <= clock

\* What is edited is a file of the servers.
PathsServed ==
    /\ \A s \in Servers : \A p \in Files : srv[s][p] # <<>>
    /\ \A t \in Tabs : modal[t] # NoEdit => modal[t].path \in Files
    /\ \A id \in Ids : Live(id) => sess[id].path \in Files
    /\ \A c \in checks : c.path \in Files
    /\ \A x \in transfers : x.path \in Files

\* A session that is gone, or not yet there, leaves no copy and no transfer.
NothingOfTheGone ==
    /\ \A id \in Ids : id > nextId => ~Live(id)
    /\ \A id \in Ids : ~Live(id) => local[id] = 0
    /\ \A x \in transfers : Live(x.sid)

\* A session's one download belongs to its phase, and an upload comes after it.
TransfersFit ==
    /\ \A x \in transfers : x.dir = "down" <=> sess[x.sid].phase = "downloading"
    /\ \A x, y \in transfers : x.dir = "down" /\ x.sid = y.sid => x = y

\* What an answer shows has been on a server.
AnswersSeen == \A c \in checks : c.result # 0 => OnServer(c.result)

\* The snapshot of a session is what it opened or uploaded, or a save that came
\* between an upload and its completion and is in the session's copy only.
SnapshotKnown == \A id \in Ids : Live(id) => sess[id].snap \in sess[id].known \/ Private(id, sess[id].snap)

\* So is the copy when the upload is done, which makes it the snapshot.
UploadedKnown ==
    \A x \in transfers : x.dir = "up" /\ x.at = "done" =>
        local[x.sid] \in sess[x.sid].known \/ Private(x.sid, local[x.sid])

IInv ==
    /\ TypeOK
    /\ StampsOld
    /\ PathsServed
    /\ NothingOfTheGone
    /\ TransfersFit
    /\ AnswersSeen
    /\ SnapshotKnown
    /\ UploadedKnown
    /\ UploadAuthorised
=============================================================================
