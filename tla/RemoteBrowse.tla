---------------------------- MODULE RemoteBrowse ----------------------------
(***************************************************************************)
(* The server pane of a tab: what the user sees of the server, how it      *)
(* follows navigation, reconnects and changes of the server's files, and   *)
(* where the operations started from it are carried out.                   *)
(*                                                                         *)
(* The window (handle_window_event, panes.rs, file_ops.rs) sends commands  *)
(* to the runtime, which forwards them to the actor of the tab's session;  *)
(* actors answer with events that carry their epoch. A tab that connects   *)
(* again gets a new actor while the old one may still be finishing its     *)
(* request. Files are a version number for each directory of each server.  *)
(***************************************************************************)
EXTENDS PaneNavHistory, FiniteSets

CONSTANTS
    Server,         \* what a tab can be connected to
    Dir,            \* directories, the same names on every server
    Root,           \* remote_root: the directory a session starts in
    Shared,         \* the directories, with their servers, that others change too
    DebugBuild,     \* whether debug_assert_eq! evaluates its arguments
    MaxEpoch,       \* bound: connection attempts of the tab
    MaxVersion,     \* bound: changes of one directory
    MaxMoves,       \* bound: requests of the user
    CommandCap,     \* command_channel_capacity
    MailboxCap      \* flume::bounded(16) of a session

\* What the code guarantees of the constants.
BrowseConstants ==
    /\ Root \in Dir /\ Shared \subseteq Server \X Dir
    /\ DebugBuild \in BOOLEAN
    /\ MaxEpoch \in Nat /\ MaxVersion \in Nat /\ MaxMoves \in Nat
    /\ CommandCap \in Nat \ {0} /\ MailboxCap \in Nat \ {0}
    /\ None \notin Server \cup Dir

VARIABLES
    tab,        \* connection, epoch and remote pane of the tab
    history,    \* nav.remote: back and forward
    dialog,     \* the rename banner and the delete confirmation
    commands,   \* window to runtime
    session,    \* sessions[tab]: the epoch of the runtime's handle, 0 for none
    actor,      \* for each epoch its actor
    events,     \* actors and runtime to window
    version,    \* for each server and directory how often it changed
    mine,       \* for each session and directory the version its last operation made
    torn,       \* where an operation changed some entries, failed, and nothing was listed since
    moves       \* how often the user has acted

vars == <<tab, history, dialog, commands, session, actor, events, version, mine, torn, moves>>

Epochs == 1 .. MaxEpoch
Dirs == Dir \cup {None}
Listings == [server : Server, dir : Dir, version : 0 .. MaxVersion]
NoActor == [server |-> None, state |-> "none", mailbox |-> <<>>, doing |-> None]

Init ==
    /\ tab = [connection |-> "empty", epoch |-> 0, server |-> None, path |-> None,
              entries |-> None, refreshing |-> FALSE, error |-> FALSE, restored |-> None]
    /\ history = NoHistory
    /\ dialog = [rename |-> None, delete |-> None]
    /\ commands = <<>> /\ session = 0 /\ events = <<>>
    /\ actor = [e \in Epochs |-> NoActor]
    /\ version = [s \in Server |-> [d \in Dir |-> 0]]
    /\ mine = [e \in Epochs |-> [d \in Dir |-> 0]]
    /\ torn = {}
    /\ moves = 0

-----------------------------------------------------------------------------
\* The window's requests; MaxMoves bounds them.

Act == moves < MaxMoves /\ moves' = moves + 1
RuntimeSide == <<session, actor, events, version, mine, torn>>

\* RuntimeClient::try_send: fails when the channel is full.
Room == Len(commands) < CommandCap
SendCommand(c) == commands' = Append(commands, c)
InFlight == tab.connection = "connecting"

\* connect_with: the epoch moves on, the pane stays as it is.
Connect(s) ==
    /\ Act /\ ~InFlight /\ Room /\ tab.epoch < MaxEpoch
    /\ SendCommand([kind |-> "connect", epoch |-> tab.epoch + 1, server |-> s])
    /\ tab' = [tab EXCEPT !.connection = "connecting", !.epoch = @ + 1, !.server = s]
    /\ UNCHANGED <<history, dialog, RuntimeSide>>

\* cancel_connect
CancelConnect ==
    /\ Act /\ InFlight /\ Room
    /\ SendCommand([kind |-> "disconnect"])
    /\ tab' = [tab EXCEPT !.connection = "disconnected", !.path = None, !.entries = None,
                          !.refreshing = FALSE, !.error = FALSE]
    /\ UNCHANGED <<history, dialog, RuntimeSide>>

\* read_remote_directory once its command is on its way. The last listing stays
\* visible meanwhile.
ReadRemoteDirectory(t, d) == [t EXCEPT !.path = d, !.refreshing = TRUE, !.error = FALSE]

\* navigate_pane_remote(Push)
Navigate(d) ==
    /\ Act /\ Room
    /\ SendCommand([kind |-> "read", dir |-> d])
    /\ tab' = ReadRemoteDirectory(tab, d)
    /\ history' = PushNavigatingFrom(history, tab.path, d)
    /\ UNCHANGED <<dialog, RuntimeSide>>

\* navigate_pane_remote(Back): go_back is called within debug_assert_eq!.
NavigateBack ==
    /\ Act /\ Room /\ history.back # <<>>
    /\ SendCommand([kind |-> "read", dir |-> Last(history.back)])
    /\ tab' = ReadRemoteDirectory(tab, Last(history.back))
    /\ history' = IF tab.path = None \/ ~DebugBuild THEN history ELSE GoBack(history, tab.path)
    /\ UNCHANGED <<dialog, RuntimeSide>>

\* navigate_pane_remote(Forward). Each takes back an earlier Back, which MaxMoves
\* counts.
NavigateForward ==
    /\ Room /\ history.forward # <<>>
    /\ SendCommand([kind |-> "read", dir |-> Last(history.forward)])
    /\ tab' = ReadRemoteDirectory(tab, Last(history.forward))
    /\ history' = IF tab.path = None \/ ~DebugBuild THEN history ELSE GoForward(history, tab.path)
    /\ UNCHANGED <<dialog, moves, RuntimeSide>>

\* refresh_focused_pane, and reload_remote_directory after a transfer
Refresh ==
    /\ Act /\ Room /\ tab.path # None
    /\ SendCommand([kind |-> "read", dir |-> tab.path])
    /\ tab' = ReadRemoteDirectory(tab, tab.path)
    /\ UNCHANGED <<history, dialog, RuntimeSide>>

\* open_entry_at for a symbolic link: resolve_remote_entry
OpenLink ==
    /\ Act /\ Room /\ tab.connection = "connected" /\ tab.entries # None
    /\ SendCommand([kind |-> "resolve", epoch |-> tab.epoch, dir |-> tab.entries.dir])
    /\ UNCHANGED <<tab, history, dialog, RuntimeSide>>

\* begin_rename_selection: an entry of the listing shown, of a server still there.
BeginRename ==
    /\ Act /\ tab.connection = "connected" /\ tab.entries # None
    /\ dialog' = [dialog EXCEPT !.rename = [dir |-> tab.entries.dir, meant |-> tab.entries.server]]
    /\ UNCHANGED <<tab, history, commands, RuntimeSide>>

\* begin_new_folder: in the directory of the path bar.
BeginNewFolder ==
    /\ Act /\ tab.connection = "connected" /\ tab.path # None
    /\ dialog' = [dialog EXCEPT !.rename = [dir |-> tab.path, meant |-> tab.server]]
    /\ UNCHANGED <<tab, history, commands, RuntimeSide>>

\* An operation's command: `meant` is the server the user saw when starting it.
FsCommand(e, d, s) == [kind |-> "fs", epoch |-> e, dir |-> d, meant |-> s]

\* submit_inline_edit: the scope is the tab's present one.
SubmitRename ==
    /\ dialog.rename # None /\ tab.connection = "connected"
    /\ dialog' = [dialog EXCEPT !.rename = None]
    /\ IF Room THEN SendCommand(FsCommand(tab.epoch, dialog.rename.dir, dialog.rename.meant))
               ELSE UNCHANGED commands
    /\ UNCHANGED <<tab, history, moves, RuntimeSide>>

\* request_delete_selection: the scope is kept with the question.
RequestDelete ==
    /\ Act /\ tab.connection = "connected" /\ tab.entries # None /\ dialog.delete = None
    /\ dialog' = [dialog EXCEPT !.delete = FsCommand(tab.epoch, tab.entries.dir, tab.entries.server)]
    /\ UNCHANGED <<tab, history, commands, RuntimeSide>>

\* confirm_delete
ConfirmDelete ==
    /\ dialog.delete # None
    /\ dialog' = [dialog EXCEPT !.delete = None]
    /\ IF Room THEN SendCommand(dialog.delete) ELSE UNCHANGED commands
    /\ UNCHANGED <<tab, history, moves, RuntimeSide>>

\* cancel_inline_edit, cancel_delete_confirm
CancelDialog ==
    /\ \/ dialog.rename # None /\ dialog' = [dialog EXCEPT !.rename = None]
       \/ dialog.delete # None /\ dialog' = [dialog EXCEPT !.delete = None]
    /\ UNCHANGED <<tab, history, commands, moves, RuntimeSide>>

-----------------------------------------------------------------------------
\* The runtime takes the commands in order.

WindowSide == <<tab, history, dialog, moves>>
World == <<version, mine, torn>>

Command(kind) == commands # <<>> /\ Head(commands).kind = kind
Take == commands' = Tail(commands)
Send(e) == events' = Append(events, e)

\* CancellationToken::cancel: an actor notices it between two requests, a
\* connection that is coming up at once.
Shutdown(acts, e) ==
    IF e = 0 THEN acts
    ELSE IF acts[e].state = "live" THEN [acts EXCEPT ![e].state = "cancelled"]
    ELSE [acts EXCEPT ![e].state = "over", ![e].mailbox = <<>>]

RunConnect ==
    /\ Command("connect") /\ Take
    /\ LET c == Head(commands) IN
        /\ actor' = [Shutdown(actor, session) EXCEPT
                        ![c.epoch] = [NoActor EXCEPT !.server = c.server, !.state = "opening"]]
        /\ session' = c.epoch
    /\ UNCHANGED <<events, WindowSide, World>>

RunDisconnect ==
    /\ Command("disconnect") /\ Take
    /\ actor' = Shutdown(actor, session)
    /\ session' = 0
    /\ UNCHANGED <<events, WindowSide, World>>

\* The mailbox accepts until it is full; it is gone with its actor.
Accepts(e) == actor[e].state # "over" /\ Len(actor[e].mailbox) < MailboxCap
Post(e, request) == actor' = [actor EXCEPT ![e].mailbox = Append(@, request)]

\* Mutant: a read that cannot be forwarded is dropped in silence.
RunReadMut ==
    /\ Command("read") /\ Take
    /\ IF session # 0 /\ Accepts(session) THEN Post(session, Head(commands)) ELSE UNCHANGED actor
    /\ UNCHANGED <<session, events, WindowSide, World>>

\* ReadRemoteDir names the tab, not an epoch: whoever is its actor gets it.
RunRead ==
    /\ Command("read") /\ Take
    /\ IF session = 0 THEN UNCHANGED <<actor, events>>
       ELSE IF Accepts(session)
            THEN Post(session, Head(commands)) /\ UNCHANGED events
            ELSE Send([kind |-> "failed", epoch |-> session, dir |-> Head(commands).dir])
                 /\ UNCHANGED actor
    /\ UNCHANGED <<session, WindowSide, World>>

\* route_resolve_remote_entry, dispatch_fs_command: only for the epoch they
\* were made for. What cannot be forwarded is answered in the status line.
RunForEpoch ==
    /\ Command("resolve") \/ Command("fs")
    /\ Take
    /\ IF session = Head(commands).epoch /\ Accepts(session)
       THEN Post(session, Head(commands))
       ELSE UNCHANGED actor
    /\ UNCHANGED <<session, events, WindowSide, World>>

-----------------------------------------------------------------------------
\* The actor of epoch e.

Rest == <<commands, session, WindowSide>>

\* The connection is there: TabConnected is the actor's first event.
Opened(e) ==
    /\ actor[e].state = "opening"
    /\ actor' = [actor EXCEPT ![e].state = "live"]
    /\ Send([kind |-> "connected", epoch |-> e, dir |-> Root])
    /\ UNCHANGED <<Rest, World>>

\* AuthFailed or HostKeyMismatch, which fail the tab in the same way, or
\* TabDisconnected: no connection, or the host key was not accepted.
OpenFails(e) ==
    /\ actor[e].state = "opening"
    /\ actor' = [actor EXCEPT ![e].state = "over", ![e].mailbox = <<>>]
    /\ \E kind \in {"authfailed", "lost"} : Send([kind |-> kind, epoch |-> e, dir |-> Root])
    /\ UNCHANGED <<Rest, World>>

Running(e) == actor[e].state \in {"live", "cancelled"}
Idle(e) == Running(e) /\ actor[e].doing = None

\* handle_request: a listing announces itself with RemoteDirLoading. The select
\* may choose a request although the session is cancelled.
TakeRequest(e) ==
    /\ Idle(e) /\ actor[e].mailbox # <<>>
    /\ LET r == Head(actor[e].mailbox) IN
        /\ actor' = [actor EXCEPT ![e].mailbox = Tail(@), ![e].doing = r]
        /\ IF r.kind = "read" THEN Send([kind |-> "loading", epoch |-> e, dir |-> r.dir])
                              ELSE UNCHANGED events
    /\ UNCHANGED <<Rest, World>>

Doing(e, kind) == Running(e) /\ actor[e].doing # None /\ actor[e].doing.kind = kind

\* read_remote_dir: the server puts the listing together and the actor passes
\* it on later, or the request fails.
ServerLists(e) ==
    /\ Doing(e, "read")
    /\ LET s == actor[e].server
           d == actor[e].doing.dir
       IN  /\ actor' = [actor EXCEPT ![e].doing =
                             [kind |-> "listed", dir |-> d, version |-> version[s][d]]]
           /\ torn' = torn \ {<<e, d>>}
    /\ UNCHANGED <<events, Rest, version, mine>>

FinishRead(e) ==
    /\ LET r == actor[e].doing IN
        \/ /\ Doing(e, "listed")
           /\ Send([kind |-> "loaded", epoch |-> e, dir |-> r.dir,
                    listing |-> [server |-> actor[e].server, dir |-> r.dir, version |-> r.version]])
        \/ /\ Doing(e, "read")
           /\ Send([kind |-> "failed", epoch |-> e, dir |-> r.dir])
    /\ actor' = [actor EXCEPT ![e].doing = None]
    /\ UNCHANGED <<Rest, World>>

\* resolve_remote_entry: the link leads to a directory, or to something else,
\* which does not move the pane.
FinishResolve(e) ==
    /\ Doing(e, "resolve")
    /\ \/ \E d \in Dir \ {actor[e].doing.dir} :
             Send([kind |-> "resolved", epoch |-> e, dir |-> d, parent |-> actor[e].doing.dir])
       \/ UNCHANGED events
    /\ actor' = [actor EXCEPT ![e].doing = None]
    /\ UNCHANGED <<Rest, World>>

\* Mutant: the directory is not listed again after the operation.
FinishFsMut(e) ==
    /\ Doing(e, "fs")
    /\ LET s == actor[e].server
           d == actor[e].doing.dir
       IN  /\ version[s][d] < MaxVersion
           /\ version' = [version EXCEPT ![s][d] = @ + 1]
           /\ mine' = [mine EXCEPT ![e][d] = version[s][d] + 1]
    /\ actor' = [actor EXCEPT ![e].doing = None]
    /\ UNCHANGED <<events, torn, Rest>>

\* execute_remote_fs_op, then the listing of refresh_path. A failure is told in
\* the status line and nothing is listed: of a delete of several entries some may
\* be gone by then.
FinishFs(e) ==
    /\ Doing(e, "fs")
    /\ LET s == actor[e].server
           d == actor[e].doing.dir
           Changed == /\ version[s][d] < MaxVersion
                      /\ version' = [version EXCEPT ![s][d] = @ + 1]
                      /\ mine' = [mine EXCEPT ![e][d] = version[s][d] + 1]
       IN \/ /\ Changed
             /\ Send([kind |-> "loading", epoch |-> e, dir |-> d])
             /\ actor' = [actor EXCEPT ![e].doing = [kind |-> "read", dir |-> d]]
             /\ UNCHANGED torn
          \/ /\ Changed
             /\ actor' = [actor EXCEPT ![e].doing = None]
             /\ torn' = torn \cup {<<e, d>>}
             /\ UNCHANGED events
          \/ /\ actor' = [actor EXCEPT ![e].doing = None]
             /\ UNCHANGED <<version, mine, torn, events>>
    /\ UNCHANGED Rest

\* cancel.cancelled(): the actor ends without a word, its mailbox with it. One
\* that is still in a request when shutdown_timeout has passed is aborted.
Cancelled(e) ==
    /\ actor[e].state = "cancelled"
    /\ actor' = [actor EXCEPT ![e].state = "over", ![e].mailbox = <<>>, ![e].doing = None]
    /\ UNCHANGED <<events, Rest, World>>

\* connection_lost.cancelled()
Lost(e) ==
    /\ Idle(e)
    /\ actor' = [actor EXCEPT ![e].state = "over", ![e].mailbox = <<>>]
    /\ Send([kind |-> "lost", epoch |-> e, dir |-> Root])
    /\ UNCHANGED <<Rest, World>>

\* Somebody else changes the server's files.
OthersChange(s, d) ==
    /\ version[s][d] < MaxVersion
    /\ version' = [version EXCEPT ![s][d] = @ + 1]
    /\ UNCHANGED <<mine, torn, actor, events, Rest>>

-----------------------------------------------------------------------------
\* handle_window_event: the window takes the events in order.

Others == <<dialog, session, actor, version, mine, torn, moves>>

\* accepts_remote_event: the event is of the tab's present session.
Accepted(e) == tab.epoch = e.epoch /\ tab.connection \in {"connecting", "connected"}

Event(kind) == events # <<>> /\ Head(events).kind = kind /\ events' = Tail(events)

DropStale ==
    /\ events # <<>> /\ ~Accepted(Head(events))
    /\ events' = Tail(events)
    /\ UNCHANGED <<tab, history, commands, Others>>

\* The pane starts where the user was when the connection broke, or at the root;
\* if the command cannot be sent it stays empty.
TabConnected ==
    /\ Event("connected") /\ Accepted(Head(events))
    /\ LET d == IF tab.restored # None THEN tab.restored ELSE Head(events).dir
           t == [tab EXCEPT !.connection = "connected", !.entries = None, !.path = d,
                            !.refreshing = FALSE, !.error = FALSE, !.restored = None]
       IN  IF Room THEN /\ SendCommand([kind |-> "read", dir |-> d])
                        /\ tab' = ReadRemoteDirectory(t, d)
                   ELSE tab' = t /\ UNCHANGED commands
    /\ UNCHANGED <<history, Others>>

TabDisconnected ==
    /\ Event("lost") /\ Accepted(Head(events))
    /\ tab' = [tab EXCEPT !.connection = "disconnected", !.entries = None, !.path = None,
                          !.refreshing = FALSE, !.error = FALSE,
                          !.restored = IF tab.path # None THEN tab.path ELSE @]
    /\ UNCHANGED <<history, commands, Others>>

AuthFailed ==
    /\ Event("authfailed") /\ Accepted(Head(events))
    /\ tab' = [tab EXCEPT !.connection = "failed"]
    /\ UNCHANGED <<history, commands, Others>>

RemoteDirLoading ==
    /\ Event("loading") /\ Accepted(Head(events))
    /\ tab' = IF tab.path # Head(events).dir THEN tab
              ELSE [tab EXCEPT !.refreshing = TRUE, !.error = FALSE]
    /\ UNCHANGED <<history, commands, Others>>

\* Mutant: a listing is shown whatever directory it is of.
RemoteDirLoadedMut ==
    /\ Event("loaded") /\ Accepted(Head(events))
    /\ tab' = [tab EXCEPT !.entries = Head(events).listing, !.refreshing = FALSE, !.error = FALSE]
    /\ UNCHANGED <<history, commands, Others>>

\* A listing of another directory than the pane's is obsolete.
RemoteDirLoaded ==
    /\ Event("loaded") /\ Accepted(Head(events))
    /\ tab' = IF tab.path # Head(events).dir THEN tab
              ELSE [tab EXCEPT !.entries = Head(events).listing, !.refreshing = FALSE, !.error = FALSE]
    /\ UNCHANGED <<history, commands, Others>>

RemoteOperationFailed ==
    /\ Event("failed") /\ Accepted(Head(events))
    /\ tab' = IF tab.path # Head(events).dir THEN tab
              ELSE [tab EXCEPT !.refreshing = FALSE, !.error = TRUE]
    /\ UNCHANGED <<history, commands, Others>>

\* RemoteEntryResolved: the pane follows the link if it still shows its directory.
RemoteEntryResolved ==
    /\ Event("resolved") /\ Accepted(Head(events))
    /\ LET e == Head(events) IN
        IF tab.path = e.parent /\ Room
        THEN /\ SendCommand([kind |-> "read", dir |-> e.dir])
             /\ tab' = ReadRemoteDirectory(tab, e.dir)
             /\ history' = PushNavigatingFrom(history, tab.path, e.dir)
        ELSE UNCHANGED <<tab, history, commands>>
    /\ UNCHANGED Others

-----------------------------------------------------------------------------
User ==
    \/ \E s \in Server : Connect(s)
    \/ \E d \in Dir : Navigate(d)
    \/ CancelConnect \/ NavigateBack \/ NavigateForward \/ Refresh \/ OpenLink
    \/ BeginRename \/ BeginNewFolder \/ SubmitRename
    \/ RequestDelete \/ ConfirmDelete \/ CancelDialog

Runtime == RunConnect \/ RunDisconnect \/ RunRead \/ RunForEpoch

Serve(e) == TakeRequest(e) \/ ServerLists(e) \/ FinishRead(e) \/ FinishResolve(e) \/ FinishFs(e) \/ Cancelled(e)

Window ==
    \/ DropStale \/ TabConnected \/ TabDisconnected \/ AuthFailed \/ RemoteDirLoading
    \/ RemoteDirLoaded \/ RemoteOperationFailed \/ RemoteEntryResolved

Next ==
    \/ User \/ Runtime \/ Window
    \/ \E e \in Epochs : Serve(e) \/ Opened(e) \/ OpenFails(e) \/ Lost(e)
    \/ \E s \in Server, d \in Dir : <<s, d>> \in Shared /\ OthersChange(s, d)

Spec == Init /\ [][Next]_vars

\* The dispatch loop, the actors' tasks and the event drain of the window are
\* all scheduled; a server answers or the request fails.
FairSpec ==
    /\ Spec
    /\ WF_vars(Runtime) /\ WF_vars(Window)
    /\ \A e \in Epochs : WF_vars(Serve(e))

-----------------------------------------------------------------------------
Requests == [kind : {"read"}, dir : Dir] \cup [kind : {"resolve"}, epoch : Epochs, dir : Dir]
            \cup [kind : {"fs"}, epoch : Epochs, dir : Dir, meant : Server]

Commands == Requests \cup [kind : {"disconnect"}]
            \cup [kind : {"connect"}, epoch : Epochs, server : Server]

Events ==
    [kind : {"connected", "authfailed", "loading", "failed", "lost"}, epoch : Epochs, dir : Dir]
        \cup [kind : {"resolved"}, epoch : Epochs, dir : Dir, parent : Dir]
        \cup [kind : {"loaded"}, epoch : Epochs, dir : Dir, listing : Listings]

Tabs ==
    [connection : {"empty", "connecting", "connected", "disconnected", "failed"},
     epoch : 0 .. MaxEpoch, server : Server \cup {None}, path : Dirs,
     entries : Listings \cup {None}, refreshing : BOOLEAN, error : BOOLEAN, restored : Dirs]

Dialogs == [rename : [dir : Dir, meant : Server] \cup {None}, delete : Requests \cup {None}]

\* What an actor is busy with: nothing, a request, or passing on what was listed.
Tasks == Requests \cup {None} \cup [kind : {"listed"}, dir : Dir, version : 0 .. MaxVersion]

Mailboxes == Seq(Requests)

Actors ==
    [server : Server \cup {None}, state : {"none", "opening", "live", "cancelled", "over"},
     mailbox : Mailboxes, doing : Tasks]

TypeOK ==
    /\ tab \in Tabs
    /\ history \in [back : Seq(Dir), forward : Seq(Dir)]
    /\ dialog \in Dialogs
    /\ commands \in Seq(Commands)
    /\ session \in 0 .. MaxEpoch
    /\ actor \in [Epochs -> Actors]
    /\ events \in Seq(Events)
    /\ version \in [Server -> [Dir -> 0 .. MaxVersion]]
    /\ mine \in [Epochs -> [Dir -> 0 .. MaxVersion]]
    /\ torn \subseteq Epochs \X Dir
    /\ moves \in 0 .. MaxMoves

\* A connected pane never shows the files of the server the tab was connected to
\* before, although the old actor may still be answering, and what it shows
\* under a path is a listing of that path once nothing is being loaded
\* (accepts_remote_event, RemoteDirLoaded).
PaneShowsItsPlace ==
    tab.connection = "connected" /\ tab.entries # None =>
        /\ tab.entries.server = tab.server
        /\ ~tab.refreshing /\ ~tab.error => tab.entries.dir = tab.path

\* An operation changes the server the user was looking at when starting it,
\* however late the question is answered (FsScope, dispatch_fs_command). It does
\* not hold of a rename that is confirmed after a reconnect: see the README.
OperationsStayOnTheirServer ==
    \A e \in Epochs :
        actor[e].doing # None /\ actor[e].doing.kind = "fs" =>
            actor[e].doing.meant = actor[e].server

\* Back and Forward move along the user's trail and lose no place of it: what
\* lies behind, the pane's own directory and what lies ahead stay the same
\* sequence (HistoryOp, navigate_pane_remote). It does not hold of a release
\* build, DebugBuild = FALSE: see the README.
TrailIsKept ==
    [][(NavigateBack \/ NavigateForward) /\ tab.path # None
         => Trail(history', tab'.path) = Trail(history, tab.path)]_vars

\* A connected pane does not load for ever: every request is answered or the
\* session ends, also when the mailbox is full or gone.
LoadingEnds ==
    (tab.connection = "connected" /\ tab.refreshing)
        ~> (tab.connection # "connected" \/ ~tab.refreshing)

\* A pane that stays where its session changed something comes to show the
\* change, or says that it could not be loaded. Exempted is an operation that
\* failed after it had changed some entries: the actor lists nothing, and the pane
\* shows what is gone until the next listing is asked for. (What an earlier
\* session was still doing when the tab reconnected shows with the next listing.)
OwnChangesShow ==
    LET Unshown ==
            /\ tab.connection = "connected" /\ tab.path # None
            /\ mine[tab.epoch][tab.path] > 0
            /\ <<tab.epoch, tab.path>> \notin torn
            /\ ~tab.error /\ (tab.entries # None \/ tab.refreshing)
            /\ tab.entries # None =>
                  \/ tab.entries.dir # tab.path
                  \/ tab.entries.version < mine[tab.epoch][tab.path]
    IN Unshown ~> ~Unshown

-----------------------------------------------------------------------------
(* The inductive invariant behind PaneShowsItsPlace. *)

\* Nothing is of an epoch that is still to come, and what is of the tab's present
\* epoch is of its present server.
OfItsServer(epoch, server) == epoch <= tab.epoch /\ (epoch = tab.epoch => server = tab.server)

TimelyCommands == {c \in Commands : c.kind = "connect" => OfItsServer(c.epoch, c.server)}

TimelyEvents ==
    {e \in Events : /\ e.epoch <= tab.epoch
                    /\ e.kind = "loaded" => /\ e.listing.dir = e.dir
                                            /\ OfItsServer(e.epoch, e.listing.server)}

TimelyActors ==
    /\ \A e \in Epochs : actor[e].state # "none" =>
            actor[e].server \in Server /\ OfItsServer(e, actor[e].server)
    /\ session # 0 => actor[session].state # "none"

PlaceInv ==
    /\ TypeOK
    /\ tab.connection # "empty" => tab.epoch \in Epochs /\ tab.server \in Server
    /\ commands \in Seq(TimelyCommands)
    /\ events \in Seq(TimelyEvents)
    /\ TimelyActors
    /\ PaneShowsItsPlace
=============================================================================
