------------------------------ MODULE MCPanes ------------------------------
(***************************************************************************)
(* The two panes of a tab side by side: the local one and, in the instance *)
(* B, the one of the server. They share directory names and the length of  *)
(* the history, and step independently; what a transfer changes in both    *)
(* arrives in each as a reload. A run keeps one of them at rest by giving  *)
(* the user no moves in it.                                                *)
(***************************************************************************)
EXTENDS LocalPane

CONSTANTS Server, Root, Shared, DebugBuild, MaxEpoch, MaxChanges, MaxMoves, CommandCap, MailboxCap

VARIABLES tab, trail, dialog, commands, session, actor, events, version, made, torn, moves

remoteVars == <<tab, trail, dialog, commands, session, actor, events, version, made, torn, moves>>

B == INSTANCE RemoteBrowse WITH history <- trail, mine <- made, MaxVersion <- MaxChanges

ASSUME BrowseAssumption == B!BrowseConstants

PanesInit == Init /\ B!Init

PanesNext ==
    \/ Next /\ UNCHANGED remoteVars
    \/ B!Next /\ UNCHANGED vars

\* The fairness of the server pane: dispatch loop, window and actors are scheduled.
PanesSpec ==
    /\ PanesInit /\ [][PanesNext]_<<vars, remoteVars>>
    /\ WF_remoteVars(B!Runtime) /\ WF_remoteVars(B!Window)
    /\ \A e \in B!Epochs : WF_remoteVars(B!Serve(e))

\* The server pane shows the server the tab is connected to, and at rest the
\* directory of its path bar, although actors of earlier sessions may still be
\* answering (accepts_remote_event, RemoteDirLoaded).
PaneShowsItsPlace == B!PaneShowsItsPlace

\* A connected server pane does not load for ever: every request is answered or
\* the session ends, also when the mailbox is full or gone.
LoadingEnds == B!LoadingEnds

\* A server pane that stays where its session changed something comes to show the
\* change, or says that it could not be loaded (the listing after an operation).
\* Exempted is an operation that failed part-way, until the next listing.
OwnChangesShow == B!OwnChangesShow

\* Others change the first directory of one server.
OneShared == {<<CHOOSE s \in Server : TRUE, Root>>}
=============================================================================
