------------------------------ MODULE LocalPane ------------------------------
(***************************************************************************)
(* The local pane of a tab. Directories are read, links followed and files *)
(* changed on background threads; each result comes back to the window     *)
(* some time later, when the user may be somewhere else. read_epoch tells  *)
(* the newest read from the ones it replaced.                              *)
(***************************************************************************)
EXTENDS PaneNavHistory, FiniteSets

CONSTANTS
    Dir,            \* directories
    MaxVersion,     \* bound: changes of one directory
    MaxActs         \* bound: requests of the user

ASSUME LocalAssumption ==
    /\ MaxVersion \in Nat /\ MaxActs \in Nat
    /\ None \notin Dir

VARIABLES
    pane,       \* LocalPaneState: path, entries (directory and version), error, read_epoch
    history,    \* nav.local
    reads,      \* directory reads that have not come back
    ops,        \* file operations that have not come back
    links,      \* symbolic links being followed
    disk,       \* for each directory how often it changed
    mine,       \* for each directory the version the user's last operation made
    strayed,    \* the code does not keep the listing up to date (see PaneSettles)
    acts        \* how often the user has acted

vars == <<pane, history, reads, ops, links, disk, mine, strayed, acts>>

Versions == 0 .. MaxVersion

Init ==
    /\ pane = [path |-> None, shows |-> None, version |-> 0, error |-> FALSE, epoch |-> 0]
    /\ history = NoHistory
    /\ reads = {} /\ ops = {} /\ links = {}
    /\ disk = [d \in Dir |-> 0]
    /\ mine = [d \in Dir |-> 0]
    /\ strayed = FALSE
    /\ acts = 0

-----------------------------------------------------------------------------
\* What the window does.

Act == acts < MaxActs /\ acts' = acts + 1

\* read_local_directory, the part before the read: begin_local_read. The result
\* of any other read is now obsolete.
ReadLocalDirectory(p, d) ==
    /\ pane' = [p EXCEPT !.epoch = @ + 1]
    /\ reads' = reads \cup {[epoch |-> p.epoch + 1, dir |-> d, at |-> "queued", version |-> 0]}
    /\ strayed' = (d # p.path)

\* set_local_path
SetLocalPath(d) == ReadLocalDirectory([pane EXCEPT !.path = d, !.error = FALSE], d)

\* navigate_pane_local(Push)
Push(d) ==
    /\ history' = PushNavigatingFrom(history, pane.path, d)
    /\ SetLocalPath(d)

Navigate(d) ==
    /\ Act
    /\ Push(d)
    /\ UNCHANGED <<ops, links, disk, mine>>

\* navigate_pane_local(Back)
NavigateBack ==
    /\ Act /\ pane.path # None /\ history.back # <<>>
    /\ history' = GoBack(history, pane.path)
    /\ SetLocalPath(Last(history.back))
    /\ UNCHANGED <<ops, links, disk, mine>>

\* navigate_pane_local(Forward)
NavigateForward ==
    /\ Act /\ pane.path # None /\ history.forward # <<>>
    /\ history' = GoForward(history, pane.path)
    /\ SetLocalPath(Last(history.forward))
    /\ UNCHANGED <<ops, links, disk, mine>>

\* refresh_focused_pane
Refresh ==
    /\ Act /\ pane.path # None
    /\ SetLocalPath(pane.path)
    /\ UNCHANGED <<history, ops, links, disk, mine>>

\* reload_visible_directories: a transfer has written into the directory of the pane.
ReloadAfterTransfer ==
    /\ Act /\ pane.path # None
    /\ ReadLocalDirectory(pane, pane.path)
    /\ UNCHANGED <<history, ops, links, disk, mine>>

\* open_local_symlink: a link of the listing shown, to the directory d.
OpenLocalSymlink(d) ==
    /\ Act /\ pane.shows \notin {None, d}
    /\ links' = links \cup {[parent |-> pane.shows, to |-> d]}
    /\ UNCHANGED <<pane, history, reads, ops, disk, mine, strayed>>

\* The target is known: the pane follows if it still shows the link's
\* directory. Other targets than directories do not move it.
LinkFollowed(l) ==
    /\ links' = links \ {l}
    /\ \/ pane.path = l.parent /\ Push(l.to)
       \/ UNCHANGED <<pane, history, reads, strayed>>
    /\ UNCHANGED <<ops, disk, mine, acts>>

\* execute_local_fs: rename and delete act on the listing shown, a new folder
\* on the path.
ExecuteLocalFs(d) ==
    /\ Act /\ d \in {pane.shows, pane.path} \ {None}
    /\ ops' = ops \cup {[id |-> acts, dir |-> d, at |-> "running"]}
    /\ UNCHANGED <<pane, history, reads, links, disk, mine, strayed>>

\* Mutant: the listing is not requested after an operation.
FsCompletesMut(o) ==
    /\ o.at # "running"
    /\ ops' = ops \ {o}
    /\ UNCHANGED <<pane, reads, history, links, disk, mine, strayed, acts>>

\* The operation's result: success reads its directory again, whatever the
\* pane shows by now; report_local_fs_failure only tells.
FsCompletes(o) ==
    /\ o.at # "running"
    /\ ops' = ops \ {o}
    /\ IF o.at = "done" THEN ReadLocalDirectory(pane, o.dir) ELSE UNCHANGED <<pane, reads, strayed>>
    /\ UNCHANGED <<history, links, disk, mine, acts>>

\* accepts_local_result
AcceptsLocalResult(r) == pane.epoch = r.epoch /\ pane.path = r.dir

\* read_local_directory, the part after the read.
ReadCompletes(r) ==
    /\ r.at # "queued"
    /\ reads' = reads \ {r}
    /\ pane' = IF ~AcceptsLocalResult(r) THEN pane
               ELSE IF r.at = "read"
                    THEN [pane EXCEPT !.shows = r.dir, !.version = r.version, !.error = FALSE]
                    ELSE [pane EXCEPT !.shows = None, !.version = 0, !.error = TRUE]
    /\ UNCHANGED <<history, ops, links, disk, mine, strayed, acts>>

-----------------------------------------------------------------------------
\* What the background threads and others do.

\* macsftp_platform::read_local_directory
ReadRuns(r) ==
    /\ r.at = "queued"
    /\ \E at \in {"read", "failed"} :
          reads' = (reads \ {r}) \cup {[r EXCEPT !.at = at, !.version = disk[r.dir]]}
    /\ UNCHANGED <<pane, history, ops, links, disk, mine, strayed, acts>>

\* execute_local_fs_operation: done, or failed with some entries deleted or none.
FsRuns(o) ==
    /\ o.at = "running"
    /\ \E at \in {"done", "failed"} :
          /\ ops' = (ops \ {o}) \cup {[o EXCEPT !.at = at]}
          /\ \/ /\ disk[o.dir] < MaxVersion
                /\ disk' = [disk EXCEPT ![o.dir] = @ + 1]
                /\ mine' = [mine EXCEPT ![o.dir] = disk[o.dir] + 1]
                /\ strayed' = (strayed \/ (at = "failed" /\ o.dir = pane.path))
             \/ /\ at = "failed"
                /\ UNCHANGED <<disk, mine, strayed>>
    /\ UNCHANGED <<pane, history, reads, links, acts>>

OthersChange(d) ==
    /\ disk[d] < MaxVersion
    /\ disk' = [disk EXCEPT ![d] = @ + 1]
    /\ UNCHANGED <<pane, history, reads, ops, links, mine, strayed, acts>>

-----------------------------------------------------------------------------
Next ==
    \/ \E d \in Dir : Navigate(d) \/ OpenLocalSymlink(d) \/ ExecuteLocalFs(d) \/ OthersChange(d)
    \/ NavigateBack \/ NavigateForward \/ Refresh \/ ReloadAfterTransfer
    \/ \E l \in links : LinkFollowed(l)
    \/ \E o \in ops : FsRuns(o) \/ FsCompletes(o)
    \/ \E r \in reads : ReadRuns(r) \/ ReadCompletes(r)

Spec == Init /\ [][Next]_vars

-----------------------------------------------------------------------------
Reads == [epoch : Nat, dir : Dir, at : {"queued", "read", "failed"}, version : Versions]
Ops == [id : Nat, dir : Dir, at : {"running", "done", "failed"}]

TypeOK ==
    /\ pane \in [path : Dir \cup {None}, shows : Dir \cup {None}, version : Versions,
                 error : BOOLEAN, epoch : Nat]
    /\ history \in [back : Seq(Dir), forward : Seq(Dir)]
    /\ reads \subseteq Reads
    /\ ops \subseteq Ops
    /\ links \subseteq [parent : Dir, to : Dir]
    /\ disk \in [Dir -> Versions]
    /\ mine \in [Dir -> Versions]
    /\ strayed \in BOOLEAN
    /\ acts \in 0 .. MaxActs

\* Once everything the user asked for has come back, the pane shows a listing
\* of its own path, with the changes the user made there, or says that it could
\* not be read (accepts_local_result, execute_local_fs). Two cases are exempted
\* until the pane's path is read again: an operation of another directory came
\* back, and the read of that directory made the one of the pane's path obsolete;
\* and an operation failed after it had changed some entries of the pane's path,
\* which is only reported.
PaneSettles ==
    reads = {} /\ ops = {} /\ ~strayed /\ pane.path # None /\ ~pane.error =>
        pane.shows = pane.path /\ pane.version >= mine[pane.path]

\* A newer listing of a directory is never replaced by an older one, in
\* whatever order the background reads finish (read_epoch).
ListingsNeverRegress ==
    [][pane'.shows = pane.shows => pane'.version >= pane.version]_vars

=============================================================================
