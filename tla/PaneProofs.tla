----------------------------- MODULE PaneProofs -----------------------------
(***************************************************************************)
(* The panes of a tab, for any directories, servers, and numbers of        *)
(* requests and changes. The local one: its listings never regress, and it *)
(* comes to rest on its own path with the user's changes, unless it has    *)
(* strayed. The server pane, in the instance B: it never shows a server    *)
(* the tab has left, and at rest it shows its own path.                    *)
(***************************************************************************)
EXTENDS MCPanes, TLAPS

\* Every read has an epoch of its own, none beyond the pane's.
EpochsUnique ==
    /\ \A r \in reads : r.epoch <= pane.epoch
    /\ \A r1, r2 \in reads : r1.epoch = r2.epoch => r1 = r2

\* Nothing read is newer than the disk.
NothingFromTheFuture ==
    /\ pane.shows # None => pane.version <= disk[pane.shows]
    /\ pane.shows = None => pane.version = 0
    /\ \A d \in Dir : mine[d] <= disk[d]
    /\ \A r \in reads : r.version <= disk[r.dir]

\* What the newest read brings is at least as new as what is shown.
NewestReadIsNewer ==
    \A r \in reads : r.epoch = pane.epoch /\ r.at = "read" /\ r.dir = pane.shows
                        => r.version >= pane.version

\* A version that has the user's changes, or a new read is about to be requested.
Fresh(v) == v >= mine[pane.path] \/ \E o \in ops : o.at = "done" /\ o.dir = pane.path

\* A pane that has not strayed: the newest read is of its path, and with no such
\* read it shows its path.
OnItsPath ==
    /\ \A r \in reads : r.epoch = pane.epoch =>
          r.dir = pane.path /\ (r.at = "read" => Fresh(r.version))
    /\ (\A r \in reads : r.epoch # pane.epoch) /\ pane.path # None /\ ~pane.error =>
          pane.shows = pane.path /\ Fresh(pane.version)

IInv ==
    /\ TypeOK /\ EpochsUnique /\ NothingFromTheFuture /\ NewestReadIsNewer
    /\ ~strayed => OnItsPath

-----------------------------------------------------------------------------
Panes == [path : Dir \cup {None}, shows : Dir \cup {None}, version : Versions,
          error : BOOLEAN, epoch : Nat]

\* What is left of a history without its last place, and that place.
LEMMA FrontIsSeq ==
    ASSUME NEW S, NEW s \in Seq(S), s # <<>>
    PROVE  Front(s) \in Seq(S) /\ Last(s) \in S
BY DEF Front, Last

Histories == [back : Seq(Dir), forward : Seq(Dir)]

\* A navigation leaves a well-formed history (push_navigating_from).
LEMMA PushTyped ==
    ASSUME HistoryAssumption, NEW h \in Histories, NEW from \in Dir \cup {None}, NEW d \in Dir
    PROVE  PushNavigatingFrom(h, from, d) \in Histories
<1>1. CASE from \in {None, d}
  BY <1>1 DEF PushNavigatingFrom
<1>2. CASE from \notin {None, d}
  <2> DEFINE all == Append(h.back, from)
             excess == IF Len(all) > HistoryCap THEN Len(all) - HistoryCap ELSE 0
  <2>1. all \in Seq(Dir) /\ Len(all) \in Nat
    BY <1>2 DEF Histories
  <2>2. excess \in Nat
    BY <2>1 DEF HistoryAssumption
  <2>3. SubSeq(all, excess + 1, Len(all)) \in Seq(Dir)
    BY <2>1, <2>2
  <2>4. PushNavigatingFrom(h, from, d)
          = [back |-> SubSeq(all, excess + 1, Len(all)), forward |-> <<>>]
    BY <1>2 DEF PushNavigatingFrom
  <2> HIDE DEF all, excess
  <2>5. QED
    BY <2>3, <2>4 DEF Histories
<1>3. QED
  BY <1>1, <1>2

\* So do back and forward (go_back, go_forward).
LEMMA GoTyped ==
    ASSUME NEW h \in Histories, NEW d \in Dir
    PROVE  /\ h.back # <<>> => GoBack(h, d) \in Histories
           /\ h.forward # <<>> => GoForward(h, d) \in Histories
<1>1. h.back \in Seq(Dir) /\ h.forward \in Seq(Dir)
  BY DEF Histories
<1>2. Append(h.back, d) \in Seq(Dir) /\ Append(h.forward, d) \in Seq(Dir)
  BY <1>1
<1>3. /\ h.back # <<>> => Front(h.back) \in Seq(Dir)
      /\ h.forward # <<>> => Front(h.forward) \in Seq(Dir)
  BY <1>1, FrontIsSeq
<1>4. QED
  BY <1>2, <1>3 DEF GoBack, GoForward, Histories

\* A request for a read, whatever else becomes of the pane's path. Only a request
\* for another directory than its own makes the pane stray.
LEMMA RequestKeeps ==
    ASSUME LocalAssumption, IInv, NEW d \in Dir, NEW p \in Panes,
           p.shows = pane.shows, p.version = pane.version, p.epoch = pane.epoch,
           ReadLocalDirectory(p, d), disk' = disk, mine' = mine
    PROVE  /\ pane' \in Panes /\ reads' \subseteq Reads /\ strayed' \in BOOLEAN
           /\ EpochsUnique' /\ NothingFromTheFuture' /\ NewestReadIsNewer'
           /\ ~strayed' => OnItsPath'
<1> DEFINE new == [epoch |-> p.epoch + 1, dir |-> d, at |-> "queued", version |-> 0]
<1>1. /\ reads' = reads \cup {new} /\ pane' = [p EXCEPT !.epoch = @ + 1]
      /\ new \in Reads
  BY DEF ReadLocalDirectory, Reads, Versions, IInv, TypeOK, LocalAssumption, Panes
<1>2. /\ pane'.epoch = pane.epoch + 1 /\ pane'.shows = pane.shows /\ pane'.version = pane.version
      /\ pane' \in Panes /\ pane'.path = p.path
  BY <1>1 DEF Panes
<1>3. reads \subseteq Reads /\ pane.epoch \in Nat
  BY DEF IInv, TypeOK
<1>4. \A r \in reads : r.epoch \in Nat /\ r.epoch < pane.epoch + 1
  BY <1>3 DEF IInv, EpochsUnique, Reads
<1>5. new.epoch = pane.epoch + 1 /\ new.at # "read" /\ new.dir = d
  OBVIOUS
<1> HIDE DEF new
<1>6. EpochsUnique'
  BY <1>1, <1>2, <1>3, <1>4, <1>5 DEF EpochsUnique, IInv
<1>7. NewestReadIsNewer'
  BY <1>1, <1>2, <1>4, <1>5 DEF NewestReadIsNewer
<1>8. NothingFromTheFuture'
  <2>1. new.version <= disk[new.dir]
    BY <1>5 DEF new, IInv, TypeOK, Versions, LocalAssumption
  <2>2. QED
    BY <1>1, <1>2, <2>1 DEF NothingFromTheFuture, IInv
<1>9. ~strayed' => OnItsPath'
  <2> HAVE ~strayed'
  <2>0. p.path = d
    BY DEF ReadLocalDirectory
  <2>1. \A r \in reads' : r.epoch = pane'.epoch => r = new
    BY <1>1, <1>2, <1>4
  <2>2. \E r \in reads' : r.epoch = pane'.epoch
    BY <1>1, <1>2, <1>5
  <2>3. QED
    BY <1>2, <1>5, <2>0, <2>1, <2>2 DEF OnItsPath
<1>10. strayed' \in BOOLEAN
  BY DEF ReadLocalDirectory
<1>11. QED
  BY <1>1, <1>2, <1>3, <1>6, <1>7, <1>8, <1>9, <1>10

\* set_local_path keeps the invariant for every way to choose the directory.
LEMMA SetPathKeeps ==
    ASSUME LocalAssumption, IInv, NEW d \in Dir, SetLocalPath(d), disk' = disk, mine' = mine,
           ops' = ops, links' \subseteq links, history' \in Histories, acts' \in 0 .. MaxActs
    PROVE  IInv'
<1> DEFINE p == [pane EXCEPT !.path = d, !.error = FALSE]
<1>1. p \in Panes /\ p.shows = pane.shows /\ p.version = pane.version /\ p.epoch = pane.epoch
      /\ p.path = d
  BY DEF IInv, TypeOK, Panes
<1>2. ReadLocalDirectory(p, d)
  BY DEF SetLocalPath
<1> HIDE DEF p
<1>3. /\ pane' \in Panes /\ reads' \subseteq Reads /\ strayed' \in BOOLEAN
      /\ EpochsUnique' /\ NothingFromTheFuture' /\ NewestReadIsNewer'
      /\ ~strayed' => OnItsPath'
  BY <1>1, <1>2, RequestKeeps
<1>4. TypeOK'
  BY <1>3 DEF TypeOK, IInv, Panes, Histories
<1>5. QED
  BY <1>3, <1>4 DEF IInv

-----------------------------------------------------------------------------
\* One lemma for each action.

\* Navigation and refresh request a read with a new epoch of the place the pane names.
LEMMA GoingKeeps ==
    ASSUME LocalAssumption, HistoryAssumption, IInv,
           (\E d \in Dir : Navigate(d)) \/ NavigateBack \/ NavigateForward \/ Refresh
    PROVE  IInv'
<1>1. /\ history \in Histories /\ pane.path \in Dir \cup {None} /\ acts \in 0 .. MaxActs
  BY DEF IInv, TypeOK, Histories
<1>2. Act => acts' \in 0 .. MaxActs
  BY <1>1 DEF Act, LocalAssumption
<1>3. ASSUME NEW d \in Dir, Navigate(d) PROVE IInv'
  <2>1. history' \in Histories
    BY <1>1, <1>3, PushTyped DEF Navigate, Push
  <2>2. QED
    BY <1>2, <1>3, <2>1, SetPathKeeps DEF Navigate, Push
<1>4. CASE NavigateBack
  <2>1. history.back \in Seq(Dir) /\ history.back # <<>> /\ pane.path \in Dir
    BY <1>1, <1>4 DEF NavigateBack, Histories
  <2>2. Last(history.back) \in Dir /\ history' \in Histories
    BY <1>1, <1>4, <2>1, FrontIsSeq, GoTyped DEF NavigateBack
  <2>3. QED
    BY <1>2, <1>4, <2>2, SetPathKeeps DEF NavigateBack
<1>5. CASE NavigateForward
  <2>1. history.forward \in Seq(Dir) /\ history.forward # <<>> /\ pane.path \in Dir
    BY <1>1, <1>5 DEF NavigateForward, Histories
  <2>2. Last(history.forward) \in Dir /\ history' \in Histories
    BY <1>1, <1>5, <2>1, FrontIsSeq, GoTyped DEF NavigateForward
  <2>3. QED
    BY <1>2, <1>5, <2>2, SetPathKeeps DEF NavigateForward
<1>6. CASE Refresh
  BY <1>1, <1>2, <1>6, SetPathKeeps DEF Refresh
<1>7. QED
  BY <1>3, <1>4, <1>5, <1>6

\* So does the reload after a transfer.
LEMMA ReloadKeeps ==
    ASSUME LocalAssumption, IInv, ReloadAfterTransfer
    PROVE  IInv'
<1>1. pane \in Panes /\ pane.path \in Dir
  BY DEF IInv, TypeOK, Panes, ReloadAfterTransfer
<1>2. /\ pane' \in Panes /\ reads' \subseteq Reads /\ strayed' \in BOOLEAN
      /\ EpochsUnique' /\ NothingFromTheFuture' /\ NewestReadIsNewer'
      /\ ~strayed' => OnItsPath'
  BY <1>1, RequestKeeps DEF ReloadAfterTransfer
<1>3. acts' \in 0 .. MaxActs
  BY DEF IInv, TypeOK, ReloadAfterTransfer, Act, LocalAssumption
<1>4. QED
  BY <1>2, <1>3 DEF IInv, TypeOK, Panes, ReloadAfterTransfer

\* A link check that begins touches neither pane nor reads.
LEMMA OpenLinkKeeps ==
    ASSUME LocalAssumption, IInv, NEW d \in Dir, OpenLocalSymlink(d)
    PROVE  IInv'
<1>1. TypeOK'
  BY DEF IInv, TypeOK, OpenLocalSymlink, Act, LocalAssumption
<1>2. EpochsUnique' /\ NothingFromTheFuture' /\ NewestReadIsNewer'
  BY DEF IInv, OpenLocalSymlink, EpochsUnique, NothingFromTheFuture, NewestReadIsNewer
<1>3. ~strayed' => OnItsPath'
  BY DEF IInv, OpenLocalSymlink, OnItsPath, Fresh
<1>4. QED
  BY <1>1, <1>2, <1>3 DEF IInv

\* A link that was checked navigates only where it was opened.
LEMMA LinkFollowedKeeps ==
    ASSUME LocalAssumption, HistoryAssumption, IInv, NEW l \in links, LinkFollowed(l)
    PROVE  IInv'
<1>1. /\ history \in Histories /\ pane.path \in Dir \cup {None} /\ acts' \in 0 .. MaxActs
      /\ l.to \in Dir
  BY DEF IInv, TypeOK, Histories, LinkFollowed
<1>2. CASE Push(l.to)
  <2>1. history' \in Histories
    BY <1>1, <1>2, PushTyped DEF Push
  <2>2. QED
    BY <1>1, <1>2, <2>1, SetPathKeeps DEF Push, LinkFollowed
<1>3. CASE UNCHANGED <<pane, history, reads, strayed>>
  <2>1. TypeOK'
    BY <1>3 DEF IInv, TypeOK, LinkFollowed
  <2>2. EpochsUnique' /\ NothingFromTheFuture' /\ NewestReadIsNewer'
    BY <1>3 DEF IInv, LinkFollowed, EpochsUnique, NothingFromTheFuture, NewestReadIsNewer
  <2>3. ~strayed' => OnItsPath'
    BY <1>3 DEF IInv, LinkFollowed, OnItsPath, Fresh
  <2>4. QED
    BY <2>1, <2>2, <2>3 DEF IInv
<1>4. QED
  BY <1>2, <1>3 DEF LinkFollowed

\* A file operation that begins touches neither pane nor reads.
LEMMA ExecuteKeeps ==
    ASSUME LocalAssumption, IInv, NEW d \in Dir, ExecuteLocalFs(d)
    PROVE  IInv'
<1> DEFINE new == [id |-> acts, dir |-> d, at |-> "running"]
<1>1. new \in Ops /\ new.dir = d /\ new.at # "done" /\ ops' = ops \cup {new}
  BY DEF IInv, TypeOK, ExecuteLocalFs, Ops
<1> HIDE DEF new
<1>2. TypeOK'
  BY <1>1 DEF IInv, TypeOK, ExecuteLocalFs, Act, LocalAssumption
<1>3. EpochsUnique' /\ NothingFromTheFuture' /\ NewestReadIsNewer'
  BY DEF IInv, ExecuteLocalFs, EpochsUnique, NothingFromTheFuture, NewestReadIsNewer
<1>4. ~strayed' => OnItsPath'
  BY <1>1 DEF IInv, ExecuteLocalFs, OnItsPath, Fresh
<1>5. QED
  BY <1>2, <1>3, <1>4 DEF IInv

\* The thread of an operation makes a new version of its directory.
LEMMA FsRunsKeeps ==
    ASSUME LocalAssumption, IInv, NEW o \in ops, FsRuns(o)
    PROVE  IInv'
<1>1. /\ o \in Ops /\ o.dir \in Dir /\ disk \in [Dir -> Versions] /\ mine \in [Dir -> Versions]
      /\ pane \in Panes /\ reads \subseteq Reads
  BY DEF IInv, TypeOK, Ops, Panes
<1>2. PICK at \in {"done", "failed"} :
        /\ ops' = (ops \ {o}) \cup {[o EXCEPT !.at = at]}
        /\ \/ /\ disk[o.dir] < MaxVersion
              /\ disk' = [disk EXCEPT ![o.dir] = @ + 1]
              /\ mine' = [mine EXCEPT ![o.dir] = disk[o.dir] + 1]
              /\ strayed' = (strayed \/ (at = "failed" /\ o.dir = pane.path))
           \/ at = "failed" /\ UNCHANGED <<disk, mine, strayed>>
  BY DEF FsRuns
<1> DEFINE new == [o EXCEPT !.at = at]
<1>3. new \in Ops /\ new.dir = o.dir /\ new.at = at
  BY <1>1 DEF Ops
<1> HIDE DEF new
<1>4. ops' = (ops \ {o}) \cup {new}
  BY <1>2 DEF new
<1>5. /\ disk' \in [Dir -> Versions] /\ mine' \in [Dir -> Versions]
      /\ \A d \in Dir : disk'[d] >= disk[d] /\ mine'[d] <= disk'[d]
  BY <1>1, <1>2 DEF Versions, LocalAssumption, IInv, NothingFromTheFuture
<1>6. TypeOK'
  <2>1. strayed' \in BOOLEAN
    BY <1>2 DEF IInv, TypeOK
  <2>2. QED
    BY <1>3, <1>4, <1>5, <2>1 DEF IInv, TypeOK, FsRuns
<1>7. EpochsUnique' /\ NewestReadIsNewer'
  BY DEF IInv, FsRuns, EpochsUnique, NewestReadIsNewer
<1>8. NothingFromTheFuture'
  <2>1. pane' = pane /\ reads' = reads
    BY DEF FsRuns
  <2>2. pane.shows # None => pane.version <= disk'[pane.shows]
    BY <1>1, <1>5 DEF IInv, NothingFromTheFuture, Panes, Versions, LocalAssumption
  <2>3. \A r \in reads : r.version <= disk'[r.dir]
    BY <1>1, <1>5 DEF IInv, NothingFromTheFuture, Reads, Versions, LocalAssumption
  <2>4. QED
    BY <1>5, <2>1, <2>2, <2>3 DEF NothingFromTheFuture, IInv
<1>9. ~strayed' => OnItsPath'
  <2> HAVE ~strayed'
  <2>1. ~strayed /\ (mine' = mine \/ (mine' = [mine EXCEPT ![o.dir] = disk[o.dir] + 1]
                                      /\ ~(at = "failed" /\ o.dir = pane.path)))
    BY <1>2 DEF IInv, TypeOK
  <2>2. OnItsPath /\ UNCHANGED <<pane, reads, links>>
    BY <2>1 DEF IInv, FsRuns
  <2>3. ASSUME pane.path \in Dir
        PROVE  mine'[pane.path] = mine[pane.path] \/ (at = "done" /\ o.dir = pane.path)
    BY <1>1, <1>2, <2>1, <2>3
  <2>4. o.at # "done"
    BY DEF FsRuns
  <2>5. pane.path \in Dir => \A v : Fresh(v) => Fresh(v)'
    BY <1>3, <1>4, <2>2, <2>3, <2>4 DEF Fresh
  <2>6. \A r \in reads : r.dir \in Dir
    BY <1>1 DEF Reads
  <2>7. pane.path # None => pane.path \in Dir
    BY <1>1 DEF Panes
  <2>8. QED
    BY <2>2, <2>5, <2>6, <2>7 DEF OnItsPath
<1>10. QED
  BY <1>6, <1>7, <1>8, <1>9 DEF IInv

\* The end of an operation requests a newer read than any under way.
LEMMA FsCompletesKeeps ==
    ASSUME LocalAssumption, IInv, NEW o \in ops, FsCompletes(o)
    PROVE  IInv'
<1>1. /\ o \in Ops /\ o.dir \in Dir /\ pane \in Panes /\ ops' \subseteq ops
      /\ UNCHANGED <<history, links, disk, mine, acts>>
  BY DEF IInv, TypeOK, Ops, Panes, FsCompletes
<1>2. CASE o.at = "done"
  <2>1. ReadLocalDirectory(pane, o.dir)
    BY <1>2 DEF FsCompletes
  <2>2. /\ pane' \in Panes /\ reads' \subseteq Reads /\ strayed' \in BOOLEAN
        /\ EpochsUnique' /\ NothingFromTheFuture' /\ NewestReadIsNewer'
        /\ ~strayed' => OnItsPath'
    BY <1>1, <2>1, RequestKeeps
  <2>3. QED
    BY <1>1, <2>2 DEF IInv, TypeOK, Panes
<1>3. CASE o.at # "done"
  <2>1. UNCHANGED <<pane, reads, strayed>> /\ ops' = ops \ {o}
    BY <1>3 DEF FsCompletes
  <2>2. TypeOK' /\ EpochsUnique' /\ NothingFromTheFuture' /\ NewestReadIsNewer'
    BY <1>1, <2>1 DEF IInv, TypeOK, EpochsUnique, NothingFromTheFuture, NewestReadIsNewer
  <2>3. ~strayed' => OnItsPath'
    BY <1>1, <1>3, <2>1 DEF IInv, OnItsPath, Fresh
  <2>4. QED
    BY <2>2, <2>3 DEF IInv
<1>4. QED
  BY <1>2, <1>3

\* A thread that reads finds the present version, which no listing is newer than.
LEMMA ReadRunsKeeps ==
    ASSUME LocalAssumption, IInv, NEW r \in reads, ReadRuns(r)
    PROVE  IInv'
<1>1. /\ r \in Reads /\ r.dir \in Dir /\ disk \in [Dir -> Versions] /\ mine \in [Dir -> Versions]
      /\ pane \in Panes /\ reads \subseteq Reads
      /\ UNCHANGED <<pane, history, ops, links, disk, mine, strayed, acts>>
  BY DEF IInv, TypeOK, Reads, Panes, ReadRuns
<1>2. PICK at \in {"read", "failed"} :
        reads' = (reads \ {r}) \cup {[r EXCEPT !.at = at, !.version = disk[r.dir]]}
  BY DEF ReadRuns
<1> DEFINE new == [r EXCEPT !.at = at, !.version = disk[r.dir]]
<1>3. disk[r.dir] \in Versions
  BY <1>1
<1>4. /\ new \in Reads /\ new.epoch = r.epoch /\ new.dir = r.dir /\ new.version = disk[r.dir]
  BY <1>1, <1>3 DEF Reads
<1>5. reads' = (reads \ {r}) \cup {new}
  BY <1>2
<1> HIDE DEF new
<1>6. TypeOK'
  BY <1>1, <1>4, <1>5 DEF IInv, TypeOK
<1>7. EpochsUnique'
  BY <1>1, <1>4, <1>5 DEF IInv, EpochsUnique
<1>8. NothingFromTheFuture'
  BY <1>1, <1>3, <1>4, <1>5 DEF IInv, NothingFromTheFuture, Versions
<1>9. NewestReadIsNewer'
  BY <1>1, <1>4, <1>5 DEF IInv, NewestReadIsNewer, NothingFromTheFuture, Versions, Panes, LocalAssumption
<1>10. ~strayed' => OnItsPath'
  <2> HAVE ~strayed'
  <2>1. OnItsPath /\ \A v : Fresh(v)' <=> Fresh(v)
    BY <1>1 DEF IInv, Fresh
  <2>2. Fresh(disk[r.dir]) \/ pane.path # r.dir
    BY <1>1 DEF Fresh, IInv, NothingFromTheFuture, Versions
  <2>3. \A x \in reads' : x.epoch = pane'.epoch =>
            x.dir = pane'.path /\ (x.at = "read" => Fresh(x.version)')
    BY <1>1, <1>4, <1>5, <2>1, <2>2 DEF OnItsPath
  <2>4. (\A x \in reads' : x.epoch # pane'.epoch) => (\A x \in reads : x.epoch # pane.epoch)
    BY <1>1, <1>4, <1>5
  <2>5. QED
    BY <1>1, <2>1, <2>3, <2>4 DEF OnItsPath
<1>11. QED
  BY <1>6, <1>7, <1>8, <1>9, <1>10 DEF IInv

\* A listing is shown if it is of the newest request, and dropped otherwise.
LEMMA ReadCompletesKeeps ==
    ASSUME LocalAssumption, IInv, NEW r \in reads, ReadCompletes(r)
    PROVE  IInv'
<1>1. /\ r \in Reads /\ r.dir \in Dir /\ pane \in Panes /\ reads \subseteq Reads
      /\ disk \in [Dir -> Versions]
      /\ reads' = reads \ {r} /\ UNCHANGED <<history, ops, links, disk, mine, strayed, acts>>
  BY DEF IInv, TypeOK, Reads, Panes, ReadCompletes
<1>2. /\ pane' \in Panes /\ pane'.epoch = pane.epoch /\ pane'.path = pane.path
      /\ \/ pane' = pane /\ ~AcceptsLocalResult(r)
         \/ /\ r.at = "read" /\ AcceptsLocalResult(r)
            /\ pane'.shows = r.dir /\ pane'.version = r.version /\ ~pane'.error
         \/ /\ r.at = "failed" /\ AcceptsLocalResult(r)
            /\ pane'.shows = None /\ pane'.version = 0 /\ pane'.error
  <2>1. CASE ~AcceptsLocalResult(r)
    BY <1>1, <2>1 DEF ReadCompletes
  <2>2. CASE AcceptsLocalResult(r) /\ r.at = "read"
    <3>1. pane' = [pane EXCEPT !.shows = r.dir, !.version = r.version, !.error = FALSE]
      BY <2>2 DEF ReadCompletes
    <3>2. r.version \in Versions
      BY <1>1 DEF Reads
    <3>3. QED
      BY <1>1, <2>2, <3>1, <3>2 DEF Panes
  <2>3. CASE AcceptsLocalResult(r) /\ r.at # "read"
    <3>1. pane' = [pane EXCEPT !.shows = None, !.version = 0, !.error = TRUE]
      BY <2>3 DEF ReadCompletes
    <3>2. 0 \in Versions /\ r.at = "failed"
      BY <1>1, <2>3 DEF Reads, Versions, LocalAssumption, ReadCompletes
    <3>3. QED
      BY <1>1, <2>3, <3>1, <3>2 DEF Panes
  <2>4. QED
    BY <2>1, <2>2, <2>3
<1>3. TypeOK'
  BY <1>1, <1>2 DEF IInv, TypeOK, Panes
<1>4. EpochsUnique'
  BY <1>1, <1>2 DEF IInv, EpochsUnique
<1>5. AcceptsLocalResult(r) => \A x \in reads' : x.epoch # pane'.epoch
  BY <1>1, <1>2 DEF IInv, EpochsUnique, AcceptsLocalResult
<1>6. NewestReadIsNewer'
  BY <1>1, <1>2, <1>5 DEF IInv, NewestReadIsNewer
<1>7. NothingFromTheFuture'
  BY <1>1, <1>2 DEF IInv, NothingFromTheFuture
<1>8. ~strayed' => OnItsPath'
  <2> HAVE ~strayed'
  <2>1. OnItsPath /\ \A v : Fresh(v)' <=> Fresh(v)
    BY <1>1, <1>2 DEF IInv, Fresh
  <2>2. CASE AcceptsLocalResult(r)
    <3>1. r.at = "read" => r.dir = pane.path /\ Fresh(r.version)
      BY <2>1, <2>2 DEF OnItsPath, AcceptsLocalResult
    <3>2. QED
      BY <1>1, <1>2, <1>5, <2>1, <2>2, <3>1 DEF OnItsPath
  <2>3. CASE ~AcceptsLocalResult(r)
    <3>1. pane' = pane
      BY <1>2, <2>3
    <3>2. r.epoch # pane.epoch
      BY <2>1, <2>3 DEF OnItsPath, AcceptsLocalResult
    <3>3. QED
      BY <1>1, <2>1, <3>1, <3>2 DEF OnItsPath
  <2>4. QED
    BY <2>2, <2>3
<1>9. QED
  BY <1>3, <1>4, <1>6, <1>7, <1>8 DEF IInv

\* A change by others makes a version nobody has read.
LEMMA OthersKeep ==
    ASSUME LocalAssumption, IInv, NEW d \in Dir, OthersChange(d)
    PROVE  IInv'
<1>1. /\ disk \in [Dir -> Versions] /\ mine \in [Dir -> Versions]
      /\ pane \in Panes /\ reads \subseteq Reads
  BY DEF IInv, TypeOK, Panes
<1>2. disk' \in [Dir -> Versions] /\ \A x \in Dir : disk'[x] >= disk[x]
  BY <1>1 DEF OthersChange, Versions, LocalAssumption
<1>3. UNCHANGED <<pane, history, reads, ops, links, mine, strayed, acts>>
  BY DEF OthersChange
<1>4. TypeOK' /\ EpochsUnique' /\ NewestReadIsNewer'
  BY <1>2, <1>3 DEF IInv, TypeOK, EpochsUnique, NewestReadIsNewer
<1>5. NothingFromTheFuture'
  <2>1. pane.shows # None => pane.version <= disk'[pane.shows]
    BY <1>1, <1>2 DEF IInv, NothingFromTheFuture, Panes, Versions, LocalAssumption
  <2>2. \A r \in reads : r.version <= disk'[r.dir]
    BY <1>1, <1>2 DEF IInv, NothingFromTheFuture, Reads, Versions, LocalAssumption
  <2>3. \A x \in Dir : mine[x] <= disk'[x]
    BY <1>1, <1>2 DEF IInv, NothingFromTheFuture, Versions, LocalAssumption
  <2>4. QED
    BY <1>3, <2>1, <2>2, <2>3 DEF NothingFromTheFuture, IInv
<1>6. ~strayed' => OnItsPath'
  BY <1>3 DEF IInv, OnItsPath, Fresh
<1>7. QED
  BY <1>4, <1>5, <1>6 DEF IInv

-----------------------------------------------------------------------------
\* At first nothing is read, shown or under way.
LEMMA InitHolds ==
    ASSUME LocalAssumption, Init
    PROVE  IInv
<1>1. TypeOK
  <2>1. strayed \in BOOLEAN
    BY DEF Init
  <2>2. QED
    BY <2>1 DEF Init, TypeOK, Versions, LocalAssumption, NoHistory
<1>2. EpochsUnique /\ NewestReadIsNewer
  BY DEF Init, EpochsUnique, NewestReadIsNewer
<1>3. NothingFromTheFuture
  BY DEF Init, NothingFromTheFuture
<1>4. OnItsPath
  BY DEF Init, OnItsPath
<1>5. QED
  BY <1>1, <1>2, <1>3, <1>4 DEF IInv

\* Every step keeps the invariant of the local pane.
LEMMA StepKeeps ==
    ASSUME LocalAssumption, HistoryAssumption, IInv, [Next]_vars
    PROVE  IInv'
<1>1. CASE UNCHANGED vars
  BY <1>1 DEF IInv, TypeOK, EpochsUnique, NothingFromTheFuture, NewestReadIsNewer, OnItsPath, Fresh, vars
<1>2. CASE Next
  BY <1>2, GoingKeeps, ReloadKeeps, OpenLinkKeeps, LinkFollowedKeeps, ExecuteKeeps, FsRunsKeeps,
     FsCompletesKeeps, ReadRunsKeeps, ReadCompletesKeeps, OthersKeep DEF Next
<1>3. QED
  BY <1>1, <1>2

\* The inductive invariant of the local pane, for any directories, requests and
\* orders in which the background work finishes.
THEOREM LocalInvariance == Spec => []IInv
<1>1. Init => IInv
  BY LocalAssumption, InitHolds
<1>2. IInv /\ [Next]_vars => IInv'
  BY LocalAssumption, HistoryAssumption, StepKeeps
<1>3. QED
  BY <1>1, <1>2, PTL DEF Spec

\* The local pane's state keeps its type.
THEOREM LocalTypeCorrect == Spec => []TypeOK
<1>1. IInv => TypeOK
  BY DEF IInv
<1>2. QED
  BY <1>1, LocalInvariance, PTL

\* Once everything has come back, a pane that has not strayed shows the directory of
\* its path bar with the changes the user made there, also those of operations that
\* failed part-way before the directory was read again (accepts_local_result).
THEOREM PaneAlwaysSettles == Spec => []PaneSettles
<1>1. IInv => PaneSettles
  <2> SUFFICES ASSUME IInv, reads = {}, ops = {}, ~strayed, pane.path # None, ~pane.error
               PROVE  pane.shows = pane.path /\ pane.version >= mine[pane.path]
    BY DEF PaneSettles
  <2>1. QED
    BY DEF IInv, OnItsPath, Fresh
<1>2. QED
  BY <1>1, LocalInvariance, PTL

\* No listing is replaced by an older one of the same directory, also when the
\* user goes elsewhere while reads and operations are under way.
THEOREM LocalListingsNeverRegress == Spec => ListingsNeverRegress
<1> DEFINE Keeps == pane'.shows = pane.shows => pane'.version >= pane.version
<1>1. IInv /\ [Next]_vars => Keeps
  <2> SUFFICES ASSUME IInv, [Next]_vars, pane'.shows = pane.shows
               PROVE  pane'.version >= pane.version
    OBVIOUS
  <2>1. pane \in Panes /\ pane.version \in Nat
    BY DEF IInv, TypeOK, Panes, Versions
  <2>2. ASSUME NEW p, NEW d, p \in Panes, p.version = pane.version, ReadLocalDirectory(p, d)
        PROVE  pane'.version = pane.version
    BY <2>2 DEF ReadLocalDirectory, Panes
  <2>3. ASSUME NEW d \in Dir \cup {None}, SetLocalPath(d) PROVE pane'.version = pane.version
    <3>1. /\ [pane EXCEPT !.path = d, !.error = FALSE] \in Panes
          /\ [pane EXCEPT !.path = d, !.error = FALSE].version = pane.version
      BY <2>1 DEF Panes
    <3>2. QED
      BY <2>2, <2>3, <3>1 DEF SetLocalPath
  <2>4. ASSUME NEW r \in reads, ReadCompletes(r) PROVE pane'.version >= pane.version
    <3>1. r \in Reads
      BY DEF IInv, TypeOK
    <3>2. CASE ~AcceptsLocalResult(r)
      BY <2>1, <2>4, <3>2 DEF ReadCompletes
    <3>3. CASE AcceptsLocalResult(r) /\ r.at = "read"
      <4>1. pane' = [pane EXCEPT !.shows = r.dir, !.version = r.version, !.error = FALSE]
        BY <2>4, <3>3 DEF ReadCompletes
      <4>2. pane'.version = r.version /\ r.dir = pane.shows
        BY <2>1, <4>1 DEF Panes
      <4>3. QED
        BY <3>3, <4>2 DEF IInv, NewestReadIsNewer, AcceptsLocalResult
    <3>4. CASE AcceptsLocalResult(r) /\ r.at # "read"
      <4>1. pane' = [pane EXCEPT !.shows = None, !.version = 0, !.error = TRUE]
        BY <2>4, <3>4 DEF ReadCompletes
      <4>2. pane'.version = 0 /\ pane.shows = None
        BY <2>1, <4>1 DEF Panes
      <4>3. QED
        BY <4>2 DEF IInv, NothingFromTheFuture
    <3>5. QED
      BY <3>2, <3>3, <3>4
  <2>5. history.back \in Seq(Dir) /\ history.forward \in Seq(Dir)
    BY DEF IInv, TypeOK
  <2>6. CASE \E d \in Dir : Navigate(d)
    BY <2>1, <2>3, <2>6 DEF Navigate, Push
  <2>7. CASE NavigateBack \/ NavigateForward \/ Refresh
    <3>1. CASE NavigateBack
      <4>1. SetLocalPath(Last(history.back)) /\ history.back # <<>>
        BY <3>1 DEF NavigateBack
      <4>2. Last(history.back) \in Dir
        <5>1. history.back \in Seq(Dir)
          BY <2>5
        <5>2. QED
          BY <4>1, <5>1, FrontIsSeq
      <4>3. pane'.version = pane.version
        BY <2>3, <4>1, <4>2
      <4>4. QED
        BY <2>1, <4>3
    <3>2. CASE NavigateForward
      <4>1. SetLocalPath(Last(history.forward)) /\ history.forward # <<>>
        BY <3>2 DEF NavigateForward
      <4>2. Last(history.forward) \in Dir
        <5>1. history.forward \in Seq(Dir)
          BY <2>5
        <5>2. QED
          BY <4>1, <5>1, FrontIsSeq
      <4>3. pane'.version = pane.version
        BY <2>3, <4>1, <4>2
      <4>4. QED
        BY <2>1, <4>3
    <3>3. CASE Refresh
      <4>1. pane.path \in Dir \cup {None} /\ SetLocalPath(pane.path)
        BY <2>1, <3>3 DEF Refresh, Panes
      <4>2. QED
        BY <2>1, <2>3, <4>1
    <3>4. QED
      BY <2>7, <3>1, <3>2, <3>3
  <2>8. CASE ReloadAfterTransfer
    BY <2>1, <2>2, <2>8 DEF ReloadAfterTransfer
  <2>9. ASSUME NEW l \in links, LinkFollowed(l) PROVE pane'.version = pane.version
    <3>1. l.to \in Dir
      BY DEF IInv, TypeOK
    <3>2. QED
      BY <2>3, <2>9, <3>1 DEF LinkFollowed, Push
  <2>10. ASSUME NEW o \in ops, FsCompletes(o) PROVE pane'.version = pane.version
    BY <2>1, <2>2, <2>10 DEF FsCompletes
  <2>11. CASE pane' = pane
    BY <2>1, <2>11
  <2>12. CASE Next
    <3>1. ASSUME NEW d \in Dir, OpenLocalSymlink(d) \/ ExecuteLocalFs(d) \/ OthersChange(d)
          PROVE  pane' = pane
      BY <3>1 DEF OpenLocalSymlink, ExecuteLocalFs, OthersChange
    <3>2. ASSUME NEW o \in ops, FsRuns(o) PROVE pane' = pane
      BY <3>2 DEF FsRuns
    <3>3. ASSUME NEW r \in reads, ReadRuns(r) PROVE pane' = pane
      BY <3>3 DEF ReadRuns
    <3>4. \A v : v = pane.version => v >= pane.version
      BY <2>1
    <3> HIDE DEF Keeps
    <3>5. QED
      BY <2>4, <2>6, <2>7, <2>8, <2>9, <2>10, <2>11, <2>12, <3>1, <3>2, <3>3, <3>4 DEF Next
  <2>13. QED
    BY <2>11, <2>12 DEF vars
<1>2. IInv /\ [Next]_vars => [Keeps]_vars
  BY <1>1
<1>3. QED
  BY <1>2, LocalInvariance, PTL DEF Spec, ListingsNeverRegress

-----------------------------------------------------------------------------
(* The server pane. *)

\* What BrowseAssumption says of the constants, as far as it is needed.
RemoteConstants ==
    /\ Root \in Dir /\ None \notin Server
    /\ MaxEpoch \in Nat /\ MaxChanges \in Nat /\ MaxMoves \in Nat

\* While the tab stays in its epoch, timely things stay timely.
LEMMA SameEpoch ==
    ASSUME tab'.epoch = tab.epoch, tab'.server = tab.server
    PROVE  /\ B!TimelyCommands' = B!TimelyCommands /\ B!TimelyEvents' = B!TimelyEvents
           /\ (\A e, s : B!OfItsServer(e, s)' = B!OfItsServer(e, s))
<1>1. \A e, s : B!OfItsServer(e, s)' = B!OfItsServer(e, s)
  BY DEF B!OfItsServer
<1>2. B!TimelyCommands' = B!TimelyCommands
  BY <1>1 DEF B!TimelyCommands
<1>3. B!TimelyEvents' = B!TimelyEvents
  BY <1>1 DEF B!TimelyEvents
<1> QED BY <1>1, <1>2, <1>3

\* Requests that are sent do not tell an epoch, or are made in the present one.
LEMMA RequestsTimely ==
    B!Requests \subseteq B!TimelyCommands /\ [kind |-> "disconnect"] \in B!TimelyCommands
BY DEF B!Requests, B!TimelyCommands, B!Commands

\* A queue with one more member.
LEMMA SendsOne ==
    ASSUME NEW S, NEW q \in Seq(S), NEW x \in S
    PROVE  Append(q, x) \in Seq(S)
OBVIOUS

\* A queue without its first member, and that member.
LEMMA TakesOne ==
    ASSUME NEW S, NEW q \in Seq(S), q # <<>>
    PROVE  Tail(q) \in Seq(S) /\ Head(q) \in S
OBVIOUS

\* A queue of members of a set is one of members of a larger set.
LEMMA MoreOnes ==
    ASSUME NEW S, NEW T, S \subseteq T, NEW q \in Seq(S)
    PROVE  q \in Seq(T)
OBVIOUS

\* The window and the user act, and the tab stays in its epoch.
LEMMA WindowKeeps ==
    ASSUME B!PlaceInv, tab' \in B!Tabs, tab'.epoch = tab.epoch, tab'.server = tab.server,
           tab'.connection # "empty" => tab.connection # "empty",
           trail' \in Histories, dialog' \in B!Dialogs, moves' \in 0 .. MaxMoves,
           commands' \in Seq(B!TimelyCommands), events' \in Seq(B!TimelyEvents),
           UNCHANGED <<session, actor, version, made, torn>>, B!PaneShowsItsPlace'
    PROVE  B!PlaceInv'
<1>1. /\ B!TimelyCommands' = B!TimelyCommands /\ B!TimelyEvents' = B!TimelyEvents
      /\ (\A e, s : B!OfItsServer(e, s)' = B!OfItsServer(e, s))
  BY SameEpoch
<1>2. commands' \in Seq(B!Commands) /\ events' \in Seq(B!Events)
  BY MoreOnes DEF B!TimelyCommands, B!TimelyEvents
<1>3. B!TypeOK'
  BY <1>2 DEF B!PlaceInv, B!TypeOK, Histories
<1>4. B!TimelyActors'
  BY <1>1 DEF B!PlaceInv, B!TimelyActors
<1> QED BY <1>1, <1>3, <1>4 DEF B!PlaceInv

\* The runtime, the actors and the server act.
LEMMA RuntimeKeeps ==
    ASSUME B!PlaceInv, UNCHANGED <<tab, trail, dialog, moves>>,
           commands' \in Seq(B!TimelyCommands), events' \in Seq(B!TimelyEvents),
           session' \in 0 .. MaxEpoch, actor' \in [B!Epochs -> B!Actors], B!TimelyActors',
           version' \in [Server -> [Dir -> 0 .. MaxChanges]],
           made' \in [B!Epochs -> [Dir -> 0 .. MaxChanges]],
           torn' \subseteq B!Epochs \X Dir
    PROVE  B!PlaceInv'
<1>1. B!TimelyCommands' = B!TimelyCommands /\ B!TimelyEvents' = B!TimelyEvents
  BY SameEpoch
<1>2. commands' \in Seq(B!Commands) /\ events' \in Seq(B!Events)
  BY MoreOnes DEF B!TimelyCommands, B!TimelyEvents
<1>3. B!TypeOK'
  BY <1>2 DEF B!PlaceInv, B!TypeOK
<1>4. B!PaneShowsItsPlace'
  BY DEF B!PlaceInv, B!PaneShowsItsPlace
<1> QED BY <1>1, <1>3, <1>4 DEF B!PlaceInv

\* An actor goes on: it keeps its server, and none appears or goes.
LEMMA ActorKeeps ==
    ASSUME B!PlaceInv, UNCHANGED <<tab, trail, dialog, moves, session>>,
           commands' \in Seq(B!TimelyCommands), events' \in Seq(B!TimelyEvents),
           NEW e \in B!Epochs, NEW a \in B!Actors, actor' = [actor EXCEPT ![e] = a],
           a.server = actor[e].server, a.state # "none", actor[e].state # "none",
           version' \in [Server -> [Dir -> 0 .. MaxChanges]],
           made' \in [B!Epochs -> [Dir -> 0 .. MaxChanges]],
           torn' \subseteq B!Epochs \X Dir
    PROVE  B!PlaceInv'
<1>1. actor' \in [B!Epochs -> B!Actors] /\ session' \in 0 .. MaxEpoch
  BY DEF B!PlaceInv, B!TypeOK
<1>2. \A f, s : B!OfItsServer(f, s)' = B!OfItsServer(f, s)
  BY SameEpoch
<1>3. \A f \in B!Epochs : actor'[f].server = actor[f].server
                          /\ (actor'[f].state = "none" <=> actor[f].state = "none")
  BY DEF B!PlaceInv, B!TypeOK
<1>4. session # 0 => session \in B!Epochs
  BY DEF B!PlaceInv, B!TypeOK, B!Epochs
<1>5. B!TimelyActors'
  BY <1>2, <1>3, <1>4 DEF B!PlaceInv, B!TimelyActors
<1> QED BY <1>1, <1>5, RuntimeKeeps

\* What the window knows.
LEMMA WindowFacts ==
    ASSUME B!PlaceInv
    PROVE  /\ tab \in B!Tabs /\ trail \in Histories /\ dialog \in B!Dialogs
           /\ moves \in 0 .. MaxMoves /\ commands \in Seq(B!TimelyCommands)
           /\ events \in Seq(B!TimelyEvents) /\ actor \in [B!Epochs -> B!Actors]
           /\ version \in [Server -> [Dir -> 0 .. MaxChanges]]
           /\ made \in [B!Epochs -> [Dir -> 0 .. MaxChanges]]
           /\ torn \subseteq B!Epochs \X Dir
           /\ B!PaneShowsItsPlace /\ B!TimelyActors /\ session \in 0 .. MaxEpoch
           /\ tab.connection # "empty" => tab.epoch \in B!Epochs /\ tab.server \in Server
BY DEF B!PlaceInv, B!TypeOK, Histories

\* read_remote_directory: the pane is loading, whatever it shows.
LEMMA ReadKeeps ==
    ASSUME B!PlaceInv, NEW d \in Dir, trail' \in Histories, dialog' = dialog,
           moves' \in 0 .. MaxMoves, tab' = B!ReadRemoteDirectory(tab, d),
           commands' = Append(commands, [kind |-> "read", dir |-> d]),
           events' \in Seq(B!TimelyEvents), UNCHANGED <<session, actor, version, made, torn>>
    PROVE  B!PlaceInv'
<1>1. [kind |-> "read", dir |-> d] \in B!TimelyCommands
  BY RequestsTimely DEF B!Requests
<1>2. commands' \in Seq(B!TimelyCommands)
  BY <1>1, WindowFacts, SendsOne
<1>3. /\ tab' \in B!Tabs /\ tab'.epoch = tab.epoch /\ tab'.server = tab.server
      /\ tab'.connection = tab.connection /\ tab'.entries = tab.entries /\ tab'.refreshing
  BY WindowFacts DEF B!ReadRemoteDirectory, B!Tabs, B!Dirs
<1>4. B!PaneShowsItsPlace'
  BY <1>3, WindowFacts DEF B!PaneShowsItsPlace
<1> QED BY <1>2, <1>3, <1>4, WindowFacts, WindowKeeps

\* The instance moves along its trail as the local pane does.
LEMMA SameTrail ==
    \A h, d, e : /\ B!PushNavigatingFrom(h, d, e) = PushNavigatingFrom(h, d, e)
                 /\ B!GoBack(h, d) = GoBack(h, d) /\ B!GoForward(h, d) = GoForward(h, d)
                 /\ B!Last(h) = Last(h)
BY DEF B!PushNavigatingFrom, PushNavigatingFrom, B!GoBack, GoBack, B!GoForward, GoForward,
       B!Last, Last, B!Front, Front

\* The history operations that the server pane uses keep its history well-formed.
LEMMA TrailTyped ==
    ASSUME B!PlaceInv, NEW d \in Dir
    PROVE  /\ B!PushNavigatingFrom(trail, tab.path, d) \in Histories
           /\ trail.back # <<>> => B!Last(trail.back) \in Dir
           /\ trail.back # <<>> /\ tab.path # None => B!GoBack(trail, tab.path) \in Histories
           /\ trail.forward # <<>> => B!Last(trail.forward) \in Dir
           /\ trail.forward # <<>> /\ tab.path # None => B!GoForward(trail, tab.path) \in Histories
<1>1. trail \in Histories /\ tab.path \in Dir \cup {None}
  BY WindowFacts DEF B!Tabs, B!Dirs
<1>2. trail.back \in Seq(Dir) /\ trail.forward \in Seq(Dir)
  BY <1>1 DEF Histories
<1>3. PushNavigatingFrom(trail, tab.path, d) \in Histories
  BY <1>1, HistoryAssumption, PushTyped
<1>4. /\ trail.back # <<>> => Last(trail.back) \in Dir
      /\ trail.forward # <<>> => Last(trail.forward) \in Dir
  BY <1>2, FrontIsSeq
<1>5. /\ trail.back # <<>> /\ tab.path # None => GoBack(trail, tab.path) \in Histories
      /\ trail.forward # <<>> /\ tab.path # None => GoForward(trail, tab.path) \in Histories
  BY <1>1, GoTyped
<1> QED BY <1>3, <1>4, <1>5, SameTrail

-----------------------------------------------------------------------------
\* The user.

\* A step of the user is counted within the bound.
LEMMA MovesOn == ASSUME RemoteConstants, B!PlaceInv, B!Act PROVE moves' \in 0 .. MaxMoves
BY WindowFacts DEF B!Act, RemoteConstants

\* Every way to another directory.
LEMMA BrowseKeeps ==
    ASSUME RemoteConstants, B!PlaceInv,
           (\E d \in Dir : B!Navigate(d)) \/ B!NavigateBack \/ B!NavigateForward \/ B!Refresh
    PROVE  B!PlaceInv'
<1>1. ASSUME NEW d \in Dir, B!Navigate(d) PROVE B!PlaceInv'
  <2>1. /\ trail' = B!PushNavigatingFrom(trail, tab.path, d) /\ B!Act
        /\ tab' = B!ReadRemoteDirectory(tab, d) /\ dialog' = dialog
        /\ commands' = Append(commands, [kind |-> "read", dir |-> d])
        /\ UNCHANGED <<session, actor, events, version, made, torn>>
    BY <1>1 DEF B!Navigate, B!SendCommand, B!RuntimeSide
  <2> QED BY <2>1, TrailTyped, MovesOn, WindowFacts, ReadKeeps
<1>2. CASE B!NavigateBack
  <2>1. PICK d : d = B!Last(trail.back)
    OBVIOUS
  <2>2. /\ trail.back # <<>> /\ B!Act
        /\ trail' = IF tab.path = None \/ ~DebugBuild THEN trail ELSE B!GoBack(trail, tab.path)
        /\ tab' = B!ReadRemoteDirectory(tab, d) /\ dialog' = dialog
        /\ commands' = Append(commands, [kind |-> "read", dir |-> d])
        /\ UNCHANGED <<session, actor, events, version, made, torn>>
    BY <1>2, <2>1 DEF B!NavigateBack, B!SendCommand, B!RuntimeSide
  <2>3. d \in Dir /\ trail' \in Histories
    BY <2>1, <2>2, TrailTyped, WindowFacts DEF RemoteConstants
  <2> QED BY <2>2, <2>3, MovesOn, WindowFacts, ReadKeeps
<1>3. CASE B!NavigateForward
  <2>1. PICK d : d = B!Last(trail.forward)
    OBVIOUS
  <2>2. /\ trail.forward # <<>> /\ moves' = moves
        /\ trail' = IF tab.path = None \/ ~DebugBuild THEN trail ELSE B!GoForward(trail, tab.path)
        /\ tab' = B!ReadRemoteDirectory(tab, d) /\ dialog' = dialog
        /\ commands' = Append(commands, [kind |-> "read", dir |-> d])
        /\ UNCHANGED <<session, actor, events, version, made, torn>>
    BY <1>3, <2>1 DEF B!NavigateForward, B!SendCommand, B!RuntimeSide
  <2>3. d \in Dir /\ trail' \in Histories
    BY <2>1, <2>2, TrailTyped, WindowFacts DEF RemoteConstants
  <2> QED BY <2>2, <2>3, WindowFacts, ReadKeeps
<1>4. CASE B!Refresh
  <2>1. PICK d : d = tab.path
    OBVIOUS
  <2>2. /\ d # None /\ B!Act /\ trail' = trail
        /\ tab' = B!ReadRemoteDirectory(tab, d) /\ dialog' = dialog
        /\ commands' = Append(commands, [kind |-> "read", dir |-> d])
        /\ UNCHANGED <<session, actor, events, version, made, torn>>
    BY <1>4, <2>1 DEF B!Refresh, B!SendCommand, B!RuntimeSide
  <2>3. d \in Dir
    BY <2>1, <2>2, WindowFacts DEF B!Tabs, B!Dirs
  <2> QED BY <2>2, <2>3, MovesOn, WindowFacts, ReadKeeps
<1> QED BY <1>1, <1>2, <1>3, <1>4

\* A new epoch: everything that is under way is of an earlier one.
LEMMA ConnectKeeps ==
    ASSUME RemoteConstants, B!PlaceInv, NEW s \in Server, B!Connect(s)
    PROVE  B!PlaceInv'
<1> DEFINE c == [kind |-> "connect", epoch |-> tab.epoch + 1, server |-> s]
<1>1. /\ tab.epoch < MaxEpoch /\ commands' = Append(commands, c)
      /\ tab' = [tab EXCEPT !.connection = "connecting", !.epoch = @ + 1, !.server = s]
      /\ UNCHANGED <<trail, dialog, session, actor, events, version, made, torn>> /\ B!Act
  BY DEF B!Connect, B!SendCommand, B!RuntimeSide
<1>2. tab.epoch \in 0 .. MaxEpoch /\ tab.epoch + 1 \in B!Epochs
  BY <1>1, WindowFacts DEF B!Tabs, B!Epochs, RemoteConstants
<1>3. /\ tab' \in B!Tabs /\ tab'.epoch = tab.epoch + 1 /\ tab'.server = s
      /\ tab'.connection = "connecting"
  <2>1. tab.epoch + 1 \in 0 .. MaxEpoch
    BY <1>2 DEF B!Epochs, RemoteConstants
  <2> QED BY <1>1, <2>1, WindowFacts DEF B!Tabs
<1>4. \A e \in B!Epochs, t \in Server \cup {None} : e <= tab.epoch => B!OfItsServer(e, t)'
  BY <1>2, <1>3 DEF B!OfItsServer, B!Epochs
<1>5. B!TimelyCommands \subseteq B!TimelyCommands'
  <2> SUFFICES ASSUME NEW x \in B!TimelyCommands, x.kind = "connect"
               PROVE  B!OfItsServer(x.epoch, x.server)'
    BY DEF B!TimelyCommands
  <2>1. x.epoch \in B!Epochs /\ x.server \in Server
    BY DEF B!TimelyCommands, B!Commands, B!Requests
  <2> QED BY <1>4, <2>1 DEF B!TimelyCommands, B!OfItsServer
<1>6. B!TimelyEvents \subseteq B!TimelyEvents'
  <2> SUFFICES ASSUME NEW x \in B!TimelyEvents
               PROVE  /\ x.epoch <= tab'.epoch
                      /\ x.kind = "loaded" => B!OfItsServer(x.epoch, x.listing.server)'
    BY DEF B!TimelyEvents
  <2>1. x.epoch \in B!Epochs /\ x.epoch <= tab.epoch
    BY DEF B!TimelyEvents, B!Events
  <2>2. x.kind = "loaded" => x.listing.server \in Server
    BY DEF B!TimelyEvents, B!Events, B!Listings
  <2>3. x.epoch <= tab'.epoch
    BY <1>2, <1>3, <2>1 DEF B!Epochs
  <2> QED BY <1>4, <2>1, <2>2, <2>3
<1>7. c \in B!TimelyCommands'
  BY <1>2, <1>3 DEF B!TimelyCommands, B!Commands, B!OfItsServer
<1>8. commands' \in Seq(B!TimelyCommands') /\ events' \in Seq(B!TimelyEvents')
  <2>1. commands \in Seq(B!TimelyCommands') /\ events \in Seq(B!TimelyEvents')
    BY <1>5, <1>6, WindowFacts, MoreOnes
  <2> HIDE DEF c
  <2> QED BY <1>1, <1>7, <2>1
<1>9. commands' \in Seq(B!Commands) /\ events' \in Seq(B!Events)
  <2>1. c \in B!Commands
    BY <1>2 DEF B!Commands
  <2> HIDE DEF c
  <2> QED BY <1>1, <2>1 DEF B!PlaceInv, B!TypeOK
<1> HIDE DEF c
<1>10. B!TypeOK'
  BY <1>1, <1>3, <1>9, MovesOn DEF B!PlaceInv, B!TypeOK
<1>11. B!TimelyActors'
  <2>1. \A e \in B!Epochs : actor[e].server \in Server \cup {None}
    BY WindowFacts DEF B!Actors
  <2> QED BY <1>1, <1>4, <2>1, WindowFacts DEF B!TimelyActors, B!OfItsServer
<1>12. B!PaneShowsItsPlace'
  BY <1>3 DEF B!PaneShowsItsPlace
<1> QED BY <1>2, <1>3, <1>8, <1>10, <1>11, <1>12 DEF B!PlaceInv

\* The connection is given up, a dialog is opened, answered or closed.
LEMMA DialogKeeps ==
    ASSUME RemoteConstants, B!PlaceInv,
           B!CancelConnect \/ B!OpenLink \/ B!BeginRename \/ B!BeginNewFolder
             \/ B!SubmitRename \/ B!RequestDelete \/ B!ConfirmDelete \/ B!CancelDialog
    PROVE  B!PlaceInv'
<1>1. CASE B!CancelConnect
  <2>1. /\ tab' = [tab EXCEPT !.connection = "disconnected", !.path = None, !.entries = None,
                              !.refreshing = FALSE, !.error = FALSE]
        /\ commands' = Append(commands, [kind |-> "disconnect"]) /\ B!Act
        /\ UNCHANGED <<trail, dialog, session, actor, events, version, made, torn>>
        /\ tab.connection = "connecting"
    BY <1>1 DEF B!CancelConnect, B!SendCommand, B!RuntimeSide, B!InFlight
  <2>2. /\ tab' \in B!Tabs /\ tab'.epoch = tab.epoch /\ tab'.server = tab.server
        /\ tab'.connection = "disconnected"
    BY <2>1, WindowFacts DEF B!Tabs, B!Dirs
  <2>3. commands' \in Seq(B!TimelyCommands)
    BY <2>1, WindowFacts, RequestsTimely, SendsOne
  <2>4. B!PaneShowsItsPlace'
    BY <2>2 DEF B!PaneShowsItsPlace
  <2> QED BY <2>1, <2>2, <2>3, <2>4, MovesOn, WindowFacts, WindowKeeps
<1>2. ASSUME tab' = tab, trail' = trail, moves' \in 0 .. MaxMoves, dialog' \in B!Dialogs,
             commands' \in Seq(B!TimelyCommands), UNCHANGED <<session, actor, events, version, made, torn>>
      PROVE  B!PlaceInv'
  <2>1. B!PaneShowsItsPlace'
    BY <1>2, WindowFacts DEF B!PaneShowsItsPlace
  <2> QED BY <1>2, <2>1, WindowFacts, WindowKeeps
<1>3. tab.connection = "connected" => tab.epoch \in B!Epochs /\ tab.server \in Server
  BY WindowFacts
<1>4. tab.entries # None => tab.entries.dir \in Dir /\ tab.entries.server \in Server
  BY WindowFacts DEF B!Tabs, B!Listings
<1>5. \A e \in B!Epochs, d \in Dir, s \in Server : B!FsCommand(e, d, s) \in B!Requests
  BY DEF B!FsCommand, B!Requests
<1>6. /\ dialog.rename # None => dialog.rename.dir \in Dir /\ dialog.rename.meant \in Server
      /\ dialog.delete # None => dialog.delete \in B!Requests
      /\ dialog.rename \in [dir : Dir, meant : Server] \cup {None}
      /\ dialog.delete \in B!Requests \cup {None}
  BY WindowFacts DEF B!Dialogs
<1>7. ASSUME NEW x \in [dir : Dir, meant : Server] \cup {None}
      PROVE  [dialog EXCEPT !.rename = x] \in B!Dialogs
  BY WindowFacts DEF B!Dialogs
<1>8. ASSUME NEW x \in B!Requests \cup {None}
      PROVE  [dialog EXCEPT !.delete = x] \in B!Dialogs
  BY WindowFacts DEF B!Dialogs
<1>9. ASSUME NEW x \in B!Requests, B!SendCommand(x)
      PROVE  commands' \in Seq(B!TimelyCommands)
  BY <1>9, WindowFacts, RequestsTimely, SendsOne DEF B!SendCommand
<1>10. CASE B!OpenLink
  <2>1. PICK x : x = [kind |-> "resolve", epoch |-> tab.epoch, dir |-> tab.entries.dir]
    OBVIOUS
  <2>2. B!SendCommand(x) /\ B!Act /\ tab.connection = "connected" /\ tab.entries # None
    BY <1>10, <2>1 DEF B!OpenLink
  <2>3. x \in B!Requests
    BY <1>3, <1>4, <2>1, <2>2 DEF B!Requests
  <2>4. commands' \in Seq(B!TimelyCommands)
    BY <1>9, <2>2, <2>3
  <2> QED BY <1>2, <1>10, <2>2, <2>4, MovesOn, WindowFacts DEF B!OpenLink, B!RuntimeSide
<1>11. CASE B!BeginRename
  <2>1. PICK x : x = [dir |-> tab.entries.dir, meant |-> tab.entries.server]
    OBVIOUS
  <2>2. /\ dialog' = [dialog EXCEPT !.rename = x] /\ B!Act /\ tab.entries # None
        /\ UNCHANGED <<tab, trail, commands, session, actor, events, version, made, torn>>
    BY <1>11, <2>1 DEF B!BeginRename, B!RuntimeSide
  <2>3. x \in [dir : Dir, meant : Server]
    BY <1>4, <2>1, <2>2
  <2>4. dialog' \in B!Dialogs
    BY <1>7, <2>2, <2>3
  <2> QED BY <1>2, <2>2, <2>4, MovesOn, WindowFacts
<1>12. CASE B!BeginNewFolder
  <2>1. PICK x : x = [dir |-> tab.path, meant |-> tab.server]
    OBVIOUS
  <2>2. /\ dialog' = [dialog EXCEPT !.rename = x] /\ B!Act /\ tab.path # None
        /\ tab.connection = "connected"
        /\ UNCHANGED <<tab, trail, commands, session, actor, events, version, made, torn>>
    BY <1>12, <2>1 DEF B!BeginNewFolder, B!RuntimeSide
  <2>3. x \in [dir : Dir, meant : Server]
    BY <1>3, <2>1, <2>2, WindowFacts DEF B!Tabs, B!Dirs
  <2>4. dialog' \in B!Dialogs
    BY <1>7, <2>2, <2>3
  <2> QED BY <1>2, <2>2, <2>4, MovesOn, WindowFacts
<1>13. CASE B!SubmitRename
  <2>1. PICK x : x = B!FsCommand(tab.epoch, dialog.rename.dir, dialog.rename.meant)
    OBVIOUS
  <2>2. /\ dialog' = [dialog EXCEPT !.rename = None] /\ dialog.rename # None
        /\ tab.connection = "connected" /\ (B!SendCommand(x) \/ commands' = commands)
        /\ UNCHANGED <<tab, trail, moves, session, actor, events, version, made, torn>>
    BY <1>13, <2>1 DEF B!SubmitRename, B!RuntimeSide
  <2>3. x \in B!Requests
    BY <1>3, <1>5, <1>6, <2>1, <2>2
  <2>4. dialog' \in B!Dialogs /\ commands' \in Seq(B!TimelyCommands)
    BY <1>7, <1>9, <2>2, <2>3, WindowFacts
  <2> QED BY <1>2, <2>2, <2>4, WindowFacts
<1>14. CASE B!RequestDelete
  <2>1. PICK x : x = B!FsCommand(tab.epoch, tab.entries.dir, tab.entries.server)
    OBVIOUS
  <2>2. /\ dialog' = [dialog EXCEPT !.delete = x] /\ B!Act /\ tab.entries # None
        /\ tab.connection = "connected"
        /\ UNCHANGED <<tab, trail, commands, session, actor, events, version, made, torn>>
    BY <1>14, <2>1 DEF B!RequestDelete, B!RuntimeSide
  <2>3. x \in B!Requests
    BY <1>3, <1>4, <1>5, <2>1, <2>2
  <2>4. dialog' \in B!Dialogs
    BY <1>8, <2>2, <2>3
  <2> QED BY <1>2, <2>2, <2>4, MovesOn, WindowFacts
<1>15. CASE B!ConfirmDelete
  <2>1. /\ dialog' = [dialog EXCEPT !.delete = None] /\ dialog.delete # None
        /\ B!SendCommand(dialog.delete) \/ commands' = commands
        /\ UNCHANGED <<tab, trail, moves, session, actor, events, version, made, torn>>
    BY <1>15 DEF B!ConfirmDelete, B!RuntimeSide
  <2>2. dialog' \in B!Dialogs /\ commands' \in Seq(B!TimelyCommands)
    BY <1>6, <1>8, <1>9, <2>1, WindowFacts
  <2> QED BY <1>2, <2>1, <2>2, WindowFacts
<1>16. CASE B!CancelDialog
  <2>1. dialog' \in B!Dialogs
    BY <1>7, <1>8, <1>16 DEF B!CancelDialog
  <2> QED BY <1>2, <1>16, <2>1, WindowFacts DEF B!CancelDialog, B!RuntimeSide
<1> QED BY <1>1, <1>10, <1>11, <1>12, <1>13, <1>14, <1>15, <1>16

-----------------------------------------------------------------------------
\* The window's events.

\* The event that is drained next: its epoch, its directory and what it lists.
LEMMA EventFacts ==
    ASSUME B!PlaceInv, events # <<>>
    PROVE  LET e == Head(events) IN
           /\ Tail(events) \in Seq(B!TimelyEvents)
           /\ e.epoch \in B!Epochs /\ e.dir \in Dir
           /\ e.kind = "loaded" =>
                e.listing \in B!Listings /\ e.listing.dir = e.dir
                  /\ B!OfItsServer(e.epoch, e.listing.server)
<1>1. Tail(events) \in Seq(B!TimelyEvents) /\ Head(events) \in B!TimelyEvents
  BY WindowFacts, TakesOne
<1>2. PICK e : e = Head(events)
  OBVIOUS
<1>3. e.epoch \in B!Epochs /\ e.dir \in Dir /\ (e.kind = "loaded" => e.listing \in B!Listings)
  BY <1>1, <1>2 DEF B!TimelyEvents, B!Events
<1> QED BY <1>1, <1>2, <1>3 DEF B!TimelyEvents

\* An event of the present epoch is of the present server; others are dropped.
LEMMA EventKeeps ==
    ASSUME RemoteConstants, B!PlaceInv, B!Window
    PROVE  B!PlaceInv'
<1>0. /\ events # <<>> /\ events' = Tail(events)
      /\ UNCHANGED <<dialog, session, actor, version, made, torn, moves>>
  BY DEF B!Window, B!DropStale, B!TabConnected, B!TabDisconnected, B!AuthFailed,
     B!RemoteDirLoading, B!RemoteDirLoaded, B!RemoteOperationFailed, B!RemoteEntryResolved,
     B!Event, B!Others
<1>1. events' \in Seq(B!TimelyEvents) /\ Head(events).dir \in Dir
  BY <1>0, EventFacts
<1>2. ASSUME tab' \in B!Tabs, tab'.epoch = tab.epoch, tab'.server = tab.server,
             tab'.connection # "empty" => tab.connection # "empty", B!PaneShowsItsPlace',
             UNCHANGED <<trail, commands>>
      PROVE  B!PlaceInv'
  BY <1>0, <1>1, <1>2, WindowFacts, WindowKeeps
<1>3. ASSUME UNCHANGED <<tab, trail, commands>> PROVE B!PlaceInv'
  <2>1. B!PaneShowsItsPlace'
    BY <1>3, WindowFacts DEF B!PaneShowsItsPlace
  <2> QED BY <1>2, <1>3, <2>1, WindowFacts
<1>4. CASE B!DropStale
  BY <1>3, <1>4 DEF B!DropStale
<1>5. CASE B!TabConnected
  <2> DEFINE d == IF tab.restored # None THEN tab.restored ELSE Head(events).dir
             u == [tab EXCEPT !.connection = "connected", !.entries = None, !.path = d,
                              !.refreshing = FALSE, !.error = FALSE, !.restored = None]
  <2>1. d \in Dir
    BY <1>1, WindowFacts DEF B!Tabs, B!Dirs
  <2>2. /\ trail' = trail /\ tab.connection \in {"connecting", "connected"}
        /\ \/ /\ tab' = B!ReadRemoteDirectory(u, d)
              /\ commands' = Append(commands, [kind |-> "read", dir |-> d])
           \/ tab' = u /\ commands' = commands
    BY <1>5 DEF B!TabConnected, B!SendCommand, B!Others, B!Accepted
  <2> HIDE DEF d
  <2>3. u \in B!Tabs /\ u.epoch = tab.epoch /\ u.server = tab.server /\ u.entries = None
    BY <2>1, WindowFacts DEF B!Tabs, B!Dirs
  <2> HIDE DEF u
  <2>4. /\ tab' \in B!Tabs /\ tab'.epoch = tab.epoch /\ tab'.server = tab.server
        /\ tab'.entries = None
    BY <2>1, <2>2, <2>3 DEF B!ReadRemoteDirectory, B!Tabs, B!Dirs
  <2>5. commands' \in Seq(B!TimelyCommands)
    <3>1. [kind |-> "read", dir |-> d] \in B!TimelyCommands
      BY <2>1, RequestsTimely DEF B!Requests
    <3>2. commands \in Seq(B!TimelyCommands)
      BY WindowFacts
    <3>3. ASSUME commands' = Append(commands, [kind |-> "read", dir |-> d])
          PROVE  commands' \in Seq(B!TimelyCommands)
      BY <3>1, <3>2, <3>3, SendsOne
    <3> QED BY <2>2, <3>2, <3>3
  <2>6. B!PaneShowsItsPlace'
    BY <2>4 DEF B!PaneShowsItsPlace
  <2> QED BY <1>0, <1>1, <2>2, <2>4, <2>5, <2>6, WindowFacts, WindowKeeps
<1>6. CASE B!TabDisconnected
  <2>1. /\ tab' = [tab EXCEPT !.connection = "disconnected", !.entries = None, !.path = None,
                          !.refreshing = FALSE, !.error = FALSE,
                          !.restored = IF tab.path # None THEN tab.path ELSE @]
        /\ UNCHANGED <<trail, commands>> /\ tab.connection # "empty"
    BY <1>6, WindowFacts DEF B!TabDisconnected, B!Accepted
  <2>2. /\ tab' \in B!Tabs /\ tab'.epoch = tab.epoch /\ tab'.server = tab.server
        /\ tab'.connection = "disconnected"
    BY <2>1, WindowFacts DEF B!Tabs, B!Dirs
  <2>3. B!PaneShowsItsPlace'
    BY <2>2 DEF B!PaneShowsItsPlace
  <2> QED BY <1>2, <2>1, <2>2, <2>3
<1>7. CASE B!AuthFailed
  <2>1. /\ tab' = [tab EXCEPT !.connection = "failed"]
        /\ UNCHANGED <<trail, commands>> /\ tab.connection # "empty"
    BY <1>7 DEF B!AuthFailed, B!Accepted
  <2>2. /\ tab' \in B!Tabs /\ tab'.epoch = tab.epoch /\ tab'.server = tab.server
        /\ tab'.connection = "failed"
    BY <2>1, WindowFacts DEF B!Tabs
  <2>3. B!PaneShowsItsPlace'
    BY <2>2 DEF B!PaneShowsItsPlace
  <2> QED BY <1>2, <2>1, <2>2, <2>3
<1>8. CASE B!RemoteDirLoading \/ B!RemoteOperationFailed
  <2>1. CASE tab' = tab
    BY <1>3, <1>8, <2>1 DEF B!RemoteDirLoading, B!RemoteOperationFailed
  <2>2. CASE tab' # tab
    <3>1. /\ \/ tab' = [tab EXCEPT !.refreshing = TRUE, !.error = FALSE]
             \/ tab' = [tab EXCEPT !.refreshing = FALSE, !.error = TRUE]
          /\ UNCHANGED <<trail, commands>>
      BY <1>8, <2>2 DEF B!RemoteDirLoading, B!RemoteOperationFailed
    <3>2. /\ tab' \in B!Tabs /\ tab'.epoch = tab.epoch /\ tab'.server = tab.server
          /\ tab'.connection = tab.connection /\ tab'.entries = tab.entries
          /\ tab'.refreshing \/ tab'.error
      BY <3>1, WindowFacts DEF B!Tabs
    <3>3. B!PaneShowsItsPlace'
      BY <3>2, WindowFacts DEF B!PaneShowsItsPlace
    <3> QED BY <1>2, <3>1, <3>2, <3>3
  <2> QED BY <2>1, <2>2
<1>9. CASE B!RemoteDirLoaded
  <2>1. CASE tab' = tab
    BY <1>3, <1>9, <2>1 DEF B!RemoteDirLoaded
  <2>2. CASE tab' # tab
    <3>1. PICK l : l = Head(events).listing
      OBVIOUS
    <3>2. /\ tab' = [tab EXCEPT !.entries = l, !.refreshing = FALSE, !.error = FALSE]
          /\ UNCHANGED <<trail, commands>> /\ tab.path = Head(events).dir
          /\ Head(events).kind = "loaded" /\ tab.epoch = Head(events).epoch
      BY <1>9, <2>2, <3>1 DEF B!RemoteDirLoaded, B!Accepted, B!Event
    <3>3. l \in B!Listings /\ l.dir = tab.path /\ l.server = tab.server
      BY <1>0, <3>1, <3>2, EventFacts DEF B!OfItsServer
    <3>4. /\ tab' \in B!Tabs /\ tab'.epoch = tab.epoch /\ tab'.server = tab.server
          /\ tab'.connection = tab.connection /\ tab'.entries = l /\ tab'.path = tab.path
      BY <3>2, <3>3, WindowFacts DEF B!Tabs
    <3>5. B!PaneShowsItsPlace'
      BY <3>3, <3>4 DEF B!PaneShowsItsPlace
    <3> QED BY <1>2, <3>2, <3>4, <3>5
  <2> QED BY <2>1, <2>2
<1>10. CASE B!RemoteEntryResolved
  <2>1. CASE UNCHANGED <<tab, trail, commands>>
    BY <1>3, <2>1
  <2>2. CASE ~(UNCHANGED <<tab, trail, commands>>)
    <3>1. PICK d : d = Head(events).dir
      OBVIOUS
    <3>2. /\ tab' = B!ReadRemoteDirectory(tab, d)
          /\ trail' = B!PushNavigatingFrom(trail, tab.path, d)
          /\ commands' = Append(commands, [kind |-> "read", dir |-> d])
      BY <1>10, <2>2, <3>1 DEF B!RemoteEntryResolved, B!SendCommand
    <3> QED BY <1>0, <1>1, <3>1, <3>2, TrailTyped, WindowFacts, ReadKeeps
  <2> QED BY <2>1, <2>2
<1> QED BY <1>4, <1>5, <1>6, <1>7, <1>8, <1>9, <1>10 DEF B!Window

-----------------------------------------------------------------------------
\* The runtime.

\* Mailboxes take and give up requests, and a fresh one is empty.
LEMMA MailboxFacts ==
    /\ <<>> \in B!Mailboxes /\ None \in B!Tasks
    /\ \A m \in B!Mailboxes, r \in B!Requests : Append(m, r) \in B!Mailboxes
    /\ \A m \in B!Mailboxes : m # <<>> => Tail(m) \in B!Mailboxes /\ Head(m) \in B!Requests
BY DEF B!Mailboxes, B!Tasks

\* An actor that is told to stop keeps its server.
LEMMA ShutdownTyped ==
    ASSUME B!PlaceInv
    PROVE  /\ B!Shutdown(actor, session) \in [B!Epochs -> B!Actors]
           /\ \A e \in B!Epochs :
                /\ B!Shutdown(actor, session)[e].server = actor[e].server
                /\ B!Shutdown(actor, session)[e].state = "none" => actor[e].state = "none"
                /\ actor[e].state = "none" => B!Shutdown(actor, session)[e].state = "none"
<1>1. actor \in [B!Epochs -> B!Actors]
  BY WindowFacts
<1>2. CASE session = 0
  BY <1>1, <1>2 DEF B!Shutdown
<1>3. CASE session # 0
  <2>1. session \in B!Epochs /\ actor[session].state # "none"
    BY <1>3, WindowFacts DEF B!Epochs, B!TimelyActors
  <2>2. PICK a : a = IF actor[session].state = "live"
                     THEN [actor[session] EXCEPT !.state = "cancelled"]
                     ELSE [actor[session] EXCEPT !.state = "over", !.mailbox = <<>>]
    OBVIOUS
  <2>3. a \in B!Actors /\ a.server = actor[session].server /\ a.state # "none"
    <3>1. actor[session] \in B!Actors
      BY <1>1, <2>1
    <3> QED BY <2>2, <3>1, MailboxFacts DEF B!Actors
  <2>4. B!Shutdown(actor, session) = [actor EXCEPT ![session] = a]
    BY <1>1, <1>3, <2>1, <2>2 DEF B!Shutdown
  <2> QED BY <1>1, <2>1, <2>3, <2>4
<1> QED BY <1>2, <1>3

\* The command that is dispatched next: a connect of its epoch, or a request.
LEMMA CommandFacts ==
    ASSUME B!PlaceInv, commands # <<>>
    PROVE  LET c == Head(commands) IN
           /\ Tail(commands) \in Seq(B!TimelyCommands)
           /\ c.kind = "connect" => /\ c.epoch \in B!Epochs /\ c.server \in Server
                                    /\ B!OfItsServer(c.epoch, c.server)
           /\ c.kind \in {"read", "resolve", "fs"} => c \in B!Requests
           /\ c.kind \in {"read", "resolve", "fs"} => c.dir \in Dir
<1>1. Tail(commands) \in Seq(B!TimelyCommands) /\ Head(commands) \in B!TimelyCommands
  BY WindowFacts, TakesOne
<1>2. PICK c : c = Head(commands)
  OBVIOUS
<1>3. /\ c.kind = "connect" => c.epoch \in B!Epochs /\ c.server \in Server
      /\ c.kind \in {"read", "resolve", "fs"} => c \in B!Requests /\ c.dir \in Dir
  BY <1>1, <1>2 DEF B!TimelyCommands, B!Commands, B!Requests
<1> QED BY <1>1, <1>2, <1>3 DEF B!TimelyCommands

\* The mailbox of an actor that is there takes another request.
LEMMA PostKeeps ==
    ASSUME B!PlaceInv, NEW r \in B!Requests, session # 0, B!Post(session, r),
           commands' \in Seq(B!TimelyCommands),
           UNCHANGED <<session, events, tab, trail, dialog, moves, version, made, torn>>
    PROVE  B!PlaceInv'
<1>1. session \in B!Epochs /\ actor[session].state # "none" /\ actor[session] \in B!Actors
  BY WindowFacts DEF B!Epochs, B!TimelyActors
<1>2. PICK a : a = [actor[session] EXCEPT !.mailbox = Append(@, r)]
  OBVIOUS
<1>3. a \in B!Actors /\ a.server = actor[session].server /\ a.state = actor[session].state
  <2>1. actor[session].mailbox \in B!Mailboxes
    BY <1>1 DEF B!Actors
  <2>2. PICK m : m = Append(actor[session].mailbox, r) /\ m \in B!Mailboxes
    BY <2>1, MailboxFacts
  <2> QED BY <1>1, <1>2, <2>2 DEF B!Actors
<1>4. actor' = [actor EXCEPT ![session] = a]
  BY <1>1, <1>2, WindowFacts DEF B!Post
<1> QED BY <1>1, <1>3, <1>4, WindowFacts, ActorKeeps

\* The runtime gives an epoch's requests to the actor of the session.
LEMMA RunKeeps ==
    ASSUME RemoteConstants, B!PlaceInv, B!Runtime
    PROVE  B!PlaceInv'
<1>0. /\ commands # <<>> /\ commands' = Tail(commands)
      /\ UNCHANGED <<tab, trail, dialog, moves, version, made, torn>>
  BY DEF B!Runtime, B!RunConnect, B!RunDisconnect, B!RunRead, B!RunForEpoch, B!Command, B!Take,
     B!WindowSide, B!World
<1>1. commands' \in Seq(B!TimelyCommands)
  BY <1>0, CommandFacts
<1>2. \A e, s : B!OfItsServer(e, s)' = B!OfItsServer(e, s)
  BY <1>0, SameEpoch
<1>3. CASE B!RunConnect
  <2>1. PICK sh : sh = B!Shutdown(actor, session)
    OBVIOUS
  <2>2. PICK c : c = Head(commands)
    OBVIOUS
  <2>3. PICK a : a = [B!NoActor EXCEPT !.server = c.server, !.state = "opening"]
    OBVIOUS
  <2>4. /\ actor' = [sh EXCEPT ![c.epoch] = a] /\ session' = c.epoch /\ events' = events
        /\ c.kind = "connect"
    BY <1>3, <2>1, <2>2, <2>3 DEF B!RunConnect, B!Command
  <2>5. c.epoch \in B!Epochs /\ c.server \in Server /\ B!OfItsServer(c.epoch, c.server)
    BY <1>0, <2>2, <2>4, CommandFacts
  <2>6. a \in B!Actors /\ a.server = c.server /\ a.state = "opening"
    BY <2>3, <2>5, MailboxFacts DEF B!NoActor, B!Actors
  <2>7. /\ sh \in [B!Epochs -> B!Actors]
        /\ \A e \in B!Epochs : /\ sh[e].server = actor[e].server
                               /\ actor[e].state = "none" => sh[e].state = "none"
    BY <2>1, ShutdownTyped
  <2>8. actor' \in [B!Epochs -> B!Actors] /\ session' \in 0 .. MaxEpoch
    BY <2>4, <2>5, <2>6, <2>7 DEF B!Epochs, RemoteConstants
  <2>9. B!TimelyActors'
    <3>1. ASSUME NEW e \in B!Epochs, actor'[e].state # "none"
          PROVE  actor'[e].server \in Server /\ B!OfItsServer(e, actor'[e].server)
      <4>1. CASE e = c.epoch
        BY <2>4, <2>5, <2>6, <2>7, <4>1
      <4>2. CASE e # c.epoch
        BY <2>4, <2>7, <3>1, <4>2, WindowFacts DEF B!TimelyActors
      <4> QED BY <4>1, <4>2
    <3>2. actor'[session'].state # "none"
      BY <2>4, <2>5, <2>6, <2>7
    <3> QED BY <1>2, <3>1, <3>2 DEF B!TimelyActors
  <2> QED BY <1>0, <1>1, <2>4, <2>8, <2>9, WindowFacts, RuntimeKeeps
<1>4. CASE B!RunDisconnect
  <2>1. actor' = B!Shutdown(actor, session) /\ session' = 0 /\ events' = events
    BY <1>4 DEF B!RunDisconnect
  <2>2. /\ actor' \in [B!Epochs -> B!Actors]
        /\ \A e \in B!Epochs : /\ actor'[e].server = actor[e].server
                               /\ actor[e].state = "none" => actor'[e].state = "none"
    BY <2>1, ShutdownTyped
  <2>3. B!TimelyActors'
    BY <1>2, <2>1, <2>2, WindowFacts DEF B!TimelyActors
  <2>4. session' \in 0 .. MaxEpoch
    BY <2>1 DEF RemoteConstants
  <2> QED BY <1>0, <1>1, <2>1, <2>2, <2>3, <2>4, WindowFacts, RuntimeKeeps
<1>5. ASSUME UNCHANGED <<session, actor>>, events' \in Seq(B!TimelyEvents) PROVE B!PlaceInv'
  <2>1. B!TimelyActors'
    BY <1>2, <1>5, WindowFacts DEF B!TimelyActors
  <2> QED BY <1>0, <1>1, <1>5, <2>1, WindowFacts, RuntimeKeeps
<1>6. CASE B!RunRead
  <2>1. Head(commands).kind = "read" /\ session' = session
    BY <1>6 DEF B!RunRead, B!Command
  <2>2. CASE session = 0
    BY <1>5, <1>6, <2>2, WindowFacts DEF B!RunRead
  <2>3. CASE session # 0 /\ B!Accepts(session)
    <3>1. B!Post(session, Head(commands)) /\ events' = events
      BY <1>6, <2>3 DEF B!RunRead
    <3>2. Head(commands) \in B!Requests
      BY <1>0, <2>1, CommandFacts
    <3> QED BY <1>0, <1>1, <2>1, <2>3, <3>1, <3>2, PostKeeps
  <2>4. CASE session # 0 /\ ~B!Accepts(session)
    <3>1. PICK x : x = [kind |-> "failed", epoch |-> session, dir |-> Head(commands).dir]
      OBVIOUS
    <3>2. events' = Append(events, x) /\ actor' = actor
      BY <1>6, <2>4, <3>1 DEF B!RunRead, B!Send
    <3>3. session \in B!Epochs /\ session <= tab.epoch
      BY <2>4, WindowFacts DEF B!Epochs, B!TimelyActors, B!OfItsServer
    <3>4. Head(commands).dir \in Dir
      BY <1>0, <2>1, CommandFacts
    <3>5. x \in B!TimelyEvents
      BY <3>1, <3>3, <3>4 DEF B!TimelyEvents, B!Events
    <3> QED BY <1>5, <2>1, <3>2, <3>5, WindowFacts, SendsOne
  <2> QED BY <2>2, <2>3, <2>4
<1>7. CASE B!RunForEpoch
  <2>1. Head(commands).kind \in {"resolve", "fs"} /\ session' = session /\ events' = events
    BY <1>7 DEF B!RunForEpoch, B!Command
  <2>2. Head(commands) \in B!Requests
    BY <1>0, <2>1, CommandFacts
  <2>3. CASE session = Head(commands).epoch /\ B!Accepts(session)
    <3>1. Head(commands).epoch # 0
      BY <2>1, <2>2 DEF B!Requests, B!Epochs
    <3>2. B!Post(session, Head(commands))
      BY <1>7, <2>3 DEF B!RunForEpoch
    <3> QED BY <1>0, <1>1, <2>1, <2>2, <2>3, <3>1, <3>2, PostKeeps
  <2>4. CASE ~(session = Head(commands).epoch /\ B!Accepts(session))
    BY <1>5, <1>7, <2>1, <2>4, WindowFacts DEF B!RunForEpoch
  <2> QED BY <2>3, <2>4
<1> QED BY <1>3, <1>4, <1>6, <1>7 DEF B!Runtime

-----------------------------------------------------------------------------
\* The actors and the servers.

\* An event of an actor is of its epoch.
LEMMA ActorFacts ==
    ASSUME B!PlaceInv, NEW e \in B!Epochs, actor[e].state # "none"
    PROVE  /\ actor[e] \in B!Actors /\ e <= tab.epoch /\ actor[e].server \in Server
           /\ B!OfItsServer(e, actor[e].server)
           /\ \A kind \in {"connected", "authfailed", "loading", "failed", "lost"}, d \in Dir :
                [kind |-> kind, epoch |-> e, dir |-> d] \in B!TimelyEvents
<1>1. /\ actor[e] \in B!Actors /\ e <= tab.epoch /\ actor[e].server \in Server
      /\ B!OfItsServer(e, actor[e].server)
  BY WindowFacts DEF B!TimelyActors, B!OfItsServer
<1> QED BY <1>1 DEF B!TimelyEvents, B!Events

\* What an actor is busy with names a directory.
LEMMA TaskFacts ==
    ASSUME NEW w \in B!Tasks, w # None
    PROVE  /\ w.dir \in Dir
           /\ w.kind = "listed" => w.version \in 0 .. MaxChanges
BY DEF B!Tasks, B!Requests

\* One actor's step, told by its new state and by the event it sends, if any.
LEMMA OneActorKeeps ==
    ASSUME B!PlaceInv, NEW e \in B!Epochs, actor[e].state # "none",
           NEW a \in B!Actors, actor' = [actor EXCEPT ![e] = a],
           a.server = actor[e].server, a.state # "none",
           UNCHANGED <<tab, trail, dialog, moves, session, commands>>,
           events' = events \/ \E x \in B!TimelyEvents : events' = Append(events, x),
           version' \in [Server -> [Dir -> 0 .. MaxChanges]],
           made' \in [B!Epochs -> [Dir -> 0 .. MaxChanges]],
           torn' \subseteq B!Epochs \X Dir
    PROVE  B!PlaceInv'
<1>1. events \in Seq(B!TimelyEvents) /\ commands' \in Seq(B!TimelyCommands)
  BY WindowFacts
<1>2. events' \in Seq(B!TimelyEvents)
  <2>1. CASE events' = events
    BY <1>1, <2>1
  <2>2. ASSUME NEW x \in B!TimelyEvents, events' = Append(events, x)
        PROVE  events' \in Seq(B!TimelyEvents)
    BY <1>1, <2>2, SendsOne
  <2> QED BY <2>1, <2>2
<1> QED BY <1>1, <1>2, ActorKeeps

\* A connection comes up or fails, is lost, or its session ends.
LEMMA ComesAndGoesKeeps ==
    ASSUME RemoteConstants, B!PlaceInv, NEW e \in B!Epochs,
           B!Opened(e) \/ B!OpenFails(e) \/ B!Lost(e) \/ B!Cancelled(e)
    PROVE  B!PlaceInv'
<1>1. /\ actor[e].state # "none" /\ UNCHANGED <<tab, trail, dialog, moves, session, commands, version, made, torn>>
  BY DEF B!Opened, B!OpenFails, B!Lost, B!Cancelled, B!Rest, B!World, B!WindowSide, B!Idle, B!Running
<1>2. actor[e] \in B!Actors /\ actor \in [B!Epochs -> B!Actors]
  BY WindowFacts
<1>3. events' = events \/ \E x \in B!TimelyEvents : events' = Append(events, x)
  <2>1. PICK kind \in {"connected", "authfailed", "lost"} :
            events' = events \/ events' = Append(events, [kind |-> kind, epoch |-> e, dir |-> Root])
    BY DEF B!Opened, B!OpenFails, B!Lost, B!Cancelled, B!Send
  <2>2. [kind |-> kind, epoch |-> e, dir |-> Root] \in B!TimelyEvents
    BY <1>1, ActorFacts DEF RemoteConstants
  <2> QED BY <2>1, <2>2
<1>4. CASE B!Opened(e)
  <2>1. PICK a : a = [actor[e] EXCEPT !.state = "live"]
    OBVIOUS
  <2>2. a \in B!Actors /\ a.server = actor[e].server /\ a.state # "none"
    BY <1>2, <2>1 DEF B!Actors
  <2>3. actor' = [actor EXCEPT ![e] = a]
    BY <1>2, <1>4, <2>1 DEF B!Opened
  <2> QED BY <1>1, <1>3, <2>2, <2>3, WindowFacts, OneActorKeeps
<1>5. CASE B!OpenFails(e) \/ B!Lost(e)
  <2>1. PICK a : a = [actor[e] EXCEPT !.state = "over", !.mailbox = <<>>]
    OBVIOUS
  <2>2. a \in B!Actors /\ a.server = actor[e].server /\ a.state # "none"
    BY <1>2, <2>1, MailboxFacts DEF B!Actors
  <2>3. actor' = [actor EXCEPT ![e] = a]
    BY <1>2, <1>5, <2>1 DEF B!OpenFails, B!Lost
  <2> QED BY <1>1, <1>3, <2>2, <2>3, WindowFacts, OneActorKeeps
<1>6. CASE B!Cancelled(e)
  <2>1. PICK a : a = [actor[e] EXCEPT !.state = "over", !.mailbox = <<>>, !.doing = None]
    OBVIOUS
  <2>2. a \in B!Actors /\ a.server = actor[e].server /\ a.state # "none"
    BY <1>2, <2>1, MailboxFacts DEF B!Actors
  <2>3. actor' = [actor EXCEPT ![e] = a]
    BY <1>2, <1>6, <2>1 DEF B!Cancelled
  <2> QED BY <1>1, <1>3, <2>2, <2>3, WindowFacts, OneActorKeeps
<1> QED BY <1>4, <1>5, <1>6

\* An actor takes a request and carries it out.
LEMMA ServeKeeps ==
    ASSUME RemoteConstants, B!PlaceInv, NEW e \in B!Epochs,
           B!TakeRequest(e) \/ B!ServerLists(e) \/ B!FinishRead(e) \/ B!FinishResolve(e) \/ B!FinishFs(e)
    PROVE  B!PlaceInv'
<1>0. /\ UNCHANGED <<tab, trail, dialog, moves, session, commands>>
      /\ actor[e].state \in {"live", "cancelled"}
  BY DEF B!TakeRequest, B!ServerLists, B!FinishRead, B!FinishResolve, B!FinishFs, B!Rest,
     B!WindowSide, B!Idle, B!Running, B!Doing
<1>1. /\ actor[e] \in B!Actors /\ actor \in [B!Epochs -> B!Actors] /\ actor[e].state # "none"
      /\ version \in [Server -> [Dir -> 0 .. MaxChanges]]
      /\ made \in [B!Epochs -> [Dir -> 0 .. MaxChanges]]
      /\ torn \subseteq B!Epochs \X Dir
  BY <1>0, WindowFacts
<1>2. ASSUME NEW w \in B!Tasks, NEW m \in B!Mailboxes
      PROVE  LET a == [actor[e] EXCEPT !.mailbox = m, !.doing = w]
             IN  a \in B!Actors /\ a.server = actor[e].server /\ a.state # "none"
  <2>1. PICK b : b = actor[e]
    OBVIOUS
  <2>2. PICK a : a = [b EXCEPT !.mailbox = m, !.doing = w]
    OBVIOUS
  <2>3. b \in B!Actors /\ b.state # "none"
    BY <1>1, <2>1
  <2>4. a.server = b.server /\ a.state = b.state
    BY <2>2, <2>3 DEF B!Actors
  <2>5. a \in B!Actors
    BY <1>2, <2>2, <2>3 DEF B!Actors
  <2> QED BY <2>1, <2>2, <2>3, <2>4, <2>5
<1>3. ASSUME NEW w \in B!Tasks, actor' = [actor EXCEPT ![e].doing = w],
             events' = events \/ \E x \in B!TimelyEvents : events' = Append(events, x),
             version' \in [Server -> [Dir -> 0 .. MaxChanges]],
             made' \in [B!Epochs -> [Dir -> 0 .. MaxChanges]],
             torn' \subseteq B!Epochs \X Dir
      PROVE  B!PlaceInv'
  <2>1. PICK a : a = [actor[e] EXCEPT !.doing = w]
    OBVIOUS
  <2>2. a \in B!Actors /\ a.server = actor[e].server /\ a.state # "none"
    BY <1>1, <2>1 DEF B!Actors
  <2>3. actor' = [actor EXCEPT ![e] = a]
    BY <1>1, <1>3, <2>1
  <2> QED BY <1>0, <1>1, <1>3, <2>2, <2>3, OneActorKeeps
<1>4. /\ actor[e].doing \in B!Tasks /\ actor[e].mailbox \in B!Mailboxes
      /\ actor[e].server \in Server /\ None \in B!Tasks
  BY <1>1, ActorFacts, MailboxFacts DEF B!Actors
<1>5. CASE B!TakeRequest(e)
  <2>1. PICK r : r = Head(actor[e].mailbox)
    OBVIOUS
  <2>2. PICK m : m = Tail(actor[e].mailbox)
    OBVIOUS
  <2>3. PICK a : a = [actor[e] EXCEPT !.mailbox = m, !.doing = r]
    OBVIOUS
  <2>4. /\ actor[e].mailbox # <<>> /\ actor' = [actor EXCEPT ![e] = a]
        /\ UNCHANGED <<version, made, torn>>
        /\ \/ events' = events
           \/ events' = Append(events, [kind |-> "loading", epoch |-> e, dir |-> r.dir])
    BY <1>1, <1>5, <2>1, <2>3, <2>2 DEF B!TakeRequest, B!Send, B!World
  <2>5. r \in B!Requests /\ m \in B!Mailboxes
    BY <1>4, <2>1, <2>4, <2>2, MailboxFacts
  <2>6. r \in B!Tasks /\ r.dir \in Dir
    BY <2>5 DEF B!Tasks, B!Requests
  <2>7. a \in B!Actors /\ a.server = actor[e].server /\ a.state # "none"
    BY <1>2, <2>3, <2>5, <2>6
  <2>8. events' = events \/ \E x \in B!TimelyEvents : events' = Append(events, x)
    <3>1. [kind |-> "loading", epoch |-> e, dir |-> r.dir] \in B!TimelyEvents
      BY <1>1, <2>6, ActorFacts
    <3> QED BY <2>4, <3>1
  <2> QED BY <1>0, <1>1, <2>4, <2>7, <2>8, OneActorKeeps
<1>6. ASSUME ~B!TakeRequest(e) PROVE B!PlaceInv'
  <2>0. PICK s, d : s = actor[e].server /\ d = actor[e].doing.dir
    OBVIOUS
  <2>1. actor[e].doing # None
    BY <1>6 DEF B!ServerLists, B!FinishRead, B!FinishResolve, B!FinishFs, B!Doing
  <2>2. s \in Server /\ d \in Dir /\ version[s][d] \in 0 .. MaxChanges
    BY <1>1, <1>4, <2>0, <2>1, TaskFacts
  <2>3. CASE B!ServerLists(e)
    <3>1. PICK w : w = [kind |-> "listed", dir |-> d, version |-> version[s][d]]
      OBVIOUS
    <3>2. actor' = [actor EXCEPT ![e].doing = w] /\ UNCHANGED <<events, version, made>>
      BY <2>0, <2>3, <3>1 DEF B!ServerLists
    <3>3. torn' \subseteq B!Epochs \X Dir
      BY <1>1, <2>3 DEF B!ServerLists
    <3>4. w \in B!Tasks
      BY <2>2, <3>1 DEF B!Tasks
    <3> QED BY <1>1, <1>3, <3>2, <3>3, <3>4
  <2>4. CASE B!FinishRead(e)
    <3>1. actor' = [actor EXCEPT ![e].doing = None] /\ UNCHANGED <<version, made, torn>>
      BY <2>4 DEF B!FinishRead, B!World
    <3>2. CASE events' = Append(events, [kind |-> "failed", epoch |-> e, dir |-> d])
      <4>1. [kind |-> "failed", epoch |-> e, dir |-> d] \in B!TimelyEvents
        BY <1>1, <2>2, ActorFacts
      <4> QED BY <1>1, <1>3, <1>4, <3>1, <3>2, <4>1
    <3>3. CASE events' # Append(events, [kind |-> "failed", epoch |-> e, dir |-> d])
      <4>1. PICK l : l = [server |-> s, dir |-> d, version |-> actor[e].doing.version]
        OBVIOUS
      <4>2. PICK x : x = [kind |-> "loaded", epoch |-> e, dir |-> d, listing |-> l]
        OBVIOUS
      <4>3. events' = Append(events, x) /\ actor[e].doing.kind = "listed"
        BY <2>0, <2>4, <3>3, <4>1, <4>2 DEF B!FinishRead, B!Send, B!Doing
      <4>4. l \in B!Listings
        BY <1>4, <2>1, <2>2, <4>1, <4>3, TaskFacts DEF B!Listings
      <4>5. e <= tab.epoch /\ B!OfItsServer(e, s)
        BY <1>1, <2>0, ActorFacts
      <4>6. x \in B!TimelyEvents
        BY <2>2, <4>1, <4>2, <4>4, <4>5 DEF B!TimelyEvents, B!Events
      <4> QED BY <1>1, <1>3, <1>4, <3>1, <4>3, <4>6
    <3> QED BY <3>2, <3>3
  <2>5. CASE B!FinishResolve(e)
    <3>1. actor' = [actor EXCEPT ![e].doing = None] /\ UNCHANGED <<version, made, torn>>
      BY <2>5 DEF B!FinishResolve, B!World
    <3>2. CASE events' = events
      BY <1>1, <1>3, <1>4, <3>1, <3>2
    <3>3. CASE events' # events
      <4>1. PICK to \in Dir :
                events' = Append(events, [kind |-> "resolved", epoch |-> e, dir |-> to, parent |-> d])
        BY <2>0, <2>5, <3>3 DEF B!FinishResolve, B!Send
      <4>2. e <= tab.epoch
        BY <1>1, ActorFacts
      <4>3. [kind |-> "resolved", epoch |-> e, dir |-> to, parent |-> d] \in B!TimelyEvents
        BY <2>2, <4>2 DEF B!TimelyEvents, B!Events
      <4> QED BY <1>1, <1>3, <1>4, <3>1, <4>1, <4>3
    <3> QED BY <3>2, <3>3
  <2>6. CASE B!FinishFs(e)
    <3> DEFINE Changed == /\ version[s][d] < MaxChanges
                          /\ version' = [version EXCEPT ![s][d] = @ + 1]
                          /\ made' = [made EXCEPT ![e][d] = version[s][d] + 1]
    <3>0. ASSUME Changed
          PROVE  /\ version' \in [Server -> [Dir -> 0 .. MaxChanges]]
                 /\ made' \in [B!Epochs -> [Dir -> 0 .. MaxChanges]]
      <4>1. version[s][d] + 1 \in 0 .. MaxChanges
        BY <2>2, <3>0 DEF RemoteConstants
      <4> QED BY <1>1, <2>2, <3>0, <4>1
    <3>1. CASE /\ Changed
               /\ B!Send([kind |-> "loading", epoch |-> e, dir |-> d])
               /\ actor' = [actor EXCEPT ![e].doing = [kind |-> "read", dir |-> d]]
               /\ UNCHANGED torn
      <4>1. [kind |-> "read", dir |-> d] \in B!Tasks
        BY <2>2 DEF B!Tasks, B!Requests
      <4>2. [kind |-> "loading", epoch |-> e, dir |-> d] \in B!TimelyEvents
        BY <1>1, <2>2, ActorFacts
      <4> HIDE DEF Changed
      <4> QED BY <1>1, <1>3, <3>0, <3>1, <4>1, <4>2 DEF B!Send
    <3>2. CASE /\ Changed
               /\ actor' = [actor EXCEPT ![e].doing = None]
               /\ torn' = torn \cup {<<e, d>>}
               /\ UNCHANGED events
      <4>1. torn' \subseteq B!Epochs \X Dir
        BY <1>1, <2>2, <3>2
      <4> HIDE DEF Changed
      <4> QED BY <1>3, <1>4, <3>0, <3>2, <4>1
    <3>3. CASE actor' = [actor EXCEPT ![e].doing = None] /\ UNCHANGED <<version, made, torn, events>>
      BY <1>1, <1>3, <1>4, <3>3
    <3> QED BY <2>0, <2>6, <3>1, <3>2, <3>3 DEF B!FinishFs
  <2> QED BY <1>6, <2>3, <2>4, <2>5, <2>6
<1> QED BY <1>5, <1>6

\* A change by others is of the server only; nothing under way changes.
LEMMA OthersChangeKeeps ==
    ASSUME RemoteConstants, B!PlaceInv, NEW s \in Server, NEW d \in Dir, B!OthersChange(s, d)
    PROVE  B!PlaceInv'
<1>1. /\ UNCHANGED <<tab, trail, dialog, moves, session, commands, events, actor, made, torn>>
      /\ version' = [version EXCEPT ![s][d] = @ + 1] /\ version[s][d] < MaxChanges
  BY DEF B!OthersChange, B!Rest, B!WindowSide
<1>2. version' \in [Server -> [Dir -> 0 .. MaxChanges]]
  <2>1. version[s][d] + 1 \in 0 .. MaxChanges
    BY <1>1, WindowFacts DEF RemoteConstants
  <2> QED BY <1>1, <2>1, WindowFacts
<1>3. B!TimelyActors'
  <2>1. \A e, t : B!OfItsServer(e, t)' = B!OfItsServer(e, t)
    BY <1>1, SameEpoch
  <2> QED BY <1>1, <2>1, WindowFacts DEF B!TimelyActors
<1> QED BY <1>1, <1>2, <1>3, WindowFacts, RuntimeKeeps

-----------------------------------------------------------------------------
\* At first there is no session and nothing is under way.
LEMMA PlaceInit ==
    ASSUME RemoteConstants, B!Init
    PROVE  B!PlaceInv
<1>1. B!NoActor \in B!Actors /\ B!NoActor.state = "none"
  BY MailboxFacts DEF B!NoActor, B!Actors
<1>2. tab \in B!Tabs /\ tab.connection = "empty"
  BY DEF B!Init, B!Tabs, B!Dirs, RemoteConstants
<1>3. trail \in Histories
  BY DEF B!Init, B!NoHistory, Histories
<1>4. dialog \in B!Dialogs
  BY DEF B!Init, B!Dialogs
<1>5. B!TypeOK
  BY <1>1, <1>2, <1>3, <1>4 DEF B!Init, B!TypeOK, RemoteConstants, Histories
<1>6. B!TimelyActors
  BY <1>1 DEF B!Init, B!TimelyActors
<1> QED BY <1>2, <1>5, <1>6 DEF B!PlaceInv, B!PaneShowsItsPlace, B!Init

\* Every step keeps the invariant of the server pane.
LEMMA PlaceStep ==
    ASSUME RemoteConstants, B!PlaceInv, [B!Next]_(B!vars)
    PROVE  B!PlaceInv'
<1>1. CASE UNCHANGED B!vars
  <2>1. UNCHANGED <<tab, trail, dialog, commands, session, actor, events, version, made, torn, moves>>
    BY <1>1 DEF B!vars
  <2>2. B!PaneShowsItsPlace'
    BY <2>1, WindowFacts DEF B!PaneShowsItsPlace
  <2> QED BY <2>1, <2>2, WindowFacts, WindowKeeps
<1>2. CASE B!User
  BY <1>2, ConnectKeeps, BrowseKeeps, DialogKeeps DEF B!User
<1>3. CASE B!Runtime
  BY <1>3, RunKeeps
<1>4. CASE B!Window
  BY <1>4, EventKeeps
<1>5. ASSUME NEW e \in B!Epochs, B!Serve(e) \/ B!Opened(e) \/ B!OpenFails(e) \/ B!Lost(e)
      PROVE  B!PlaceInv'
  BY <1>5, ServeKeeps, ComesAndGoesKeeps DEF B!Serve
<1>6. ASSUME NEW s \in Server, NEW d \in Dir, B!OthersChange(s, d) PROVE B!PlaceInv'
  BY <1>6, OthersChangeKeeps
<1> QED BY <1>1, <1>2, <1>3, <1>4, <1>5, <1>6 DEF B!Next

\* The inductive invariant of the server pane: nothing under way is of an epoch
\* that is still to come, and what is of the present one is of its server.
THEOREM RemoteInvariance == B!Spec => []B!PlaceInv
<1>1. RemoteConstants
  BY BrowseAssumption DEF RemoteConstants, B!BrowseConstants
<1>2. B!Init => B!PlaceInv
  BY <1>1, PlaceInit
<1>3. B!PlaceInv /\ [B!Next]_(B!vars) => B!PlaceInv'
  BY <1>1, PlaceStep
<1> QED BY <1>2, <1>3, PTL DEF B!Spec

\* With the local pane beside it, a connected server pane shows the server it is
\* connected to, and once nothing is being loaded the directory of its path bar:
\* for any number of servers, reconnects, requests and sizes of the queues, although
\* actors of earlier sessions are still answering (accepts_remote_event).
THEOREM PaneAlwaysInItsPlace == PanesSpec => []PaneShowsItsPlace
<1>1. PanesInit => B!Init
  BY DEF PanesInit
<1>2. [PanesNext]_<<vars, remoteVars>> => [B!Next]_(B!vars)
  BY DEF PanesNext, remoteVars, B!vars
<1>3. PanesSpec => B!Spec
  BY <1>1, <1>2, PTL DEF PanesSpec, B!Spec
<1>4. B!PlaceInv => PaneShowsItsPlace
  BY DEF B!PlaceInv, PaneShowsItsPlace
<1> QED BY <1>3, <1>4, RemoteInvariance, PTL
=============================================================================
