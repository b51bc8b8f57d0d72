-------------------------- MODULE RemoteEditProofs --------------------------
(* Proofs about RemoteEdit: its invariant, that no upload the user did not      *)
(* force goes to a file the session has not seen, and that no edited copy is    *)
(* lost.                                                                        *)
EXTENDS RemoteEdit, FiniteSetTheorems, TLAPS

-----------------------------------------------------------------------------
(* Types of what the actions build                                            *)

\* A file that can be edited has a path.
LEMMA FilesArePaths == Files \subseteq Paths
BY EditAssumption DEF Files

\* The fields of a tab.
LEMMA TabFields ==
    ASSUME TypeOK, NEW t \in Tabs
    PROVE  /\ tabs[t] \in TabStates
           /\ tabs[t].open \in BOOLEAN /\ tabs[t].up \in BOOLEAN
           /\ tabs[t].conn \in {"idle", "connecting", "connected"}
           /\ tabs[t].epoch \in 0 .. MaxEpoch /\ tabs[t].key \in Keys
           /\ tabs[t].key.server \in Servers
<1>1. tabs[t] \in TabStates
  BY DEF TypeOK
<1>2. tabs[t].key \in Keys
  BY <1>1 DEF TabStates
<1> QED
  BY <1>1, <1>2 DEF TabStates, Keys

\* Zero stands for no stamp, no check and no epoch.
LEMMA ZeroTypes ==
    /\ 0 \in Stamps /\ 0 \in 0 .. MaxCheck /\ 0 \in 0 .. MaxEpoch
    /\ Phases = {"none", "downloading", "editing", "checking", "uploading", "conflict"}
BY EditAssumption DEF Stamps, Phases

\* The entry of a session that is not there is well-formed.
LEMMA NoSessionType == NoSession \in Sessions /\ NoKey \in Keys
<1>1. PICK s \in Servers : TRUE
  BY EditAssumption
<1>2. PICK t \in Tabs : TRUE
  BY EditAssumption
<1>3. PICK p \in Paths : TRUE
  BY EditAssumption
<1>4. (CHOOSE q \in Servers : TRUE) \in Servers /\ (CHOOSE q \in Tabs : TRUE) \in Tabs
        /\ (CHOOSE q \in Paths : TRUE) \in Paths
  BY <1>1, <1>2, <1>3, Zenon
<1>5. NoKey \in Keys
  BY <1>4, EditAssumption DEF NoKey, Keys
<1> QED
  BY <1>4, <1>5, EditAssumption DEF NoSession, Sessions, Phases, Stamps

\* So is a session that opens.
LEMMA SessionType ==
    ASSUME NEW t \in Tabs, NEW edit \in Edits, NEW e \in 0 .. MaxEpoch, NEW k \in Keys
    PROVE  Session(t, edit, e, k) \in Sessions
BY EditAssumption DEF Session, Sessions, Edits, Phases, Stamps

\* So is the transfer that a session requests.
LEMMA CommandType ==
    ASSUME TypeOK, NEW id \in Ids, NEW s \in Sessions, NEW dir \in {"down", "up"},
           NEW forced \in BOOLEAN, NEW seen \in BOOLEAN
    PROVE  Command(id, s, dir, forced, seen) \in Transfers
<1>1. tabs[s.tab].key.server \in Servers
  BY TabFields DEF Sessions
<1>2. s.tab \in Tabs /\ s.epoch \in 0 .. MaxEpoch /\ s.path \in Paths /\ s.key.server \in Servers
  BY DEF Sessions, Keys
<1> QED
  BY <1>1, <1>2 DEF Command, Transfers

\* Removing sessions and their copies keeps the tables well-formed.
LEMMA WithoutType ==
    ASSUME TypeOK, NEW ids
    PROVE  Without(ids) \in [Ids -> Sessions] /\ Deleted(ids) \in [Ids -> Stamps]
BY NoSessionType, EditAssumption DEF TypeOK, Without, Deleted, Stamps

\* Cutting the records of removed sessions keeps the types of what is left.
LEMMA NotOfType ==
    ASSUME NEW ids, NEW S, NEW T, S \subseteq T
    PROVE  NotOf(ids, S) \subseteq T
BY DEF NotOf

\* So does a new epoch of their tab (update_epoch_for_tab).
LEMMA UpdateEpochType ==
    ASSUME TypeOK, NEW t \in Tabs, NEW e \in 0 .. MaxEpoch
    PROVE  UpdateEpochForTab(t, e) \in [Ids -> Sessions]
<1> SUFFICES ASSUME NEW id \in Ids
             PROVE  UpdateEpochForTab(t, e)[id] \in Sessions
  BY DEF UpdateEpochForTab
<1> DEFINE follows == [sess[id] EXCEPT !.epoch = e]
           returns == [sess[id] EXCEPT !.epoch = e, !.phase = "editing", !.check = 0, !.seenLocal = 0]
<1>1. sess[id] \in Sessions
  BY DEF TypeOK
<1>2. follows \in Sessions
  BY <1>1 DEF Sessions
<1>3. returns \in Sessions
  BY <1>1, ZeroTypes DEF Sessions
<1>4. UpdateEpochForTab(t, e)[id] \in {sess[id], follows, returns}
  BY Zenon DEF UpdateEpochForTab
<1> QED
  BY <1>1, <1>2, <1>3, <1>4, Zenon

\* The present version of a served file is a stamp that was on a server.
LEMMA CurrentType ==
    ASSUME TypeOK, PathsServed, NEW s \in Servers, NEW p \in Files
    PROVE  Current(s, p) \in Stamps /\ OnServer(Current(s, p))
<1>1. p \in Paths /\ srv[s][p] \in Seq(Stamps) /\ srv[s][p] # <<>>
  BY FilesArePaths DEF TypeOK, PathsServed
<1>2. Len(srv[s][p]) \in DOMAIN srv[s][p]
  BY <1>1
<1>3. srv[s][p][Len(srv[s][p])] \in Stamps
  BY <1>1, <1>2
<1> QED
  BY <1>1, <1>2, <1>3, Zenon DEF Current, OnServer

\* The next epoch of a tab that may connect is within the bound.
LEMMA NextEpoch ==
    ASSUME TypeOK, NEW t \in Tabs, Cardinality(Connects) < MaxEpoch
    PROVE  tabs[t].epoch + 1 \in 0 .. MaxEpoch
<1> DEFINE e == tabs[t].epoch
<1>1. e \in 0 .. MaxEpoch /\ MaxEpoch \in Nat
  BY EditAssumption, TabFields
<1>2. /\ IsFiniteSet(1 .. MaxEpoch)
      /\ IsFiniteSet(1 .. e) /\ Cardinality(1 .. e) = e
  <2>1. 1 \in Int /\ e \in Int /\ MaxEpoch \in Int /\ (IF 1 > e THEN 0 ELSE e - 1 + 1) = e
    BY <1>1
  <2> HIDE DEF e
  <2>2. IsFiniteSet(1 .. MaxEpoch)
    BY <2>1, FS_Interval
  <2>3. IsFiniteSet(1 .. e) /\ Cardinality(1 .. e) = (IF 1 > e THEN 0 ELSE e - 1 + 1)
    BY <2>1, FS_Interval
  <2> QED
    BY <2>1, <2>2, <2>3
<1>3. IsFiniteSet(Tabs \X (1 .. MaxEpoch))
  BY <1>2, EditAssumption, FS_Product
<1>4. Connects \subseteq Tabs \X (1 .. MaxEpoch)
  <2> SUFFICES ASSUME NEW u \in Tabs
               PROVE  {u} \X (1 .. tabs[u].epoch) \subseteq Tabs \X (1 .. MaxEpoch)
    BY DEF Connects
  <2>1. tabs[u].epoch \in 0 .. MaxEpoch
    BY TabFields
  <2> QED
    BY <2>1, <1>1
<1>5. IsFiniteSet(Connects)
  BY <1>3, <1>4, FS_Subset
<1>6. {t} \X (1 .. e) \subseteq Connects
  BY DEF Connects
<1>7. IsFiniteSet({t}) /\ Cardinality({t}) = 1
  BY FS_Singleton
<1>8. Cardinality({t} \X (1 .. e)) = 1 * e
  BY ZenonT(30), <1>2, <1>7, FS_Product
<1>9. Cardinality({t} \X (1 .. e)) <= Cardinality(Connects)
  BY <1>5, <1>6, FS_Subset
<1>10. Cardinality(Connects) \in Nat
  BY <1>5, FS_CardinalityType
<1> QED
  BY <1>1, <1>8, <1>9, <1>10

-----------------------------------------------------------------------------
(* Type correctness                                                           *)

\* What start_download leaves is of the right type.
LEMMA StartDownloadType ==
    ASSUME TypeOK, NEW gone, NEW t \in Tabs, NEW edit \in Edits, NEW e \in 0 .. MaxEpoch,
           NEW k \in Keys, StartDownload(gone, t, edit, e, k)
    PROVE  sess' \in [Ids -> Sessions] /\ nextId' \in 0 .. MaxSess /\ transfers' \subseteq Transfers
<1>1. Without(gone) \in [Ids -> Sessions]
  BY WithoutType
<1>2. Session(t, edit, e, k) \in Sessions
  BY SessionType
<1>3. nextId + 1 \in Ids /\ nextId' \in 0 .. MaxSess
  BY EditAssumption DEF TypeOK, StartDownload, Ids
<1>4. Command(nextId + 1, Session(t, edit, e, k), "down", FALSE, TRUE) \in Transfers
  BY <1>2, <1>3, CommandType
<1>5. NotOf(gone, transfers) \subseteq Transfers
  BY NotOfType DEF TypeOK
<1> QED
  BY <1>1, <1>2, <1>3, <1>4, <1>5 DEF StartDownload

\* The first state is well-formed.
LEMMA InitType == Init => TypeOK
<1> SUFFICES ASSUME Init PROVE TypeOK
  OBVIOUS
<1>1. NoSession \in Sessions /\ NoKey \in Keys
  BY NoSessionType
<1>2. srv \in [Servers -> [Paths -> Seq(Stamps)]] /\ clock \in Stamps
  <2>1. 1 \in Stamps
    BY EditAssumption DEF Stamps
  <2>2. <<1>> \in Seq(Stamps) /\ <<>> \in Seq(Stamps)
    BY <2>1
  <2> QED
    BY <2>1, <2>2, Zenon DEF Init
<1>3. tabs \in [Tabs -> TabStates]
  BY <1>1, ZeroTypes DEF Init, TabStates
<1>4. sess \in [Ids -> Sessions] /\ local \in [Ids -> Stamps]
  BY <1>1, ZeroTypes DEF Init
<1>5. nextId \in 0 .. MaxSess /\ nextCheck \in 0 .. MaxCheck
  BY EditAssumption DEF Init
<1>6. modal \in [Tabs -> Edits \union {NoEdit}]
  BY DEF Init
<1> QED
  BY <1>2, <1>3, <1>4, <1>5, <1>6 DEF Init, TypeOK

\* Steps of a tab and its connection keep the types.
LEMMA TabType ==
    ASSUME TypeOK, NEW t \in Tabs, TabStep(t)
    PROVE  TypeOK'
<1> USE DEF appVars, editVars, envVars
<1>0. tabs \in [Tabs -> TabStates] /\ tabs[t] \in TabStates
  BY TabFields DEF TypeOK
<1>1. ASSUME NEW s \in Servers, NEW saved \in BOOLEAN, Connect(t, s, saved) PROVE TypeOK'
  <2> DEFINE e == tabs[t].epoch + 1
             tab == [open |-> TRUE, conn |-> "connecting", up |-> FALSE,
                     epoch |-> e, key |-> KeyFor(t, s, saved, e)]
  <2>1. e \in 0 .. MaxEpoch
    BY <1>1, NextEpoch DEF Connect
  <2>2. KeyFor(t, s, saved, e) \in Keys
    BY <2>1, EditAssumption DEF KeyFor, Keys
  <2>3. sess' \in [Ids -> Sessions]
    BY <1>1, <2>1, UpdateEpochType DEF Connect
  <2>4. tabs' = [tabs EXCEPT ![t] = tab]
    BY <1>1 DEF Connect
  <2>5. checks' \subseteq Checks
    BY <1>1 DEF Connect, WithoutMailboxOf, TypeOK
  <2> HIDE DEF e
  <2>6. tab \in TabStates
    BY <2>1, <2>2 DEF TabStates
  <2> HIDE DEF tab
  <2>7. tabs' \in [Tabs -> TabStates]
    BY <1>0, <2>4, <2>6
  <2> QED
    BY <1>1, <2>3, <2>5, <2>7 DEF Connect, TypeOK
<1>2. ASSUME ConnectEnds(t) PROVE TypeOK'
  <2>1. PICK ok \in BOOLEAN :
          tabs' = [tabs EXCEPT ![t].conn = IF ok THEN "connected" ELSE "idle", ![t].up = ok]
    BY <1>2 DEF ConnectEnds
  <2> DEFINE tab == [tabs[t] EXCEPT !.conn = IF ok THEN "connected" ELSE "idle", !.up = ok]
  <2>2. tabs' = [tabs EXCEPT ![t] = tab]
    BY <1>0, <2>1
  <2>3. tab \in TabStates
    BY <1>0 DEF TabStates
  <2> HIDE DEF tab
  <2>4. tabs' \in [Tabs -> TabStates]
    BY <1>0, <2>2, <2>3
  <2> QED
    BY <1>2, <2>4 DEF ConnectEnds, TypeOK
<1>3. ASSUME ConnectionLost(t) PROVE TypeOK'
  <2>1. tabs' \in [Tabs -> TabStates]
    BY <1>0, <1>3 DEF ConnectionLost, TabStates
  <2> QED
    BY <1>3, <2>1 DEF ConnectionLost, TypeOK, WithoutMailboxOf
<1>4. ASSUME HandleDisconnected(t) PROVE TypeOK'
  <2>1. tabs' \in [Tabs -> TabStates]
    BY <1>0, <1>4 DEF HandleDisconnected, TabStates
  <2>2. sess' \in [Ids -> Sessions]
    BY <1>4, UpdateEpochType, TabFields DEF HandleDisconnected
  <2> QED
    BY <1>4, <2>1, <2>2 DEF HandleDisconnected, TypeOK
<1>5. Closed(t) \in [Tabs -> TabStates]
  <2> DEFINE tab == [tabs[t] EXCEPT !.open = FALSE, !.conn = "idle", !.up = FALSE]
  <2>1. Closed(t) = [tabs EXCEPT ![t] = tab]
    BY <1>0 DEF Closed
  <2>2. tab \in TabStates
    BY <1>0 DEF TabStates
  <2> HIDE DEF tab
  <2> QED
    BY <1>0, <2>1, <2>2
<1>6. ASSUME CloseTab(t) PROVE TypeOK'
  <2>1. sess' \in [Ids -> Sessions] /\ local' \in [Ids -> Stamps]
    BY <1>6, WithoutType DEF CloseTab
  <2>2. checks' \subseteq Checks /\ transfers' \subseteq Transfers
    BY <1>6, NotOfType DEF CloseTab, TypeOK
  <2> QED
    BY <1>5, <1>6, <2>1, <2>2 DEF CloseTab, TypeOK
<1>7. ASSUME CloseWindow(t) PROVE TypeOK'
  BY <1>5, <1>7 DEF CloseWindow, TypeOK, WithoutMailboxOf
<1> QED
  BY <1>1, <1>2, <1>3, <1>4, <1>6, <1>7 DEF TabStep

\* So do the user's.
LEMMA UserType ==
    ASSUME TypeOK, NEW t \in Tabs, UserStep(t)
    PROVE  TypeOK'
<1> USE DEF appVars, editVars, envVars
<1>0. tabs[t].epoch \in 0 .. MaxEpoch /\ tabs[t].key \in Keys /\ tabs[t].key.server \in Servers
  BY TabFields
<1>1. ASSUME NEW edit \in Edits, BeginEditResolved(t, edit) PROVE TypeOK'
  <2> DEFINE k == tabs[t].key
             link == SessionsOf(TabsOf(Repointed(k, edit)))
             active == FindActive(k, edit.path, link)
             reaped == link \union SessionsOf(TabsOf(active))
  <2>1. local' = Deleted(reaped) /\ checks' = NotOf(reaped, checks) /\ watch' = watch \ reaped
        /\ UNCHANGED <<tabs, nextCheck, srv, clock>>
    BY <1>1 DEF BeginEditResolved
  <2>2. \/ StartDownload(reaped, t, edit, tabs[t].epoch, k) /\ UNCHANGED modal
        \/ /\ modal' = [modal EXCEPT ![t] = edit]
           /\ sess' = Without(reaped)
           /\ transfers' = NotOf(reaped, transfers)
           /\ UNCHANGED nextId
    BY <1>1 DEF BeginEditResolved
  <2> HIDE DEF k, link, active, reaped
  <2>3. local' \in [Ids -> Stamps] /\ checks' \subseteq Checks /\ watch' \subseteq Ids
    BY <2>1, WithoutType, NotOfType DEF TypeOK
  <2>4. /\ sess' \in [Ids -> Sessions] /\ nextId' \in 0 .. MaxSess /\ transfers' \subseteq Transfers
        /\ modal' \in [Tabs -> Edits \union {NoEdit}]
    <3>1. CASE StartDownload(reaped, t, edit, tabs[t].epoch, k) /\ UNCHANGED modal
      BY <3>1, <1>0, StartDownloadType DEF TypeOK, k
    <3>2. CASE /\ modal' = [modal EXCEPT ![t] = edit]
               /\ sess' = Without(reaped)
               /\ transfers' = NotOf(reaped, transfers)
               /\ UNCHANGED nextId
      BY <3>2, WithoutType, NotOfType DEF TypeOK
    <3> QED
      BY <2>2, <3>1, <3>2
  <2> QED
    BY <2>1, <2>3, <2>4 DEF TypeOK
<1>2. ASSUME Open(t) PROVE TypeOK'
  <2>1. PICK name \in Paths : \E path \in Targets[name] :
          \E i \in 1 .. Len(srv[tabs[t].key.server][path]) :
            BeginEditResolved(t, [name |-> name, path |-> path,
                                  listed |-> srv[tabs[t].key.server][path][i]])
    BY <1>2 DEF Open
  <2>. PICK path \in Targets[name] : \E i \in 1 .. Len(srv[tabs[t].key.server][path]) :
            BeginEditResolved(t, [name |-> name, path |-> path,
                                  listed |-> srv[tabs[t].key.server][path][i]])
    BY <2>1
  <2>5. PICK i \in 1 .. Len(srv[tabs[t].key.server][path]) :
            BeginEditResolved(t, [name |-> name, path |-> path,
                                  listed |-> srv[tabs[t].key.server][path][i]])
    OBVIOUS
  <2>2. path \in Paths
    BY EditAssumption
  <2>3. srv[tabs[t].key.server][path][i] \in Stamps
    BY <1>0, <2>2 DEF TypeOK
  <2>4. [name |-> name, path |-> path, listed |-> srv[tabs[t].key.server][path][i]] \in Edits
    BY <2>2, <2>3 DEF Edits
  <2> QED
    BY <2>5, <2>4, <1>1
<1>3. ASSUME ConfirmLargeEdit(t) PROVE TypeOK'
  <2>1. modal[t] \in Edits
    BY <1>3 DEF ConfirmLargeEdit, TypeOK
  <2>2. sess' \in [Ids -> Sessions] /\ nextId' \in 0 .. MaxSess /\ transfers' \subseteq Transfers
    <3>1. CASE StartDownload({}, t, modal[t], tabs[t].epoch, tabs[t].key)
      BY <3>1, <1>0, <2>1, StartDownloadType
    <3>2. CASE UNCHANGED <<sess, nextId, transfers>>
      BY <3>2 DEF TypeOK
    <3> QED
      BY <1>3, <3>1, <3>2 DEF ConfirmLargeEdit
  <2> QED
    BY <1>3, <2>2 DEF ConfirmLargeEdit, TypeOK
<1>4. ASSUME CancelLargeEdit(t) PROVE TypeOK'
  BY <1>4 DEF CancelLargeEdit, TypeOK
<1>5. ASSUME NEW row \in Paths, RequestUpload(t, row) PROVE TypeOK'
  <2>1. PICK id \in FoundForTabPath(t, row) :
          /\ sess[id].phase = "editing"
          /\ local[id] # 0
          /\ nextCheck' = nextCheck + 1
          /\ \/ /\ sess' = [sess EXCEPT ![id].phase = "checking", ![id].epoch = tabs[t].epoch,
                                        ![id].check = nextCheck + 1, ![id].seenLocal = local[id]]
                /\ checks' = checks \union
                      {[sid |-> id, check |-> nextCheck + 1, tab |-> t, epoch |-> tabs[t].epoch,
                        path |-> sess[id].path, at |-> "queued", result |-> 0]}
             \/ /\ sess' = Reverted([sess EXCEPT ![id].epoch = tabs[t].epoch], id)
                /\ UNCHANGED checks
             \/ UNCHANGED <<sess, checks>>
    BY <1>5 DEF RequestUpload
  <2>2. id \in Ids
    BY DEF FoundForTabPath
  <2>3. nextCheck + 1 \in 0 .. MaxCheck
    BY <1>5, EditAssumption DEF RequestUpload, TypeOK
  <2>4. sess[id] \in Sessions /\ sess[id].path \in Paths /\ local[id] \in Stamps
    BY <2>2 DEF TypeOK, Sessions
  <2>5. [sess EXCEPT ![id].phase = "checking", ![id].epoch = tabs[t].epoch,
                     ![id].check = nextCheck + 1, ![id].seenLocal = local[id]] \in [Ids -> Sessions]
    BY <1>0, <2>2, <2>3, <2>4, ZeroTypes DEF TypeOK, Sessions
  <2>6. Reverted([sess EXCEPT ![id].epoch = tabs[t].epoch], id) \in [Ids -> Sessions]
    BY <1>0, <2>2, <2>4, ZeroTypes DEF TypeOK, Sessions, Reverted
  <2>7. [sid |-> id, check |-> nextCheck + 1, tab |-> t, epoch |-> tabs[t].epoch,
         path |-> sess[id].path, at |-> "queued", result |-> 0] \in Checks
    BY <1>0, <2>2, <2>3, <2>4, ZeroTypes DEF Checks
  <2>8. sess' \in [Ids -> Sessions] /\ checks' \subseteq Checks /\ nextCheck' \in 0 .. MaxCheck
    BY <2>1, <2>3, <2>5, <2>6, <2>7 DEF TypeOK
  <2> QED
    BY <1>5, <2>8 DEF RequestUpload, TypeOK
<1> QED
  BY <1>2, <1>3, <1>4, <1>5 DEF UserStep

\* A session that gives up its check or upload is well-formed.
LEMMA RevertedType ==
    ASSUME TypeOK, NEW id \in Ids, NEW phase \in Phases
    PROVE  /\ Reverted(sess, id) \in [Ids -> Sessions]
           /\ [Reverted(sess, id) EXCEPT ![id].phase = phase] \in [Ids -> Sessions]
           /\ [sess EXCEPT ![id].phase = phase] \in [Ids -> Sessions]
<1> DEFINE back == [sess[id] EXCEPT !.phase = "editing", !.check = 0, !.seenLocal = 0]
           other == [back EXCEPT !.phase = phase]
<1>1. sess \in [Ids -> Sessions]
  BY DEF TypeOK
<1>2. Reverted(sess, id) = [sess EXCEPT ![id] = back]
  BY <1>1 DEF Reverted
<1>3. back \in Sessions
  <2>1. sess[id] \in Sessions /\ "editing" \in Phases
    BY <1>1, ZeroTypes
  <2> QED
    BY ZenonT(30), <2>1, ZeroTypes DEF Sessions
<1> HIDE DEF back
<1>4. other \in Sessions
  BY <1>3 DEF Sessions
<1>5. [Reverted(sess, id) EXCEPT ![id].phase = phase] = [sess EXCEPT ![id] = other]
  BY <1>1, <1>2
<1> HIDE DEF other
<1>6. [sess EXCEPT ![id].phase = phase] \in [Ids -> Sessions]
  BY <1>1 DEF Sessions
<1> QED
  BY <1>1, <1>2, <1>3, <1>4, <1>5, <1>6

\* Steps of a session keep the types.
LEMMA SessionStepType ==
    ASSUME TypeOK, NEW id \in Ids, SessionStep(id)
    PROVE  TypeOK'
<1> USE DEF appVars, editVars, envVars
<1>0. sess[id] \in Sessions
  BY DEF TypeOK
<1>1. ASSUME Overwrite(id) PROVE TypeOK'
  <2>1. sess' \in [Ids -> Sessions]
    BY <1>1, RevertedType, ZeroTypes DEF Overwrite
  <2>2. transfers' \subseteq Transfers
    BY <1>0, <1>1, CommandType DEF Overwrite, TypeOK
  <2> QED
    BY <1>1, <2>1, <2>2 DEF Overwrite, TypeOK
<1>2. ASSUME DiscardLocal(id) PROVE TypeOK'
  <2> DEFINE edit == [name |-> sess[id].name, path |-> sess[id].path, listed |-> sess[id].snap]
  <2>1. sess[id].tab \in Tabs /\ edit \in Edits /\ sess[id].epoch \in 0 .. MaxEpoch /\ sess[id].key \in Keys
    BY <1>0 DEF Sessions, Edits
  <2>2. StartDownload({id}, sess[id].tab, edit, sess[id].epoch, sess[id].key)
    BY <1>2 DEF DiscardLocal
  <2> HIDE DEF edit
  <2>3. sess' \in [Ids -> Sessions] /\ nextId' \in 0 .. MaxSess /\ transfers' \subseteq Transfers
    BY <2>1, <2>2, StartDownloadType
  <2>4. local' \in [Ids -> Stamps] /\ checks' \subseteq Checks
    BY <1>2, WithoutType, NotOfType DEF DiscardLocal, TypeOK
  <2> QED
    BY <1>2, <2>3, <2>4 DEF DiscardLocal, TypeOK
<1>3. ASSUME DecideLater(id) PROVE TypeOK'
  <2>1. sess' \in [Ids -> Sessions]
    BY <1>3, RevertedType, ZeroTypes DEF DecideLater
  <2> QED
    BY <1>3, <2>1 DEF DecideLater, TypeOK
<1>4. ASSUME SaveLocal(id) PROVE TypeOK'
  <2>1. clock + 1 \in Stamps
    BY <1>4, EditAssumption DEF SaveLocal, TypeOK, Stamps
  <2> QED
    BY <1>4, <2>1 DEF SaveLocal, TypeOK
<1>5. ASSUME HandleLocalEditModified(id) PROVE TypeOK'
  <2>1. [sess EXCEPT ![id].dirty = TRUE] \in [Ids -> Sessions]
    BY <1>0 DEF TypeOK, Sessions
  <2>2. sess' \in [Ids -> Sessions]
    BY <1>5, <2>1 DEF HandleLocalEditModified, TypeOK
  <2> QED
    BY <1>5, <2>2 DEF HandleLocalEditModified, TypeOK
<1> QED
  BY <1>1, <1>2, <1>3, <1>4, <1>5 DEF SessionStep

\* So do those of a check.
LEMMA CheckType ==
    ASSUME TypeOK, PathsServed, NEW c \in checks, CheckStep(c)
    PROVE  TypeOK'
<1> USE DEF appVars, editVars, envVars
<1>0. c \in Checks /\ c.tab \in Tabs /\ c.sid \in Ids /\ c.path \in Files
  BY DEF TypeOK, Checks, PathsServed
<1>1. ASSUME RouteCheckRemoteEditSnapshot(c) PROVE TypeOK'
  <2>1. [c EXCEPT !.at = "asked"] \in Checks /\ [c EXCEPT !.at = "undeliverable"] \in Checks
    BY <1>0 DEF Checks
  <2>2. checks' \subseteq Checks
    BY <1>1, <2>1 DEF RouteCheckRemoteEditSnapshot, TypeOK
  <2> QED
    BY <1>1, <2>2 DEF RouteCheckRemoteEditSnapshot, TypeOK
<1>2. ASSUME AnswerCheck(c) PROVE TypeOK'
  <2>1. tabs[c.tab].key.server \in Servers
    BY <1>0, TabFields
  <2>2. Current(tabs[c.tab].key.server, c.path) \in Stamps
    BY <2>1, <1>0, CurrentType
  <2>3. PICK r \in {0, Current(tabs[c.tab].key.server, c.path)} :
          checks' = (checks \ {c}) \union {[c EXCEPT !.at = "answered", !.result = r]}
    BY <1>2 DEF AnswerCheck
  <2>4. r \in Stamps
    BY <2>2, ZeroTypes
  <2>5. [c EXCEPT !.at = "answered", !.result = r] \in Checks
    BY <1>0, <2>4 DEF Checks
  <2>6. checks' \subseteq Checks
    BY <2>3, <2>5 DEF TypeOK
  <2> QED
    BY <1>2, <2>6 DEF AnswerCheck, TypeOK
<1>3. ASSUME HandleCheckResult(c) PROVE TypeOK'
  <2>1. ASSUME OnCheckResult(c) PROVE sess' \in [Ids -> Sessions] /\ transfers' \subseteq Transfers
    <3>1. sess[c.sid] \in Sessions
      BY <1>0 DEF TypeOK
    <3> DEFINE seen == c.result \in sess[c.sid].known
    <3>8. seen \in BOOLEAN
      OBVIOUS
    <3> HIDE DEF seen
    <3>2. Command(c.sid, sess[c.sid], "up", FALSE, seen) \in Transfers
      BY <1>0, <3>1, <3>8, CommandType
    <3>3. \A phase \in Phases : /\ Reverted(sess, c.sid) \in [Ids -> Sessions]
                                /\ [Reverted(sess, c.sid) EXCEPT ![c.sid].phase = phase] \in [Ids -> Sessions]
      BY <1>0, RevertedType
    <3>4. /\ Reverted(sess, c.sid) \in [Ids -> Sessions]
          /\ [Reverted(sess, c.sid) EXCEPT ![c.sid].phase = "uploading"] \in [Ids -> Sessions]
          /\ [Reverted(sess, c.sid) EXCEPT ![c.sid].phase = "conflict"] \in [Ids -> Sessions]
      BY <3>3, ZeroTypes
    <3>5. /\ sess' \in {Reverted(sess, c.sid), [Reverted(sess, c.sid) EXCEPT ![c.sid].phase = "uploading"],
                       [Reverted(sess, c.sid) EXCEPT ![c.sid].phase = "conflict"]}
          /\ transfers' \in {transfers, transfers \union
                {Command(c.sid, sess[c.sid], "up", FALSE, seen)}}
      BY <2>1 DEF OnCheckResult, seen
    <3>6. sess' \in [Ids -> Sessions]
      BY <3>4, <3>5, Zenon
    <3>7. transfers' \subseteq Transfers
      BY <3>2, <3>5 DEF TypeOK
    <3> QED
      BY <3>6, <3>7
  <2>2. sess' \in [Ids -> Sessions] /\ transfers' \subseteq Transfers
    BY <1>3, <2>1 DEF HandleCheckResult, TypeOK
  <2> QED
    BY <1>3, <2>2 DEF HandleCheckResult, TypeOK
<1> QED
  BY <1>1, <1>2, <1>3 DEF CheckStep

\* A transfer moves on without a change of anything but where it stands.
LEMMA MovedType ==
    ASSUME TypeOK, NEW x \in transfers,
           NEW at \in {"queued", "running", "done", "failed", "refused", "failedRow"}
    PROVE  Moved(x, at) \subseteq Transfers
<1>1. [x EXCEPT !.at = at] \in Transfers
  BY DEF TypeOK, Transfers
<1> QED
  BY <1>1 DEF Moved, TypeOK

\* A session whose transfer has completed is well-formed.
LEMMA FinishedType ==
    ASSUME NEW s \in Sessions, NEW base \in Stamps, NEW snap \in Stamps
    PROVE  [s EXCEPT !.phase = "editing", !.dirty = FALSE, !.base = base, !.snap = snap] \in Sessions
<1>1. [s EXCEPT !.phase = "editing", !.dirty = FALSE] \in Sessions
  BY ZeroTypes DEF Sessions
<1> QED
  BY <1>1 DEF Sessions

\* Steps of a transfer keep the types.
LEMMA TransferType ==
    ASSUME TypeOK, PathsServed, NEW x \in transfers, TransferStep(x)
    PROVE  TypeOK'
<1> USE DEF appVars, editVars, envVars
<1>0. x \in Transfers /\ x.tab \in Tabs /\ x.sid \in Ids /\ x.path \in Files /\ x.server \in Servers
  BY DEF TypeOK, Transfers, PathsServed
<1>1. ASSUME RouteTransfer(x) PROVE TypeOK'
  <2>1. tabs[x.tab].key.server \in Servers
    BY <1>0, TabFields
  <2>2. [x EXCEPT !.at = "running", !.server = tabs[x.tab].key.server] \in Transfers
    BY <1>0, <2>1 DEF Transfers
  <2>3. transfers' \subseteq Transfers
    BY <1>1, <2>2, MovedType DEF RouteTransfer, TypeOK
  <2> QED
    BY <1>1, <2>3 DEF RouteTransfer, TypeOK
<1>2. ASSUME TransferWrites(x) PROVE TypeOK'
  <2>1. transfers' \subseteq Transfers
    BY <1>2, MovedType DEF TransferWrites
  <2>2. Current(x.server, x.path) \in Stamps
    BY <1>0, CurrentType
  <2>3. local' \in [Ids -> Stamps]
    BY <1>0, <1>2, <2>2 DEF TransferWrites, TypeOK
  <2>4. local[x.sid] \in Stamps /\ x.path \in Paths
    BY <1>0, FilesArePaths DEF TypeOK
  <2>5. srv' \in [Servers -> [Paths -> Seq(Stamps)]]
    <3>1. srv[x.server][x.path] \in Seq(Stamps)
      BY <1>0, <2>4 DEF TypeOK
    <3>2. Append(srv[x.server][x.path], local[x.sid]) \in Seq(Stamps)
      BY <2>4, <3>1
    <3> DEFINE list == Append(srv[x.server][x.path], local[x.sid])
               files == [srv[x.server] EXCEPT ![x.path] = list]
    <3>3. srv' \in {srv, [srv EXCEPT ![x.server] = files]}
      BY <1>0, <1>2 DEF TransferWrites, TypeOK
    <3> HIDE DEF list
    <3>4. files \in [Paths -> Seq(Stamps)]
      BY <1>0, <2>4, <3>2 DEF TypeOK, list
    <3> HIDE DEF files
    <3> QED
      BY <1>0, <3>3, <3>4 DEF TypeOK
  <2>6. sess' \in [Ids -> Sessions]
    <3> DEFINE known == sess[x.sid].known \union {local[x.sid]}
    <3>1. sess \in [Ids -> Sessions] /\ sess[x.sid].known \in SUBSET Stamps
      BY <1>0 DEF TypeOK, Sessions
    <3>2. known \in SUBSET Stamps
      BY <2>4, <3>1
    <3>3. sess' \in {sess, [sess EXCEPT ![x.sid].known = known]}
      BY <1>2 DEF TransferWrites
    <3> HIDE DEF known
    <3>4. [sess EXCEPT ![x.sid].known = known] \in [Ids -> Sessions]
      BY <1>0, <3>1, <3>2 DEF Sessions
    <3> QED
      BY <3>1, <3>3, <3>4, Zenon
  <2> QED
    BY <1>2, <2>1, <2>3, <2>5, <2>6 DEF TransferWrites, TypeOK
<1>3. ASSUME TransferFails(x) PROVE TypeOK'
  BY <1>3, MovedType DEF TransferFails, TypeOK
<1>4. ASSUME TransferCancelled(x) PROVE TypeOK'
  BY <1>4 DEF TransferCancelled, TypeOK
<1>5. ASSUME RetryTransfer(x) PROVE TypeOK'
  BY <1>5, MovedType DEF RetryTransfer, TypeOK
<1>6. ASSUME HandleTransferFinished(x) PROVE TypeOK'
  <2> DEFINE gone == IF Matches(x) /\ x.dir = "down" /\ x.at # "done" THEN {x.sid} ELSE {}
             left == IF x.at = "failed" THEN Moved(x, "failedRow") ELSE transfers \ {x}
  <2>1. /\ sess' = Finished(x) /\ local' = Deleted(gone) /\ watch' = watch \ gone
        /\ checks' = NotOf(gone, checks) /\ transfers' = NotOf(gone, left)
        /\ UNCHANGED <<appVars, nextId, nextCheck, srv, clock>>
    BY <1>6 DEF HandleTransferFinished
  <2>2. left \subseteq Transfers
    BY MovedType DEF TypeOK
  <2> HIDE DEF gone, left
  <2>3. local' \in [Ids -> Stamps] /\ checks' \subseteq Checks /\ transfers' \subseteq Transfers /\ watch' \subseteq Ids
    BY <2>1, <2>2, WithoutType, NotOfType DEF TypeOK
  <2>4. sess' \in [Ids -> Sessions]
    <3> DEFINE snap == IF x.dir = "up" /\ local[x.sid] # 0 THEN local[x.sid] ELSE sess[x.sid].snap
               ok == [sess EXCEPT ![x.sid].phase = "editing", ![x.sid].dirty = FALSE,
                                  ![x.sid].base = local[x.sid], ![x.sid].snap = snap]
    <3>1. sess \in [Ids -> Sessions] /\ sess[x.sid].snap \in Stamps /\ local[x.sid] \in Stamps
      BY <1>0 DEF TypeOK, Sessions
    <3>2. snap \in Stamps
      BY <3>1
    <3>3. sess' \in {sess, Without({x.sid}), [sess EXCEPT ![x.sid].phase = "editing"], ok}
      <4>1. [sess EXCEPT ![x.sid].phase = "editing", ![x.sid].dirty = FALSE, ![x.sid].base = local[x.sid],
                         ![x.sid].snap = IF x.dir = "up" /\ local[x.sid] # 0 THEN local[x.sid] ELSE @] = ok
        BY <1>0, <3>1 DEF Sessions
      <4> HIDE DEF ok
      <4> QED
        BY <2>1, <4>1, Zenon DEF Finished
    <3> HIDE DEF snap
    <3>4. ok \in [Ids -> Sessions]
      <4> DEFINE s == [sess[x.sid] EXCEPT !.phase = "editing", !.dirty = FALSE,
                                          !.base = local[x.sid], !.snap = snap]
      <4>1. s \in Sessions
        BY <1>0, <3>1, <3>2, FinishedType
      <4>2. ok = [sess EXCEPT ![x.sid] = s]
        BY <1>0, <3>1
      <4> HIDE DEF s, ok
      <4> QED
        BY <1>0, <3>1, <4>1, <4>2
    <3>5. Without({x.sid}) \in [Ids -> Sessions] /\ [sess EXCEPT ![x.sid].phase = "editing"] \in [Ids -> Sessions]
      BY <1>0, WithoutType, RevertedType, ZeroTypes
    <3> HIDE DEF ok
    <3> QED
      BY <3>1, <3>3, <3>4, <3>5
  <2> QED
    BY <2>1, <2>3, <2>4 DEF TypeOK
<1> QED
  BY <1>1, <1>2, <1>3, <1>4, <1>5, <1>6 DEF TransferStep

\* Every step keeps the types.
LEMMA TypeStep ==
    ASSUME TypeOK, PathsServed, [Next]_vars
    PROVE  TypeOK'
<1> USE DEF appVars, editVars, envVars
<1>1. ASSUME NEW s \in Servers, NEW p \in Paths, RemoteChange(s, p) PROVE TypeOK'
  <2>1. clock + 1 \in Stamps
    BY <1>1, EditAssumption DEF RemoteChange, TypeOK, Stamps
  <2>2. Append(srv[s][p], clock + 1) \in Seq(Stamps)
    BY <2>1 DEF TypeOK
  <2>3. srv' \in [Servers -> [Paths -> Seq(Stamps)]]
    BY <1>1, <2>2 DEF RemoteChange, TypeOK
  <2> QED
    BY <1>1, <2>1, <2>3 DEF RemoteChange, TypeOK
<1>2. ASSUME SweepOrphans PROVE TypeOK'
  <2>1. sess' \in [Ids -> Sessions] /\ local' \in [Ids -> Stamps]
    BY <1>2, WithoutType DEF SweepOrphans
  <2>2. checks' \subseteq Checks /\ transfers' \subseteq Transfers
    BY <1>2, NotOfType DEF SweepOrphans, TypeOK
  <2> QED
    BY <1>2, <2>1, <2>2 DEF SweepOrphans, TypeOK
<1>3. ASSUME UNCHANGED vars PROVE TypeOK'
  BY <1>3 DEF vars, TypeOK
<1> QED
  BY <1>1, <1>2, <1>3, TabType, UserType, SessionStepType, CheckType, TransferType DEF Next

-----------------------------------------------------------------------------
(* What a step does to sessions, copies, files and transfers, by kind         *)

\* The session goes on as what it is: neither registered, removed nor opened anew.
Goes(id) ==
    /\ sess'[id].path = sess[id].path
    /\ sess'[id].snap = sess[id].snap
    /\ sess'[id].known = sess[id].known
    /\ sess'[id].phase = "none" <=> sess[id].phase = "none"
    /\ sess'[id].phase = "downloading" <=> sess[id].phase = "downloading"

AllGo == nextId' = nextId /\ \A id \in Ids : Goes(id)
SameFiles == srv' = srv /\ local' = local /\ clock' = clock

\* The transfer y is x further on, and has not just written its file.
Same(x, y) ==
    /\ y.sid = x.sid /\ y.dir = x.dir /\ y.path = x.path
    /\ y.forced = x.forced /\ y.seen = x.seen

\* Nothing but tabs, phases and checks changes.
Quiet == AllGo /\ SameFiles /\ transfers' = transfers

\* A session that has its copy starts the upload y.
Uploads(y) ==
    /\ AllGo /\ SameFiles
    /\ transfers' = transfers \union {y}
    /\ y.sid \in Ids /\ sess[y.sid].phase \notin {"none", "downloading"}
    /\ y.dir = "up" /\ y.at = "queued" /\ y.path = sess[y.sid].path
    /\ y.forced \/ y.seen

\* The transfer x goes on as y, or it is dropped.
Moves(x, y) ==
    /\ AllGo /\ SameFiles
    /\ Same(x, y) /\ y.at # "done"
    /\ transfers' \in {transfers \ {x}, (transfers \ {x}) \union {y}}

\* The download x writes the copy of its session.
WritesDown(x, y) ==
    /\ AllGo /\ srv' = srv /\ clock' = clock
    /\ x.dir = "down" /\ local' = [local EXCEPT ![x.sid] = Current(x.server, x.path)]
    /\ Same(x, y) /\ transfers' = (transfers \ {x}) \union {y}

\* The upload x writes the file.
WritesUp(x, y) ==
    /\ nextId' = nextId /\ local' = local /\ clock' = clock
    /\ x.dir = "up" /\ local[x.sid] # 0
    /\ srv' = [srv EXCEPT ![x.server][x.path] = Append(@, local[x.sid])]
    /\ sess' = [sess EXCEPT ![x.sid].known = @ \union {local[x.sid]}]
    /\ Same(x, y) /\ transfers' = (transfers \ {x}) \union {y}

\* The session of x, whose transfer is done or whose upload failed, is back to editing.
Ends(x, y) ==
    /\ SameFiles /\ nextId' = nextId
    /\ \A id \in Ids : id # x.sid => Goes(id)
    /\ Matches(x)
    /\ sess'[x.sid].path = sess[x.sid].path /\ sess'[x.sid].known = sess[x.sid].known
    /\ sess'[x.sid].phase = "editing"
    /\ \/ sess'[x.sid].snap = sess[x.sid].snap
       \/ x.dir = "up" /\ x.at = "done" /\ sess'[x.sid].snap = local[x.sid]
    /\ Same(x, y) /\ y.at # "done"
    /\ \/ transfers' = transfers \ {x}
       \/ y.dir = "up" /\ transfers' = (transfers \ {x}) \union {y}

\* The sessions in gone are removed with all that is theirs.
Removes(gone) ==
    /\ sess' = Without(gone) /\ local' = Deleted(gone)
    /\ srv' = srv /\ clock' = clock /\ nextId' = nextId
    /\ transfers' \subseteq NotOf(gone, transfers)

\* And a session is registered, with its download y.
Starts(gone, s, y) ==
    /\ nextId + 1 \in Ids /\ nextId' = nextId + 1
    /\ local' = Deleted(gone) /\ srv' = srv /\ clock' = clock
    /\ s.phase = "downloading" /\ s.known = {s.snap} /\ s.path \in Files
    /\ y.sid = nextId + 1 /\ y.dir = "down" /\ y.at = "queued" /\ y.path = s.path
    /\ \/ sess' = [Without(gone) EXCEPT ![nextId + 1] = s]
          /\ transfers' = NotOf(gone, transfers) \union {y}
       \/ sess' = Without(gone) /\ transfers' = NotOf(gone, transfers)

\* A save of the copy, and a change by somebody else.
Saves(id) ==
    /\ AllGo /\ srv' = srv /\ transfers' = transfers
    /\ Live(id) /\ clock' = clock + 1 /\ local' = [local EXCEPT ![id] = clock + 1]

Changes(s, p) ==
    /\ AllGo /\ local' = local /\ transfers' = transfers
    /\ clock' = clock + 1 /\ srv' = [srv EXCEPT ![s][p] = Append(@, clock + 1)]

StepKind ==
    \/ Quiet
    \/ \E y : Uploads(y)
    \/ \E x \in transfers : \E y : Moves(x, y) \/ WritesDown(x, y) \/ WritesUp(x, y) \/ Ends(x, y)
    \/ \E gone \in SUBSET Ids : Removes(gone)
    \/ \E gone \in SUBSET Ids : \E s, y : Starts(gone, s, y)
    \/ \E id \in Ids : Saves(id)
    \/ \E s \in Servers, p \in Paths : Changes(s, p)

\* A new epoch of a tab only changes the phases of its sessions.
LEMMA UpdateEpochGoes ==
    ASSUME TypeOK, NEW t \in Tabs, NEW e, sess' = UpdateEpochForTab(t, e), nextId' = nextId
    PROVE  AllGo
<1> SUFFICES ASSUME NEW id \in Ids PROVE Goes(id)
  BY DEF AllGo
<1>1. sess[id] \in Sessions
  BY DEF TypeOK
<1>2. CASE ~(Live(id) /\ sess[id].tab = t)
  BY <1>2 DEF UpdateEpochForTab, Goes
<1>3. CASE Live(id) /\ sess[id].tab = t /\ sess[id].phase # "checking"
  <2>1. sess'[id] = [sess[id] EXCEPT !.epoch = e]
    BY <1>3 DEF UpdateEpochForTab
  <2> QED
    BY <1>1, <2>1 DEF Goes, Sessions
<1>4. CASE Live(id) /\ sess[id].tab = t /\ sess[id].phase = "checking"
  <2>1. sess'[id] = [sess[id] EXCEPT !.epoch = e, !.phase = "editing", !.check = 0, !.seenLocal = 0]
    BY <1>4 DEF UpdateEpochForTab
  <2> QED
    BY <1>1, <1>4, <2>1 DEF Goes, Sessions
<1> QED
  BY <1>2, <1>3, <1>4

\* A step of a tab is of one of the kinds that the invariant tells apart.
LEMMA TabKind ==
    ASSUME TypeOK, NEW t \in Tabs, TabStep(t)
    PROVE  StepKind
<1> USE DEF appVars, editVars, envVars
<1>1. ASSUME NEW s \in Servers, NEW saved \in BOOLEAN, Connect(t, s, saved) PROVE Quiet
  <2>1. AllGo
    BY <1>1, UpdateEpochGoes DEF Connect
  <2> QED
    BY <1>1, <2>1 DEF Connect, Quiet, SameFiles
<1>2. ASSUME HandleDisconnected(t) PROVE Quiet
  <2>1. AllGo
    BY <1>2, UpdateEpochGoes DEF HandleDisconnected
  <2> QED
    BY <1>2, <2>1 DEF HandleDisconnected, Quiet, SameFiles
<1>3. ASSUME ConnectEnds(t) \/ ConnectionLost(t) \/ CloseWindow(t) PROVE Quiet
  BY <1>3 DEF ConnectEnds, ConnectionLost, CloseWindow, Quiet, SameFiles, AllGo, Goes
<1>4. ASSUME CloseTab(t) PROVE \E gone \in SUBSET Ids : Removes(gone)
  <2>1. SessionsOf({t}) \in SUBSET Ids
    BY DEF SessionsOf
  <2>2. Removes(SessionsOf({t}))
    BY <1>4 DEF CloseTab, Removes
  <2> QED
    BY <2>1, <2>2
<1> QED
  BY <1>1, <1>2, <1>3, <1>4 DEF TabStep, StepKind

\* start_download after the sessions in gone were removed.
LEMMA StartKind ==
    ASSUME TypeOK, NEW gone \in SUBSET Ids, NEW t \in Tabs, NEW edit, NEW e, NEW k,
           edit.path \in Files, StartDownload(gone, t, edit, e, k),
           local' = Deleted(gone), srv' = srv, clock' = clock
    PROVE  StepKind
<1> DEFINE s == Session(t, edit, e, k)
           y == Command(nextId + 1, s, "down", FALSE, TRUE)
<1>1. nextId + 1 \in Ids /\ nextId' = nextId + 1
  BY EditAssumption DEF StartDownload, TypeOK, Ids
<1>2. s.phase = "downloading" /\ s.known = {s.snap} /\ s.path = edit.path
  BY DEF Session
<1>3. y.sid = nextId + 1 /\ y.dir = "down" /\ y.at = "queued" /\ y.path = s.path
  BY DEF Command
<1>4. \/ sess' = [Without(gone) EXCEPT ![nextId + 1] = s]
         /\ transfers' = NotOf(gone, transfers) \union {y}
      \/ sess' = Without(gone) /\ transfers' = NotOf(gone, transfers)
  BY DEF StartDownload
<1> HIDE DEF s, y
<1>5. Starts(gone, s, y)
  BY <1>1, <1>2, <1>3, <1>4 DEF Starts
<1> QED
  BY <1>5 DEF StepKind

\* A file the user opens or confirms is one of Files.
LEMMA OpenKind ==
    ASSUME TypeOK, PathsServed, NEW t \in Tabs, NEW edit, edit.path \in Files,
           BeginEditResolved(t, edit)
    PROVE  StepKind
<1> DEFINE k == tabs[t].key
           link == SessionsOf(TabsOf(Repointed(k, edit)))
           active == FindActive(k, edit.path, link)
           reaped == link \union SessionsOf(TabsOf(active))
<1>1. local' = Deleted(reaped) /\ UNCHANGED <<srv, clock>>
  BY DEF BeginEditResolved
<1>2. \/ StartDownload(reaped, t, edit, tabs[t].epoch, k)
      \/ sess' = Without(reaped) /\ transfers' = NotOf(reaped, transfers) /\ UNCHANGED nextId
  BY DEF BeginEditResolved
<1>3. reaped \in SUBSET Ids
  BY DEF SessionsOf
<1> HIDE DEF k, link, active, reaped
<1>4. CASE StartDownload(reaped, t, edit, tabs[t].epoch, k)
  BY <1>1, <1>3, <1>4, StartKind
<1>5. CASE sess' = Without(reaped) /\ transfers' = NotOf(reaped, transfers) /\ UNCHANGED nextId
  <2>1. Removes(reaped)
    BY <1>1, <1>5 DEF Removes
  <2> QED
    BY <1>3, <2>1 DEF StepKind
<1> QED
  BY <1>2, <1>4, <1>5

\* The row the user opens.
LEMMA OpenOpens ==
    ASSUME NEW t \in Tabs, Open(t)
    PROVE  \E edit : edit.path \in Files /\ BeginEditResolved(t, edit)
<1>1. PICK name \in Paths : \E path \in Targets[name] :
        \E i \in 1 .. Len(srv[tabs[t].key.server][path]) :
          BeginEditResolved(t, [name |-> name, path |-> path,
                                listed |-> srv[tabs[t].key.server][path][i]])
  BY DEF Open
<1>2. PICK path \in Targets[name] : \E i \in 1 .. Len(srv[tabs[t].key.server][path]) :
          BeginEditResolved(t, [name |-> name, path |-> path,
                                listed |-> srv[tabs[t].key.server][path][i]])
  BY <1>1
<1>3. PICK i \in 1 .. Len(srv[tabs[t].key.server][path]) :
          BeginEditResolved(t, [name |-> name, path |-> path,
                                listed |-> srv[tabs[t].key.server][path][i]])
  BY <1>2
<1> DEFINE edit == [name |-> name, path |-> path, listed |-> srv[tabs[t].key.server][path][i]]
<1>4. edit.path \in Files
  BY DEF Files
<1> QED
  BY <1>3, <1>4, Zenon

\* So is a step of the user.
LEMMA UserKind ==
    ASSUME TypeOK, PathsServed, NothingOfTheGone, NEW t \in Tabs, UserStep(t)
    PROVE  StepKind
<1> USE DEF appVars, editVars, envVars
<1>1. ASSUME Open(t) PROVE StepKind
  BY <1>1, OpenOpens, OpenKind
<1>2. ASSUME ConfirmLargeEdit(t) PROVE StepKind
  <2>1. modal[t].path \in Files
    BY <1>2 DEF ConfirmLargeEdit, PathsServed
  <2>2. local' = Deleted({}) /\ srv' = srv /\ clock' = clock
    BY <1>2 DEF ConfirmLargeEdit, Deleted, TypeOK
  <2>3. CASE StartDownload({}, t, modal[t], tabs[t].epoch, tabs[t].key)
    BY <2>1, <2>2, <2>3, StartKind
  <2>4. CASE UNCHANGED <<sess, nextId, transfers>>
    <3>1. Quiet
      BY <1>2, <2>4 DEF ConfirmLargeEdit, Quiet, AllGo, SameFiles, Goes
    <3> QED
      BY <3>1 DEF StepKind
  <2> QED
    BY <1>2, <2>3, <2>4 DEF ConfirmLargeEdit
<1>3. ASSUME CancelLargeEdit(t) PROVE Quiet
  BY <1>3 DEF CancelLargeEdit, Quiet, AllGo, SameFiles, Goes
<1>4. ASSUME NEW row \in Paths, RequestUpload(t, row) PROVE Quiet
  <2>1. PICK id \in FoundForTabPath(t, row) :
          /\ sess[id].phase = "editing"
          /\ \/ sess' = [sess EXCEPT ![id].phase = "checking", ![id].epoch = tabs[t].epoch,
                                     ![id].check = nextCheck + 1, ![id].seenLocal = local[id]]
             \/ sess' = Reverted([sess EXCEPT ![id].epoch = tabs[t].epoch], id)
             \/ UNCHANGED sess
    BY <1>4 DEF RequestUpload
  <2>2. id \in Ids /\ sess \in [Ids -> Sessions]
    BY DEF FoundForTabPath, TypeOK
  <2>3. ASSUME NEW j \in Ids PROVE Goes(j)
    BY <2>1, <2>2 DEF Goes, Reverted, Sessions
  <2> QED
    BY <1>4, <2>3 DEF RequestUpload, Quiet, AllGo, SameFiles
<1> QED
  BY <1>1, <1>2, <1>3, <1>4 DEF UserStep, StepKind

\* So is a step of a session.
LEMMA SessionKind ==
    ASSUME TypeOK, PathsServed, NothingOfTheGone, NEW id \in Ids, SessionStep(id)
    PROVE  StepKind
<1> USE DEF appVars, editVars, envVars
<1>0. sess \in [Ids -> Sessions]
  BY DEF TypeOK
<1>1. ASSUME Overwrite(id) PROVE \E y : Uploads(y)
  <2> DEFINE y == Command(id, sess[id], "up", TRUE, FALSE)
  <2>1. y.sid = id /\ y.dir = "up" /\ y.at = "queued" /\ y.path = sess[id].path /\ y.forced
    BY DEF Command
  <2>2. AllGo
    BY <1>0, <1>1 DEF Overwrite, AllGo, Goes, Sessions
  <2>3. transfers' = transfers \union {y} /\ sess[id].phase = "conflict" /\ SameFiles
    BY <1>1 DEF Overwrite, SameFiles
  <2> HIDE DEF y
  <2>4. Uploads(y)
    BY <2>1, <2>2, <2>3 DEF Uploads
  <2> QED
    BY <2>4
<1>2. ASSUME DiscardLocal(id) PROVE StepKind
  <2> DEFINE edit == [name |-> sess[id].name, path |-> sess[id].path, listed |-> sess[id].snap]
             G == {id}
  <2>1. edit.path \in Files /\ sess[id].tab \in Tabs /\ G \in SUBSET Ids
    BY <1>0, <1>2 DEF DiscardLocal, PathsServed, Live, Sessions
  <2>2. StartDownload(G, sess[id].tab, edit, sess[id].epoch, sess[id].key)
        /\ local' = Deleted(G) /\ srv' = srv /\ clock' = clock
    BY <1>2 DEF DiscardLocal
  <2> HIDE DEF edit, G
  <2> QED
    BY <2>1, <2>2, StartKind
<1>3. ASSUME DecideLater(id) PROVE Quiet
  BY <1>0, <1>3 DEF DecideLater, Quiet, AllGo, SameFiles, Goes, Sessions
<1>4. ASSUME SaveLocal(id) PROVE Saves(id)
  BY <1>4 DEF SaveLocal, Saves, AllGo, Goes, Live
<1>5. ASSUME HandleLocalEditModified(id) PROVE Quiet
  BY <1>0, <1>5 DEF HandleLocalEditModified, Quiet, AllGo, SameFiles, Goes, Sessions
<1> QED
  BY <1>1, <1>2, <1>3, <1>4, <1>5 DEF SessionStep, StepKind

\* The heart of UploadAuthorised: an answer that shows the snapshot shows a stamp that
\* is on a server, so the snapshot is no private save and the session knows it.
LEMMA AuthorisedIsKnown ==
    ASSUME TypeOK, AnswersSeen, SnapshotKnown, NEW c \in checks, c.sid \in Ids, Live(c.sid),
           c.result # 0, Authorises(c)
    PROVE  c.result \in sess[c.sid].known
<1>1. OnServer(sess[c.sid].snap)
  BY DEF AnswersSeen, Authorises
<1>2. ~Private(c.sid, sess[c.sid].snap)
  BY <1>1, Zenon DEF Private
<1> QED
  BY <1>2 DEF SnapshotKnown, Authorises

\* So is a step of a check, whose upload is authorised by what it has seen.
LEMMA CheckKind ==
    ASSUME TypeOK, AnswersSeen, SnapshotKnown, NEW c \in checks, CheckStep(c)
    PROVE  StepKind
<1> USE DEF appVars, editVars, envVars
<1>0. sess \in [Ids -> Sessions] /\ c.sid \in Ids
  BY DEF TypeOK, Checks
<1>1. ASSUME RouteCheckRemoteEditSnapshot(c) \/ AnswerCheck(c) PROVE Quiet
  BY <1>1 DEF RouteCheckRemoteEditSnapshot, AnswerCheck, Quiet, AllGo, SameFiles, Goes
<1>2. ASSUME HandleCheckResult(c) PROVE StepKind
  <2>1. SameFiles /\ nextId' = nextId
    BY <1>2 DEF HandleCheckResult, SameFiles
  <2>2. CASE UNCHANGED <<sess, transfers>>
    BY <2>1, <2>2 DEF StepKind, Quiet, AllGo, Goes
  <2>3. CASE Applicable(c) /\ OnCheckResult(c)
    <3> DEFINE seen == c.result \in sess[c.sid].known
               y == Command(c.sid, sess[c.sid], "up", FALSE, seen)
    <3>1. sess[c.sid].phase = "checking"
      BY <2>3 DEF Applicable
    <3>2. sess' \in {Reverted(sess, c.sid), [Reverted(sess, c.sid) EXCEPT ![c.sid].phase = "uploading"],
                     [Reverted(sess, c.sid) EXCEPT ![c.sid].phase = "conflict"]}
      BY <2>3 DEF OnCheckResult
    <3>3. AllGo
      BY <1>0, <2>1, <3>1, <3>2 DEF AllGo, Goes, Reverted, Sessions
    <3>4. \/ transfers' = transfers
          \/ transfers' = transfers \union {y} /\ c.result # 0 /\ Authorises(c)
      BY <2>3 DEF OnCheckResult
    <3>5. y.sid = c.sid /\ y.dir = "up" /\ y.at = "queued" /\ y.path = sess[c.sid].path /\ y.seen = seen
      BY DEF Command
    <3>6. CASE transfers' = transfers
      BY <2>1, <3>3, <3>6 DEF StepKind, Quiet
    <3>7. CASE transfers' = transfers \union {y} /\ c.result # 0 /\ Authorises(c)
      <4>1. seen
        BY <1>0, <3>1, <3>7, AuthorisedIsKnown DEF Live
      <4> HIDE DEF seen, y
      <4>2. Uploads(y)
        BY <1>0, <2>1, <3>1, <3>3, <3>5, <3>7, <4>1 DEF Uploads
      <4> QED
        BY <4>2 DEF StepKind
    <3> HIDE DEF seen, y
    <3> QED
      BY <3>4, <3>6, <3>7
  <2> QED
    BY <1>2, <2>2, <2>3 DEF HandleCheckResult
<1> QED
  BY <1>1, <1>2 DEF CheckStep, StepKind

\* So is a step of a transfer.
LEMMA TransferKind ==
    ASSUME TypeOK, NEW x \in transfers, TransferStep(x)
    PROVE  StepKind
<1> USE DEF appVars, editVars, envVars
<1>0. x \in Transfers /\ x.sid \in Ids /\ sess \in [Ids -> Sessions] /\ x.dir \in {"down", "up"}
  BY DEF TypeOK, Transfers
<1>1. ASSUME NEW at PROVE Same(x, [x EXCEPT !.at = at]) /\ [x EXCEPT !.at = at].at = at
  BY <1>0 DEF Same, Transfers
<1>2. ASSUME UNCHANGED <<sess, nextId>> PROVE AllGo
  BY <1>2 DEF AllGo, Goes
<1>3. ASSUME RouteTransfer(x) PROVE \E y : Moves(x, y)
  <2> DEFINE r == [x EXCEPT !.at = "running", !.server = tabs[x.tab].key.server]
             f == [x EXCEPT !.at = "refused"]
  <2>1. Same(x, r) /\ r.at # "done"
    BY <1>0 DEF Same, Transfers
  <2>2. Same(x, f) /\ f.at # "done"
    BY <1>1
  <2>3. \/ transfers' = (transfers \ {x}) \union {r}
        \/ transfers' = (transfers \ {x}) \union {f}
        \/ transfers' = transfers \ {x}
    BY <1>3 DEF RouteTransfer, Moved
  <2>4. AllGo /\ SameFiles
    BY <1>2, <1>3 DEF RouteTransfer, SameFiles
  <2> HIDE DEF r, f
  <2>5. Moves(x, r) \/ Moves(x, f)
    BY <2>1, <2>2, <2>3, <2>4 DEF Moves
  <2> QED
    BY <2>5
<1>4. ASSUME TransferWrites(x) PROVE \E y : WritesDown(x, y) \/ WritesUp(x, y)
  <2> DEFINE y == [x EXCEPT !.at = "done"]
  <2>1. Same(x, y)
    BY <1>1
  <2>2. transfers' = (transfers \ {x}) \union {y} /\ nextId' = nextId /\ clock' = clock
    BY <1>4 DEF TransferWrites, Moved
  <2> HIDE DEF y
  <2>3. WritesDown(x, y) \/ WritesUp(x, y)
    BY <1>2, <1>4, <2>1, <2>2 DEF TransferWrites, WritesDown, WritesUp
  <2> QED
    BY <2>3
<1>5. ASSUME TransferFails(x) \/ RetryTransfer(x) \/ TransferCancelled(x) PROVE \E y : Moves(x, y)
  <2> DEFINE f == [x EXCEPT !.at = "failed"]
             r == [x EXCEPT !.at = "running"]
  <2>1. Same(x, f) /\ f.at # "done"
    BY <1>1
  <2>2. Same(x, r) /\ r.at # "done"
    BY <1>1
  <2>3. \/ transfers' = (transfers \ {x}) \union {r}
        \/ transfers' = (transfers \ {x}) \union {f}
        \/ transfers' = transfers \ {x}
    BY <1>5 DEF TransferFails, RetryTransfer, TransferCancelled, Moved
  <2>4. AllGo /\ SameFiles
    BY <1>2, <1>5 DEF TransferFails, RetryTransfer, TransferCancelled, SameFiles
  <2> HIDE DEF r, f
  <2>5. Moves(x, r) \/ Moves(x, f)
    BY <2>1, <2>2, <2>3, <2>4 DEF Moves
  <2> QED
    BY <2>5
<1>6. ASSUME HandleTransferFinished(x) PROVE StepKind
  <2> DEFINE G == {x.sid}
             y == [x EXCEPT !.at = "failedRow"]
             left == IF x.at = "failed" THEN (transfers \ {x}) \union {y} ELSE transfers \ {x}
  <2>0. Same(x, y) /\ y.at # "done"
    BY <1>1
  <2>1. sess' = Finished(x) /\ srv' = srv /\ clock' = clock /\ nextId' = nextId
    BY <1>6 DEF HandleTransferFinished
  <2>2. CASE Matches(x) /\ x.dir = "down" /\ x.at # "done"
    <3>1. local' = Deleted(G) /\ transfers' = NotOf(G, left)
      BY <1>6, <2>2 DEF HandleTransferFinished, Moved
    <3>2. sess' = Without(G)
      BY <2>1, <2>2, Zenon DEF Finished
    <3>3. transfers' \subseteq NotOf(G, transfers)
      BY <3>1, <2>0 DEF NotOf, Same
    <3>4. G \in SUBSET Ids
      BY <1>0
    <3> HIDE DEF G, y, left
    <3>5. Removes(G)
      BY <2>1, <3>1, <3>2, <3>3 DEF Removes
    <3> QED
      BY <3>4, <3>5 DEF StepKind
  <2>3. CASE ~(Matches(x) /\ x.dir = "down" /\ x.at # "done")
    <3>1. local' = Deleted({}) /\ transfers' = NotOf({}, left)
      BY <1>6, <2>3 DEF HandleTransferFinished, Moved
    <3>2. local' = local /\ transfers' = left
      BY <3>1 DEF Deleted, NotOf, TypeOK
    <3>3. transfers' \in {transfers \ {x}, (transfers \ {x}) \union {y}} /\ SameFiles
      BY <2>1, <3>2 DEF SameFiles
    <3>4. CASE ~Matches(x)
      <4>1. sess' = sess
        BY <2>1, <3>4 DEF Finished
      <4> HIDE DEF y, left
      <4>2. Moves(x, y)
        BY <1>2, <2>0, <2>1, <3>3, <4>1 DEF Moves
      <4> QED
        BY <4>2 DEF StepKind
    <3>5. CASE Matches(x)
      <4>1. /\ sess'[x.sid].path = sess[x.sid].path /\ sess'[x.sid].known = sess[x.sid].known
            /\ sess'[x.sid].phase = "editing"
            /\ \/ sess'[x.sid].snap = sess[x.sid].snap
               \/ x.dir = "up" /\ x.at = "done" /\ sess'[x.sid].snap = local[x.sid]
        BY <1>0, <2>1, <2>3, <3>5 DEF Finished, Sessions
      <4>2. \A id \in Ids : id # x.sid => sess'[id] = sess[id]
        BY <1>0, <2>1, <2>3, <3>5 DEF Finished
      <4>3. \/ transfers' = transfers \ {x}
            \/ y.dir = "up" /\ transfers' = (transfers \ {x}) \union {y}
        BY <1>0, <2>0, <2>3, <3>2, <3>5 DEF Same
      <4> HIDE DEF y, left
      <4>4. \A id \in Ids : id # x.sid => Goes(id)
        BY <4>2 DEF Goes
      <4>5. Ends(x, y)
        BY <2>0, <2>1, <3>3, <3>5, <4>1, <4>3, <4>4 DEF Ends
      <4> QED
        BY <4>5 DEF StepKind
    <3> QED
      BY <3>4, <3>5
  <2> QED
    BY <2>2, <2>3
<1> QED
  BY <1>3, <1>4, <1>5, <1>6 DEF TransferStep, StepKind

\* So is every step.
LEMMA NextKind ==
    ASSUME IInv, [Next]_vars
    PROVE  StepKind
<1> USE DEF IInv
<1>1. ASSUME NEW s \in Servers, NEW p \in Paths, RemoteChange(s, p) PROVE Changes(s, p)
  BY <1>1 DEF RemoteChange, Changes, AllGo, Goes, appVars, editVars
<1>2. ASSUME SweepOrphans PROVE \E gone \in SUBSET Ids : Removes(gone)
  <2> DEFINE orphans == SessionsOf({t \in Tabs : ~tabs[t].open})
  <2>1. orphans \in SUBSET Ids /\ Removes(orphans)
    BY <1>2 DEF SweepOrphans, Removes, SessionsOf
  <2> HIDE DEF orphans
  <2> QED
    BY <2>1
<1>3. ASSUME UNCHANGED vars PROVE Quiet
  BY <1>3 DEF vars, appVars, editVars, envVars, Quiet, AllGo, SameFiles, Goes
<1>4. ASSUME NEW s \in Servers, NEW p \in Paths, RemoteChange(s, p) PROVE StepKind
  BY <1>1, <1>4 DEF StepKind
<1>5. ASSUME SweepOrphans \/ UNCHANGED vars PROVE StepKind
  BY <1>2, <1>3, <1>5 DEF StepKind
<1> QED
  BY <1>4, <1>5, TabKind, UserKind, SessionKind, CheckKind, TransferKind DEF Next

-----------------------------------------------------------------------------
(* The invariant, one part after the other                                    *)

\* What the servers hold after one more version of a file.
LEMMA AppendedOnServer ==
    ASSUME TypeOK, NEW s \in Servers, NEW p \in Paths, NEW v,
           srv' = [srv EXCEPT ![s][p] = Append(@, v)]
    PROVE  \A w : OnServer(w)' <=> OnServer(w) \/ w = v
<1> DEFINE old == srv[s][p]
           new == Append(old, v)
<1>1. old \in Seq(Stamps)
  BY DEF TypeOK
<1>2. srv'[s][p] = new
  BY DEF TypeOK
<1>3. \A q \in Servers, r \in Paths : ~(q = s /\ r = p) => srv'[q][r] = srv[q][r]
  BY DEF TypeOK
<1>4. /\ DOMAIN old = 1 .. Len(old) /\ Len(old) \in Nat
      /\ DOMAIN new = 1 .. (Len(old) + 1)
      /\ \A i \in DOMAIN old : new[i] = old[i]
      /\ new[Len(old) + 1] = v
  BY <1>1
<1> HIDE DEF new
<1>5. ASSUME NEW w, OnServer(w)' PROVE OnServer(w) \/ w = v
  <2>1. PICK q \in Servers, r \in Paths : \E i \in DOMAIN srv'[q][r] : srv'[q][r][i] = w
    BY <1>5 DEF OnServer
  <2>2. CASE q = s /\ r = p
    <3>1. PICK i \in DOMAIN new : new[i] = w
      BY <1>2, <2>1, <2>2
    <3>2. i \in DOMAIN old \/ i = Len(old) + 1
      BY <1>4
    <3> QED
      BY <1>4, <3>1, <3>2 DEF OnServer
  <2>3. CASE ~(q = s /\ r = p)
    BY <1>3, <2>1, <2>3 DEF OnServer
  <2> QED
    BY <2>2, <2>3
<1>6. ASSUME NEW w, OnServer(w) PROVE OnServer(w)'
  <2>1. PICK q \in Servers, r \in Paths : \E i \in DOMAIN srv[q][r] : srv[q][r][i] = w
    BY <1>6 DEF OnServer
  <2>2. CASE q = s /\ r = p
    <3>1. PICK i \in DOMAIN old : old[i] = w
      BY <2>1, <2>2
    <3>2. i \in DOMAIN new /\ new[i] = w
      BY <1>4, <3>1
    <3> QED
      BY <1>2, <3>2 DEF OnServer
  <2>3. CASE ~(q = s /\ r = p)
    BY <1>3, <2>1, <2>3 DEF OnServer
  <2> QED
    BY <2>2, <2>3
<1>7. OnServer(v)'
  <2>1. Len(old) + 1 \in DOMAIN new
    BY <1>4
  <2> QED
    BY <1>2, <1>4, <2>1 DEF OnServer
<1> QED
  BY <1>5, <1>6, <1>7

\* No stamp on a server is newer than the clock: the clause of StampsOld in one word.
LEMMA OldOnServer ==
    ASSUME StampsOld, NEW v, OnServer(v)
    PROVE  v <= clock
BY DEF StampsOld, OnServer

\* What a step may add to the servers.
LEMMA ServerStep ==
    ASSUME TypeOK, PathsServed, StepKind
    PROVE  \/ srv' = srv
           \/ \E x \in transfers : \E y : WritesUp(x, y) /\ \A w : OnServer(w)' <=> OnServer(w) \/ w = local[x.sid]
           \/ \E s \in Servers, p \in Paths : Changes(s, p) /\ \A w : OnServer(w)' <=> OnServer(w) \/ w = clock + 1
<1>1. ASSUME NEW x \in transfers, NEW y, WritesUp(x, y)
      PROVE  \A w : OnServer(w)' <=> OnServer(w) \/ w = local[x.sid]
  <2>1. x.server \in Servers /\ x.path \in Paths
    BY DEF TypeOK, Transfers
  <2>2. srv' = [srv EXCEPT ![x.server][x.path] = Append(@, local[x.sid])]
    BY <1>1 DEF WritesUp
  <2> QED
    BY <2>1, <2>2, AppendedOnServer
<1>2. ASSUME NEW s \in Servers, NEW p \in Paths, Changes(s, p)
      PROVE  \A w : OnServer(w)' <=> OnServer(w) \/ w = clock + 1
  <2>1. srv' = [srv EXCEPT ![s][p] = Append(@, clock + 1)]
    BY <1>2 DEF Changes
  <2> QED
    BY <2>1, AppendedOnServer
<1>3. CASE Quiet \/ (\E y : Uploads(y)) \/ (\E id \in Ids : Saves(id))
  BY <1>3 DEF Quiet, Uploads, Saves, SameFiles
<1>4. CASE \/ \E gone \in SUBSET Ids : Removes(gone)
           \/ \E gone \in SUBSET Ids : \E s, y : Starts(gone, s, y)
  BY <1>4 DEF Removes, Starts
<1>5. CASE \E x \in transfers : \E y : Moves(x, y) \/ WritesDown(x, y) \/ Ends(x, y)
  BY <1>5 DEF Moves, WritesDown, Ends, SameFiles
<1>6. CASE \E x \in transfers : \E y : WritesUp(x, y)
  BY <1>1, <1>6
<1>7. CASE \E s \in Servers, p \in Paths : Changes(s, p)
  BY <1>2, <1>7
<1> QED
  BY <1>3, <1>4, <1>5, <1>6, <1>7 DEF StepKind

\* Where a copy comes from, or that it is deleted.
LEMMA LocalStep ==
    ASSUME TypeOK, PathsServed, TransfersFit, StepKind, NEW id \in Ids
    PROVE  \/ local'[id] = local[id]
           \/ local'[id] = 0
           \/ local'[id] = clock + 1 /\ clock' = clock + 1
           \/ OnServer(local'[id]) /\ sess[id].phase = "downloading"
<1>0. local \in [Ids -> Stamps]
  BY DEF TypeOK
<1>1. ASSUME NEW x \in transfers, NEW y, WritesDown(x, y)
      PROVE  \/ local'[id] = local[id]
             \/ OnServer(local'[id]) /\ sess[id].phase = "downloading"
  <2>1. x.sid \in Ids /\ x.server \in Servers /\ x.path \in Files
    BY DEF TypeOK, Transfers, PathsServed
  <2>2. OnServer(Current(x.server, x.path))
    BY <2>1, CurrentType
  <2>3. sess[x.sid].phase = "downloading"
    BY <1>1 DEF WritesDown, TransfersFit
  <2> DEFINE v == Current(x.server, x.path)
  <2>4. local' = [local EXCEPT ![x.sid] = v]
    BY <1>1 DEF WritesDown
  <2> HIDE DEF v
  <2>5. local'[id] = local[id] \/ (id = x.sid /\ local'[id] = v)
    BY <1>0, <2>1, <2>4
  <2> QED
    BY <2>2, <2>3, <2>5 DEF v
<1>2. ASSUME NEW gone, local' = Deleted(gone) PROVE local'[id] = local[id] \/ local'[id] = 0
  BY <1>2 DEF Deleted
<1>3. ASSUME NEW j \in Ids, Saves(j)
      PROVE  \/ local'[id] = local[id]
             \/ local'[id] = clock + 1 /\ clock' = clock + 1
  BY <1>0, <1>3 DEF Saves
<1>4. CASE Quiet \/ (\E y : Uploads(y)) \/ (\E s \in Servers, p \in Paths : Changes(s, p))
  BY <1>4 DEF Quiet, Uploads, Changes, SameFiles
<1>5. CASE \/ \E gone \in SUBSET Ids : Removes(gone)
           \/ \E gone \in SUBSET Ids : \E s, y : Starts(gone, s, y)
  BY <1>2, <1>5 DEF Removes, Starts
<1>6. CASE \E x \in transfers : \E y : Moves(x, y) \/ WritesUp(x, y) \/ Ends(x, y)
  BY <1>6 DEF Moves, WritesUp, Ends, SameFiles
<1> QED
  BY <1>1, <1>3, <1>4, <1>5, <1>6 DEF StepKind

\* The clock stands still or makes one new stamp.
LEMMA ClockStep ==
    ASSUME TypeOK, StepKind
    PROVE  clock \in Nat /\ clock' \in {clock, clock + 1}
<1>1. clock \in Nat
  BY EditAssumption DEF TypeOK, Stamps
<1> QED
  BY <1>1 DEF StepKind, Quiet, Uploads, Moves, WritesDown, WritesUp, Ends, Removes, Starts, Saves,
        Changes, SameFiles

\* A new stamp is the newest.
LEMMA StampsStep ==
    ASSUME TypeOK, StampsOld, PathsServed, TransfersFit, StepKind, TypeOK'
    PROVE  StampsOld'
<1>1. clock \in Nat /\ clock' \in {clock, clock + 1}
  BY ClockStep
<1>2. \A id \in Ids : local[id] \in Nat /\ local[id] <= clock
  BY EditAssumption DEF TypeOK, StampsOld, Stamps
<1>3. ASSUME NEW id \in Ids PROVE local'[id] <= clock'
  <2>1. OnServer(local'[id]) => local'[id] <= clock
    BY OldOnServer
  <2>2. local'[id] \in Nat
    BY EditAssumption DEF TypeOK, Stamps
  <2> QED
    BY <1>1, <1>2, <2>1, <2>2, LocalStep
<1>4. ASSUME NEW s \in Servers, NEW p \in Paths, NEW i \in DOMAIN srv'[s][p],
             NEW v, v = srv'[s][p][i]
      PROVE  v <= clock'
  <2>1. v \in Nat
    <3>1. srv'[s][p] \in Seq(Stamps)
      BY DEF TypeOK
    <3> QED
      BY <1>4, <3>1, EditAssumption DEF Stamps
  <2>2. OnServer(v)'
    BY <1>4 DEF OnServer
  <2>3. OnServer(v) => v <= clock
    BY OldOnServer
  <2>4. CASE srv' = srv
    <3>1. OnServer(v)
      BY <2>2, <2>4 DEF OnServer
    <3> QED
      BY <1>1, <2>1, <2>3, <3>1
  <2>5. ASSUME NEW x \in transfers, NEW y, WritesUp(x, y), \A w : OnServer(w)' <=> OnServer(w) \/ w = local[x.sid]
        PROVE  v <= clock'
    <3>1. x.sid \in Ids
      BY DEF TypeOK, Transfers
    <3>2. OnServer(v) \/ v = local[x.sid]
      BY <2>2, <2>5
    <3> QED
      BY <1>1, <1>2, <2>1, <2>3, <3>1, <3>2
  <2>6. ASSUME NEW q \in Servers, NEW r \in Paths, Changes(q, r), \A w : OnServer(w)' <=> OnServer(w) \/ w = clock + 1
        PROVE  v <= clock'
    <3>1. OnServer(v) \/ v = clock + 1
      BY <2>2, <2>6
    <3>2. clock' = clock + 1
      BY <2>6 DEF Changes
    <3> QED
      BY <1>1, <2>1, <2>3, <3>1, <3>2
  <2> QED
    BY <2>4, <2>5, <2>6, ServerStep
<1> QED
  BY <1>3, <1>4 DEF StampsOld

\* A stamp that has been on a server has been there ever since.
LEMMA OnServerStays ==
    ASSUME TypeOK, PathsServed, StepKind, NEW v, OnServer(v)
    PROVE  OnServer(v)'
<1>1. CASE srv' = srv
  BY <1>1 DEF OnServer
<1> QED
  BY <1>1, ServerStep

\* Where a check comes from, and what its answer shows.
CheckFrom(d) ==
    \/ \E c \in checks : d.path = c.path /\ d.result = c.result
    \/ d.path \in Files /\ (d.result = 0 \/ OnServer(d.result))

\* Where a check after a step comes from.
LEMMA ChecksFrom ==
    ASSUME IInv, [Next]_vars, NEW d \in checks'
    PROVE  CheckFrom(d)
<1> USE DEF IInv, appVars, editVars, envVars
<1>1. ASSUME checks' \subseteq checks PROVE CheckFrom(d)
  BY <1>1 DEF CheckFrom
<1>2. ASSUME NEW ids, checks' = NotOf(ids, checks) PROVE checks' \subseteq checks
  BY <1>2 DEF NotOf
<1>3. ASSUME NEW t \in Tabs, TabStep(t) PROVE checks' \subseteq checks
  BY <1>3, <1>2 DEF TabStep, Connect, ConnectEnds, ConnectionLost, HandleDisconnected, CloseTab, CloseWindow,
        WithoutMailboxOf
<1>4. ASSUME NEW t \in Tabs, Open(t) PROVE checks' \subseteq checks
  <2>1. PICK edit : BeginEditResolved(t, edit)
    BY <1>4, OpenOpens
  <2>2. \E ids : checks' = NotOf(ids, checks)
    BY <2>1, Zenon DEF BeginEditResolved
  <2> QED
    BY <1>2, <2>2
<1>5. ASSUME NEW t \in Tabs, ConfirmLargeEdit(t) \/ CancelLargeEdit(t) PROVE checks' \subseteq checks
  BY <1>5 DEF ConfirmLargeEdit, CancelLargeEdit
<1>6. ASSUME NEW t \in Tabs, NEW row \in Paths, RequestUpload(t, row) PROVE CheckFrom(d)
  <2>1. PICK id \in FoundForTabPath(t, row) :
          checks' \in {checks, checks \union
             {[sid |-> id, check |-> nextCheck + 1, tab |-> t, epoch |-> tabs[t].epoch,
               path |-> sess[id].path, at |-> "queued", result |-> 0]}}
    BY <1>6 DEF RequestUpload
  <2> DEFINE c == [sid |-> id, check |-> nextCheck + 1, tab |-> t, epoch |-> tabs[t].epoch,
                   path |-> sess[id].path, at |-> "queued", result |-> 0]
  <2>2. sess[id].path \in Files
    BY DEF FoundForTabPath, PathsServed
  <2>3. c.path \in Files /\ c.result = 0
    BY <2>2
  <2>4. d \in checks \/ d = c
    BY <2>1
  <2> HIDE DEF c
  <2> QED
    BY <2>3, <2>4 DEF CheckFrom
<1>7. ASSUME NEW id \in Ids, SessionStep(id) PROVE checks' \subseteq checks
  BY <1>2, <1>7 DEF SessionStep, Overwrite, DiscardLocal, DecideLater, SaveLocal, HandleLocalEditModified
<1>8. ASSUME NEW c \in checks, CheckStep(c) PROVE CheckFrom(d)
  <2>0. c \in Checks /\ c.tab \in Tabs /\ c.path \in Files
    BY DEF TypeOK, Checks, PathsServed
  <2>1. ASSUME RouteCheckRemoteEditSnapshot(c) PROVE CheckFrom(d)
    <3> DEFINE a == [c EXCEPT !.at = "asked"]
               u == [c EXCEPT !.at = "undeliverable"]
    <3>1. a.path = c.path /\ a.result = c.result /\ u.path = c.path /\ u.result = c.result
      BY <2>0 DEF Checks
    <3>2. d \in checks \/ d = a \/ d = u
      BY <2>1 DEF RouteCheckRemoteEditSnapshot
    <3> HIDE DEF a, u
    <3> QED
      BY <3>1, <3>2 DEF CheckFrom
  <2>2. ASSUME AnswerCheck(c) PROVE CheckFrom(d)
    <3>1. PICK r \in {0, Current(tabs[c.tab].key.server, c.path)} :
            checks' = (checks \ {c}) \union {[c EXCEPT !.at = "answered", !.result = r]}
      BY <2>2 DEF AnswerCheck
    <3>2. tabs[c.tab].key.server \in Servers
      BY <2>0, TabFields
    <3>3. r = 0 \/ OnServer(r)
      BY <2>0, <3>2, CurrentType
    <3> DEFINE a == [c EXCEPT !.at = "answered", !.result = r]
    <3>4. a.path = c.path /\ a.result = r
      BY <2>0 DEF Checks
    <3>5. d \in checks \/ d = a
      BY <3>1
    <3> HIDE DEF a
    <3> QED
      BY <2>0, <3>3, <3>4, <3>5 DEF CheckFrom
  <2>3. ASSUME HandleCheckResult(c) PROVE CheckFrom(d)
    BY <1>1, <2>3 DEF HandleCheckResult
  <2> QED
    BY <1>8, <2>1, <2>2, <2>3 DEF CheckStep
<1>9. ASSUME NEW x \in transfers, TransferStep(x) PROVE checks' \subseteq checks
  BY <1>2, <1>9 DEF TransferStep, RouteTransfer, TransferWrites, TransferFails, TransferCancelled,
        RetryTransfer, HandleTransferFinished
<1>10. ASSUME NEW s \in Servers, NEW p \in Paths, RemoteChange(s, p) PROVE checks' \subseteq checks
  BY <1>10 DEF RemoteChange
<1>11. ASSUME SweepOrphans \/ UNCHANGED vars PROVE checks' \subseteq checks
  BY <1>2, <1>11 DEF SweepOrphans, vars
<1> QED
  BY <1>1, <1>3, <1>4, <1>5, <1>6, <1>7, <1>8, <1>9, <1>10, <1>11 DEF Next, UserStep

\* A server answers a check with what it has.
LEMMA AnswersStep ==
    ASSUME IInv, [Next]_vars
    PROVE  AnswersSeen' /\ \A d \in checks' : d.path \in Files
<1>1. StepKind
  BY NextKind
<1>2. ASSUME NEW d \in checks' PROVE d.path \in Files /\ (d.result = 0 \/ OnServer(d.result))
  BY ChecksFrom DEF CheckFrom, IInv, AnswersSeen, PathsServed
<1>3. ASSUME NEW d \in checks', d.result # 0 PROVE OnServer(d.result)'
  <2>1. OnServer(d.result)
    BY <1>2, <1>3
  <2> QED
    BY <1>1, <2>1, OnServerStays DEF IInv
<1> QED
  BY <1>2, <1>3 DEF AnswersSeen

\* An edit that waits for the large-file confirmation is of a file.
LEMMA ModalStep ==
    ASSUME IInv, [Next]_vars, NEW u \in Tabs, modal'[u] # NoEdit
    PROVE  modal'[u].path \in Files
<1> USE DEF IInv, appVars, editVars, envVars
<1>0. modal \in [Tabs -> Edits \union {NoEdit}]
  BY DEF TypeOK
<1>1. ASSUME modal' = modal PROVE modal'[u].path \in Files
  BY <1>1 DEF PathsServed
<1>2. ASSUME NEW t \in Tabs, modal' = [modal EXCEPT ![t] = NoEdit] PROVE modal'[u].path \in Files
  BY <1>0, <1>2 DEF PathsServed
<1>3. ASSUME NEW t \in Tabs, Open(t) PROVE modal'[u].path \in Files
  <2>1. PICK edit : edit.path \in Files /\ BeginEditResolved(t, edit)
    BY <1>3, OpenOpens
  <2>2. modal' = modal \/ modal' = [modal EXCEPT ![t] = edit]
    BY <2>1 DEF BeginEditResolved
  <2> QED
    BY <1>0, <1>1, <2>1, <2>2 DEF PathsServed
<1>4. ASSUME NEW t \in Tabs, TabStep(t)
      PROVE  modal' = modal \/ modal' = [modal EXCEPT ![t] = NoEdit]
  BY <1>4 DEF TabStep, Connect, ConnectEnds, ConnectionLost, HandleDisconnected, CloseTab, CloseWindow
<1>5. ASSUME NEW t \in Tabs, ConfirmLargeEdit(t) \/ CancelLargeEdit(t) PROVE modal' = [modal EXCEPT ![t] = NoEdit]
  BY <1>5 DEF ConfirmLargeEdit, CancelLargeEdit
<1>6. ASSUME NEW t \in Tabs, NEW row \in Paths, RequestUpload(t, row) PROVE modal' = modal
  BY <1>6 DEF RequestUpload
<1>7. ASSUME NEW id \in Ids, SessionStep(id) PROVE modal' = modal
  BY <1>7 DEF SessionStep, Overwrite, DiscardLocal, DecideLater, SaveLocal, HandleLocalEditModified
<1>8. ASSUME NEW c \in checks, CheckStep(c) PROVE modal' = modal
  BY <1>8 DEF CheckStep, RouteCheckRemoteEditSnapshot, AnswerCheck, HandleCheckResult
<1>9. ASSUME NEW x \in transfers, TransferStep(x) PROVE modal' = modal
  BY <1>9 DEF TransferStep, RouteTransfer, TransferWrites, TransferFails, TransferCancelled,
        RetryTransfer, HandleTransferFinished
<1>10. ASSUME NEW s \in Servers, NEW p \in Paths, RemoteChange(s, p) PROVE modal' = modal
  BY <1>10 DEF RemoteChange
<1>11. ASSUME SweepOrphans \/ UNCHANGED vars PROVE modal' = modal
  BY <1>11 DEF SweepOrphans, vars
<1> QED
  BY <1>1, <1>2, <1>3, <1>4, <1>5, <1>6, <1>7, <1>8, <1>9, <1>10, <1>11 DEF Next, UserStep

\* A removed session is gone, the others are as they were.
LEMMA WithoutIs ==
    ASSUME NEW gone, NEW id \in Ids
    PROVE  /\ id \in gone => Without(gone)[id].phase = "none" /\ Deleted(gone)[id] = 0
           /\ id \notin gone => Without(gone)[id] = sess[id] /\ Deleted(gone)[id] = local[id]
BY DEF Without, Deleted, NoSession

\* The session that Starts registers, seen from every id.
LEMMA StartsIs ==
    ASSUME TypeOK, NothingOfTheGone, NEW gone \in SUBSET Ids, NEW s, NEW y, Starts(gone, s, y),
           NEW id \in Ids
    PROVE  /\ \/ sess'[id] = s /\ id = nextId + 1
              \/ sess'[id].phase = "none" /\ local'[id] = 0
              \/ id \notin gone /\ id <= nextId /\ Live(id) /\ sess'[id] = sess[id] /\ local'[id] = local[id]
           /\ id = nextId + 1 => local'[id] = 0
<1>1. nextId + 1 \in Ids /\ nextId \in Nat /\ id \in Nat
  BY EditAssumption DEF TypeOK, Starts, Ids
<1>2. Without(gone) \in [Ids -> Sessions]
  BY WithoutType
<1>3. local' = Deleted(gone)
  BY DEF Starts
<1>4. ~Live(id) => local[id] = 0 /\ sess[id].phase = "none"
  BY DEF NothingOfTheGone, Live
<1>5. id > nextId => ~Live(id)
  BY DEF NothingOfTheGone
<1>6. CASE id = nextId + 1
  <2>1. local'[id] = 0
    BY <1>1, <1>3, <1>4, <1>5, <1>6, WithoutIs
  <2>2. sess'[id] = s \/ sess'[id] = Without(gone)[id]
    BY <1>1, <1>2, <1>6 DEF Starts
  <2>3. Without(gone)[id].phase = "none"
    BY <1>1, <1>4, <1>5, <1>6, WithoutIs
  <2> QED
    BY <1>6, <2>1, <2>2, <2>3
<1>7. CASE id # nextId + 1
  <2>1. sess'[id] = Without(gone)[id]
    BY <1>1, <1>2, <1>7 DEF Starts
  <2> QED
    BY <1>1, <1>3, <1>4, <1>5, <1>7, <2>1, WithoutIs
<1> QED
  BY <1>6, <1>7

\* A session that goes takes its copy and its transfers with it.
LEMMA GoneStep ==
    ASSUME TypeOK, NothingOfTheGone, TransfersFit, StepKind
    PROVE  NothingOfTheGone'
<1>0. nextId \in Nat /\ Ids \subseteq Nat /\ sess \in [Ids -> Sessions] /\ local \in [Ids -> Stamps]
      /\ \A x \in transfers : x.sid \in Ids
  BY EditAssumption DEF TypeOK, Ids, Transfers
<1> USE DEF NothingOfTheGone, Live
<1>1. CASE Quiet
  BY <1>0, <1>1 DEF Quiet, AllGo, SameFiles, Goes
<1>2. ASSUME NEW y, Uploads(y) PROVE NothingOfTheGone'
  <2>1. \A z \in transfers' : z \in transfers \/ z = y
    BY <1>2 DEF Uploads
  <2>2. y.sid \in Ids /\ sess[y.sid].phase # "none"
    BY <1>2 DEF Uploads
  <2>3. nextId' = nextId /\ local' = local /\ \A id \in Ids : sess'[id].phase = "none" <=> sess[id].phase = "none"
    BY <1>2 DEF Uploads, AllGo, SameFiles, Goes
  <2> QED
    BY <1>0, <2>1, <2>2, <2>3
<1>3. ASSUME NEW x \in transfers, NEW y, Moves(x, y) PROVE NothingOfTheGone'
  <2>1. \A z \in transfers' : z \in transfers \/ z.sid = x.sid
    BY <1>3 DEF Moves, Same
  <2>2. nextId' = nextId /\ local' = local /\ \A id \in Ids : sess'[id].phase = "none" <=> sess[id].phase = "none"
    BY <1>3 DEF Moves, AllGo, SameFiles, Goes
  <2> QED
    BY <1>0, <2>1, <2>2
<1>4. ASSUME NEW x \in transfers, NEW y, WritesDown(x, y) PROVE NothingOfTheGone'
  <2> DEFINE v == Current(x.server, x.path)
  <2>1. local' = [local EXCEPT ![x.sid] = v]
    BY <1>4 DEF WritesDown
  <2> HIDE DEF v
  <2>2. \A id \in Ids : local'[id] = local[id] \/ id = x.sid
    BY <1>0, <2>1
  <2> QED
    <3>1. \A z \in transfers' : z \in transfers \/ z.sid = x.sid
      BY <1>4 DEF WritesDown, Same
    <3>2. nextId' = nextId /\ \A id \in Ids : sess'[id].phase = "none" <=> sess[id].phase = "none"
      BY <1>4 DEF WritesDown, AllGo, Goes
    <3> QED
      BY <1>0, <2>2, <3>1, <3>2
<1>5. ASSUME NEW x \in transfers, NEW y, WritesUp(x, y) PROVE NothingOfTheGone'
  <2>1. \A id \in Ids : sess'[id].phase = sess[id].phase
    BY <1>0, <1>5 DEF WritesUp, Sessions
  <2> QED
    BY <1>0, <1>5, <2>1 DEF WritesUp, Same
<1>6. ASSUME NEW x \in transfers, NEW y, Ends(x, y) PROVE NothingOfTheGone'
  BY <1>0, <1>6 DEF Ends, SameFiles, Goes, Same
<1>7. ASSUME NEW gone \in SUBSET Ids, Removes(gone) PROVE NothingOfTheGone'
  <2>1. nextId' = nextId /\ \A z \in transfers' : z \in transfers /\ z.sid \notin gone
    BY <1>7 DEF Removes, NotOf
  <2>2. ASSUME NEW id \in Ids
        PROVE  /\ id \in gone => sess'[id].phase = "none" /\ local'[id] = 0
               /\ id \notin gone => sess'[id] = sess[id] /\ local'[id] = local[id]
    BY <1>7, WithoutIs DEF Removes
  <2> QED
    BY <1>0, <2>1, <2>2
<1>8. ASSUME NEW gone \in SUBSET Ids, NEW s, NEW y, Starts(gone, s, y) PROVE NothingOfTheGone'
  <2>1. nextId + 1 \in Ids /\ nextId' = nextId + 1 /\ s.phase = "downloading" /\ y.sid = nextId + 1
    BY <1>8 DEF Starts
  <2>2. ASSUME NEW id \in Ids PROVE /\ id > nextId' => ~Live(id)'
                                    /\ ~Live(id)' => local'[id] = 0
    <3>1. id \in Nat
      BY <1>0
    <3>2. \/ sess'[id] = s /\ id = nextId + 1
          \/ sess'[id].phase = "none" /\ local'[id] = 0
          \/ id <= nextId /\ sess[id].phase # "none" /\ sess'[id] = sess[id] /\ local'[id] = local[id]
      BY <1>8, StartsIs
    <3> QED
      BY <1>0, <2>1, <3>1, <3>2
  <2>3. ASSUME NEW x \in transfers' PROVE Live(x.sid)'
    <3>1. CASE x \in NotOf(gone, transfers)
      <4>1. x.sid \in Ids /\ x.sid \notin gone /\ Live(x.sid)
        BY <1>0, <3>1 DEF NotOf
      <4>2. x.sid # nextId + 1
        BY <1>0, <4>1
      <4>3. sess'[x.sid] = Without(gone)[x.sid]
        BY <1>8, <2>1, <4>1, <4>2, WithoutType DEF Starts
      <4> QED
        BY <4>1, <4>3, WithoutIs
    <3>2. CASE x = y /\ sess' = [Without(gone) EXCEPT ![nextId + 1] = s]
      <4>1. Without(gone) \in [Ids -> Sessions]
        BY WithoutType
      <4> QED
        BY <2>1, <3>2, <4>1
    <3> QED
      BY <1>8, <3>1, <3>2 DEF Starts
  <2> QED
    BY <2>2, <2>3
<1>9. ASSUME NEW id \in Ids, Saves(id) PROVE NothingOfTheGone'
  BY <1>0, <1>9 DEF Saves, AllGo, Goes
<1>10. ASSUME NEW s \in Servers, NEW p \in Paths, Changes(s, p) PROVE NothingOfTheGone'
  BY <1>0, <1>10 DEF Changes, AllGo, Goes
<1> QED
  BY <1>1, <1>2, <1>3, <1>4, <1>5, <1>6, <1>7, <1>8, <1>9, <1>10 DEF StepKind

\* A download begins with its session and ends with its phase.
LEMMA FitStep ==
    ASSUME TypeOK, NothingOfTheGone, TransfersFit, StepKind
    PROVE  TransfersFit'
<1>0. nextId \in Nat /\ Ids \subseteq Nat /\ sess \in [Ids -> Sessions]
      /\ \A x \in transfers : x.sid \in Ids /\ Live(x.sid) /\ x.dir \in {"down", "up"}
  BY EditAssumption DEF TypeOK, Ids, Transfers, NothingOfTheGone
<1> USE DEF TransfersFit, Live
<1>1. CASE Quiet
  BY <1>0, <1>1 DEF Quiet, AllGo, Goes
<1>2. ASSUME NEW y, Uploads(y) PROVE TransfersFit'
  <2>1. \A z \in transfers' : z \in transfers \/ z = y
    BY <1>2 DEF Uploads
  <2>2. y.sid \in Ids /\ sess[y.sid].phase # "downloading" /\ y.dir = "up"
    BY <1>2 DEF Uploads
  <2>3. \A id \in Ids : sess'[id].phase = "downloading" <=> sess[id].phase = "downloading"
    BY <1>2 DEF Uploads, AllGo, Goes
  <2> QED
    BY ZenonT(30), <1>0, <2>1, <2>2, <2>3
<1>3. ASSUME NEW x \in transfers, NEW y, Moves(x, y) PROVE TransfersFit'
  <2>1. \A z \in transfers' : (z \in transfers /\ z # x) \/ (z = y /\ y.sid = x.sid /\ y.dir = x.dir)
    BY <1>3 DEF Moves, Same
  <2>2. \A id \in Ids : sess'[id].phase = "downloading" <=> sess[id].phase = "downloading"
    BY <1>3 DEF Moves, AllGo, Goes
  <2>3. ASSUME NEW z \in transfers' PROVE z.dir = "down" <=> sess'[z.sid].phase = "downloading"
    BY <1>0, <2>1, <2>2
  <2>4. ASSUME NEW z \in transfers', NEW w \in transfers', z.dir = "down", z.sid = w.sid PROVE z = w
    BY <1>0, <2>1, <2>4
  <2> QED
    BY <2>3, <2>4
<1>4. ASSUME NEW x \in transfers, NEW y, WritesDown(x, y) PROVE TransfersFit'
  BY <1>0, <1>4 DEF WritesDown, AllGo, Goes, Same
<1>5. ASSUME NEW x \in transfers, NEW y, WritesUp(x, y) PROVE TransfersFit'
  <2>1. \A id \in Ids : sess'[id].phase = sess[id].phase
    BY <1>0, <1>5 DEF WritesUp, Sessions
  <2> QED
    BY <1>0, <1>5, <2>1 DEF WritesUp, Same
<1>6. ASSUME NEW x \in transfers, NEW y, Ends(x, y) PROVE TransfersFit'
  <2>1. \A z \in transfers' : (z \in transfers /\ z # x) \/ (z = y /\ y.dir = "up" /\ y.sid = x.sid)
    BY <1>6 DEF Ends, Same
  <2>2. \A z \in transfers : z # x /\ z.sid = x.sid => z.dir = "up"
    BY <1>0
  <2>3. sess'[x.sid].phase = "editing"
    BY <1>6 DEF Ends
  <2>4. \A z \in transfers : z.sid # x.sid => (sess'[z.sid].phase = "downloading" <=> sess[z.sid].phase = "downloading")
    BY <1>0, <1>6 DEF Ends, Goes
  <2> QED
    BY <1>0, <2>1, <2>2, <2>3, <2>4
<1>7. ASSUME NEW gone \in SUBSET Ids, Removes(gone) PROVE TransfersFit'
  BY <1>0, <1>7, WithoutIs DEF Removes, NotOf
<1>8. ASSUME NEW gone \in SUBSET Ids, NEW s, NEW y, Starts(gone, s, y) PROVE TransfersFit'
  <2>1. nextId + 1 \in Ids /\ s.phase = "downloading" /\ y.sid = nextId + 1 /\ y.dir = "down"
    BY <1>8 DEF Starts
  <2>2. Without(gone) \in [Ids -> Sessions]
    BY WithoutType
  <2>3. \A z \in transfers : z.sid # nextId + 1
    BY <1>0 DEF NothingOfTheGone
  <2>4. \A z \in NotOf(gone, transfers) : z \in transfers /\ z.sid \in Ids /\ sess'[z.sid] = sess[z.sid]
    <3> SUFFICES ASSUME NEW z \in transfers, z.sid \notin gone
                 PROVE  z.sid \in Ids /\ sess'[z.sid] = sess[z.sid]
      BY DEF NotOf
    <3>1. z.sid \in Ids /\ z.sid # nextId + 1
      BY <1>0, <2>3
    <3>2. sess'[z.sid] = Without(gone)[z.sid]
      BY <1>8, <2>1, <2>2, <3>1 DEF Starts
    <3> QED
      BY <3>1, <3>2, WithoutIs
  <2>5. CASE sess' = Without(gone) /\ transfers' = NotOf(gone, transfers)
    BY <2>4, <2>5
  <2>6. CASE sess' = [Without(gone) EXCEPT ![nextId + 1] = s] /\ transfers' = NotOf(gone, transfers) \union {y}
    <3>1. sess'[y.sid].phase = "downloading"
      BY <2>1, <2>2, <2>6
    <3> QED
      BY <2>1, <2>3, <2>4, <2>6, <3>1
  <2> QED
    BY <1>8, <2>5, <2>6 DEF Starts
<1>9. ASSUME NEW id \in Ids, Saves(id) PROVE TransfersFit'
  BY <1>0, <1>9 DEF Saves, AllGo, Goes
<1>10. ASSUME NEW s \in Servers, NEW p \in Paths, Changes(s, p) PROVE TransfersFit'
  BY <1>0, <1>10 DEF Changes, AllGo, Goes
<1> QED
  BY <1>1, <1>2, <1>3, <1>4, <1>5, <1>6, <1>7, <1>8, <1>9, <1>10 DEF StepKind

\* The path of every session and transfer is that of a file, and every file is there.
LEMMA PathsStep ==
    ASSUME IInv, [Next]_vars
    PROVE  PathsServed'
<1>0. TypeOK /\ PathsServed /\ NothingOfTheGone /\ StepKind
  BY NextKind DEF IInv
<1>1. \A x \in transfers : x.sid \in Ids /\ x.server \in Servers /\ x.path \in Files
  BY <1>0 DEF TypeOK, Transfers, PathsServed
<1>2. ASSUME NEW s \in Servers, NEW p \in Files PROVE srv'[s][p] # <<>>
  <2>1. srv[s][p] # <<>> /\ p \in Paths /\ srv[s][p] \in Seq(Stamps)
    BY <1>0, FilesArePaths DEF PathsServed, TypeOK
  <2>2. ASSUME NEW q \in Servers, NEW r \in Paths, NEW v, srv' = [srv EXCEPT ![q][r] = Append(@, v)]
        PROVE  srv'[s][p] # <<>>
    <3>1. CASE q = s /\ r = p
      <4>1. srv'[s][p] = Append(srv[s][p], v)
        BY <1>0, <2>1, <2>2, <3>1 DEF TypeOK
      <4> QED
        BY <2>1, <4>1
    <3>2. CASE ~(q = s /\ r = p)
      BY <1>0, <2>1, <2>2, <3>2 DEF TypeOK
    <3> QED
      BY <3>1, <3>2
  <2>3. ASSUME NEW x \in transfers, NEW y, WritesUp(x, y) PROVE srv'[s][p] # <<>>
    BY <1>1, <2>2, <2>3, FilesArePaths DEF WritesUp
  <2>4. ASSUME NEW q \in Servers, NEW r \in Paths, Changes(q, r) PROVE srv'[s][p] # <<>>
    BY <2>2, <2>4 DEF Changes
  <2> QED
    BY <1>0, <2>1, <2>3, <2>4, ServerStep
<1>3. ASSUME NEW id \in Ids, Live(id)' PROVE sess'[id].path \in Files
  <2>1. CASE Live(id) /\ sess'[id].path = sess[id].path
    BY <1>0, <2>1 DEF PathsServed
  <2>2. ASSUME Goes(id) PROVE sess'[id].path \in Files
    BY <1>3, <2>1, <2>2 DEF Goes, Live
  <2>3. ASSUME NEW x \in transfers, NEW y, WritesUp(x, y) PROVE sess'[id].path \in Files
    <3>1. sess'[id].path = sess[id].path /\ sess'[id].phase = sess[id].phase
      BY <1>0, <1>1, <2>3 DEF WritesUp, TypeOK, Sessions
    <3> QED
      BY <1>3, <2>1, <3>1 DEF Live
  <2>4. ASSUME NEW x \in transfers, NEW y, Ends(x, y) PROVE sess'[id].path \in Files
    <3>1. CASE id = x.sid
      BY <2>1, <2>4, <3>1 DEF Ends, Matches, Live
    <3>2. CASE id # x.sid
      BY <2>2, <2>4, <3>2 DEF Ends
    <3> QED
      BY <3>1, <3>2
  <2>5. ASSUME NEW gone \in SUBSET Ids, Removes(gone) PROVE sess'[id].path \in Files
    <3>1. sess'[id].phase = "none" \/ sess'[id] = sess[id]
      BY <2>5, WithoutIs DEF Removes
    <3> QED
      BY <1>3, <2>1, <3>1 DEF Live
  <2>6. ASSUME NEW gone \in SUBSET Ids, NEW s, NEW y, Starts(gone, s, y) PROVE sess'[id].path \in Files
    <3>1. s.path \in Files
      BY <2>6 DEF Starts
    <3>2. sess'[id] = s \/ (Live(id) /\ sess'[id] = sess[id])
      BY <1>0, <1>3, <2>6, StartsIs DEF Live
    <3> QED
      BY <2>1, <3>1, <3>2
  <2> QED
    BY <1>0, <2>2, <2>3, <2>4, <2>5, <2>6 DEF StepKind, Quiet, Uploads, Moves, WritesDown, Saves, Changes, AllGo
<1>4. ASSUME NEW z \in transfers' PROVE z.path \in Files
  <2>1. CASE z \in transfers
    BY <1>1, <2>1
  <2>2. ASSUME NEW y, Uploads(y) PROVE z.path \in Files
    BY <1>0, <2>1, <2>2 DEF Uploads, PathsServed, Live
  <2>3. ASSUME NEW x \in transfers, NEW y, Moves(x, y) \/ WritesDown(x, y) \/ WritesUp(x, y) \/ Ends(x, y)
        PROVE  z.path \in Files
    <3>1. y.path = x.path /\ (z \in transfers \/ z = y)
      BY <2>3 DEF Moves, WritesDown, WritesUp, Ends, Same
    <3> QED
      BY <1>1, <3>1
  <2>4. ASSUME NEW gone \in SUBSET Ids, Removes(gone) PROVE z.path \in Files
    BY <2>1, <2>4 DEF Removes, NotOf
  <2>5. ASSUME NEW gone \in SUBSET Ids, NEW s, NEW y, Starts(gone, s, y) PROVE z.path \in Files
    <3>1. y.path \in Files /\ (z \in transfers \/ z = y)
      BY <2>5 DEF Starts, NotOf
    <3> QED
      BY <1>1, <3>1
  <2> QED
    BY <1>0, <2>1, <2>2, <2>3, <2>4, <2>5 DEF StepKind, Quiet, Saves, Changes
<1>5. \A d \in checks' : d.path \in Files
  BY AnswersStep
<1>6. \A u \in Tabs : modal'[u] # NoEdit => modal'[u].path \in Files
  BY ModalStep
<1> QED
  BY <1>2, <1>3, <1>4, <1>5, <1>6 DEF PathsServed

\* A stamp in one copy only stays so until the session itself uploads it.
LEMMA PrivateStep ==
    ASSUME TypeOK, StampsOld, PathsServed, TransfersFit, StepKind, NEW id \in Ids, NEW v \in Stamps,
           Private(id, v)
    PROVE  Private(id, v)' \/ v \in sess'[id].known
<1>0. v \in Nat /\ v # 0 /\ v <= clock /\ ~OnServer(v) /\ \A j \in Ids : j # id => local[j] # v
  BY EditAssumption DEF Private, Stamps
<1>1. clock \in Nat /\ clock' \in {clock, clock + 1}
  BY ClockStep
<1>2. ASSUME NEW j \in Ids, j # id PROVE local'[j] # v
  <2>1. local'[j] \in {local[j], 0, clock + 1} \/ OnServer(local'[j])
    BY LocalStep
  <2> QED
    BY <1>0, <1>1, <1>2, <2>1
<1>3. CASE ~OnServer(v)'
  <2>1. v <= clock'
    BY <1>0, <1>1
  <2> QED
    BY <1>0, <1>2, <1>3, <2>1 DEF Private
<1>4. CASE OnServer(v)'
  <2>1. ~(srv' = srv)
    BY <1>0, <1>4 DEF OnServer
  <2>2. ASSUME NEW x \in transfers, NEW y, WritesUp(x, y), \A w : OnServer(w)' <=> OnServer(w) \/ w = local[x.sid]
        PROVE  v \in sess'[id].known
    <3>1. v = local[x.sid] /\ x.sid \in Ids
      BY <1>0, <1>4, <2>2 DEF TypeOK, Transfers
    <3>2. x.sid = id
      BY <1>0, <3>1
    <3>3. sess'[id].known = sess[id].known \union {v}
      BY <2>2, <3>1, <3>2 DEF WritesUp, TypeOK, Sessions
    <3> QED
      BY <3>3
  <2>3. ASSUME NEW s \in Servers, NEW p \in Paths, Changes(s, p), \A w : OnServer(w)' <=> OnServer(w) \/ w = clock + 1
        PROVE  FALSE
    <3>1. v = clock + 1
      BY <1>0, <1>4, <2>3
    <3> QED
      BY <1>0, <1>1, <3>1
  <2> QED
    BY <2>1, <2>2, <2>3, ServerStep
<1> QED
  BY <1>3, <1>4

\* So a stamp that a session knows, or alone has, stays one.
LEMMA KnownStays ==
    ASSUME TypeOK, StampsOld, PathsServed, TransfersFit, StepKind, NEW id \in Ids, NEW v \in Stamps,
           v \in sess[id].known \/ Private(id, v), sess[id].known \subseteq sess'[id].known
    PROVE  v \in sess'[id].known \/ Private(id, v)'
BY PrivateStep

\* What becomes of a session that is still there.
LEMMA LiveStep ==
    ASSUME TypeOK, NothingOfTheGone, StepKind, NEW id \in Ids, Live(id)'
    PROVE  \/ /\ Live(id)
              /\ sess[id].known \subseteq sess'[id].known
              /\ \/ sess'[id].snap = sess[id].snap
                 \/ \E x \in transfers : x.sid = id /\ x.dir = "up" /\ x.at = "done" /\ sess'[id].snap = local[id]
           \/ sess'[id].snap \in sess'[id].known
<1>1. ASSUME Goes(id) PROVE Live(id) /\ sess[id].known \subseteq sess'[id].known /\ sess'[id].snap = sess[id].snap
  BY <1>1 DEF Goes, Live
<1>2. ASSUME NEW x \in transfers, NEW y, WritesUp(x, y)
      PROVE  Live(id) /\ sess[id].known \subseteq sess'[id].known /\ sess'[id].snap = sess[id].snap
  <2>1. x.sid \in Ids
    BY DEF TypeOK, Transfers
  <2> DEFINE known == sess[x.sid].known \union {local[x.sid]}
  <2>2. sess' = [sess EXCEPT ![x.sid].known = known]
    BY <1>2 DEF WritesUp
  <2>3. sess[x.sid].known \subseteq known
    OBVIOUS
  <2> HIDE DEF known
  <2>4. sess'[id].phase = sess[id].phase /\ sess'[id].snap = sess[id].snap
        /\ (id = x.sid => sess'[id].known = known) /\ (id # x.sid => sess'[id].known = sess[id].known)
    BY <2>1, <2>2 DEF TypeOK, Sessions
  <2> QED
    BY <2>3, <2>4 DEF Live
<1>3. ASSUME NEW x \in transfers, NEW y, Ends(x, y)
      PROVE  /\ Live(id)
             /\ sess[id].known \subseteq sess'[id].known
             /\ \/ sess'[id].snap = sess[id].snap
                \/ x.sid = id /\ x.dir = "up" /\ x.at = "done" /\ sess'[id].snap = local[id]
  <2>1. CASE id = x.sid
    BY <1>3, <2>1 DEF Ends, Matches, Live
  <2>2. CASE id # x.sid
    BY <1>1, <1>3, <2>2 DEF Ends
  <2> QED
    BY <2>1, <2>2
<1>4. ASSUME NEW gone \in SUBSET Ids, Removes(gone) PROVE Live(id) /\ sess'[id] = sess[id]
  <2>1. sess'[id].phase = "none" \/ sess'[id] = sess[id]
    BY <1>4, WithoutIs DEF Removes
  <2> QED
    BY <2>1 DEF Live
<1>5. ASSUME NEW gone \in SUBSET Ids, NEW s, NEW y, Starts(gone, s, y)
      PROVE  (Live(id) /\ sess'[id] = sess[id]) \/ sess'[id].snap \in sess'[id].known
  <2>1. s.snap \in s.known
    BY <1>5 DEF Starts
  <2>2. sess'[id] = s \/ (Live(id) /\ sess'[id] = sess[id])
    BY <1>5, StartsIs DEF Live
  <2> QED
    BY <2>1, <2>2
<1>6. CASE Quiet \/ (\E y : Uploads(y)) \/ (\E j \in Ids : Saves(j)) \/ (\E s \in Servers, p \in Paths : Changes(s, p))
  BY <1>1, <1>6 DEF Quiet, Uploads, Saves, Changes, AllGo
<1>7. CASE \E x \in transfers : \E y : Moves(x, y) \/ WritesDown(x, y)
  BY <1>1, <1>7 DEF Moves, WritesDown, AllGo
<1>8. CASE \E x \in transfers : \E y : WritesUp(x, y) \/ Ends(x, y)
  BY <1>2, <1>3, <1>8
<1>9. CASE \/ \E gone \in SUBSET Ids : Removes(gone)
           \/ \E gone \in SUBSET Ids : \E s, y : Starts(gone, s, y)
  BY <1>4, <1>5, <1>9
<1> QED
  BY <1>6, <1>7, <1>8, <1>9 DEF StepKind

\* A session's snapshot stays known to it or private.
LEMMA SnapshotStep ==
    ASSUME IInv, [Next]_vars
    PROVE  SnapshotKnown'
<1>0. StepKind /\ TypeOK /\ NothingOfTheGone
  BY NextKind DEF IInv
<1> SUFFICES ASSUME NEW id \in Ids, Live(id)', NEW v, v = sess'[id].snap
             PROVE  v \in sess'[id].known \/ Private(id, v)'
  BY DEF SnapshotKnown
<1>1. sess[id].snap \in Stamps /\ local[id] \in Stamps
  BY <1>0 DEF TypeOK, Sessions
<1>2. CASE v \in sess'[id].known
  BY <1>2
<1>3. CASE Live(id) /\ sess[id].known \subseteq sess'[id].known /\ v = sess[id].snap
  <2>1. v \in sess[id].known \/ Private(id, v)
    BY <1>3 DEF IInv, SnapshotKnown
  <2> QED
    BY <1>0, <1>1, <1>3, <2>1, KnownStays DEF IInv
<1>4. ASSUME NEW x \in transfers, x.sid = id, x.dir = "up", x.at = "done", v = local[id],
             sess[id].known \subseteq sess'[id].known
      PROVE  v \in sess'[id].known \/ Private(id, v)'
  <2>1. v \in sess[id].known \/ Private(id, v)
    BY <1>4 DEF IInv, UploadedKnown
  <2> QED
    BY <1>0, <1>1, <1>4, <2>1, KnownStays DEF IInv
<1> QED
  BY <1>0, <1>2, <1>3, <1>4, LiveStep

\* So does the copy of an upload that is done.
LEMMA UploadedStep ==
    ASSUME IInv, [Next]_vars
    PROVE  UploadedKnown'
<1>0. StepKind /\ TypeOK /\ NothingOfTheGone /\ TransfersFit /\ StampsOld
  BY NextKind DEF IInv
<1>1. \A x \in transfers : x.sid \in Ids /\ Live(x.sid)
  BY <1>0 DEF TypeOK, Transfers, NothingOfTheGone
<1>2. clock \in Nat /\ \A id \in Ids : local[id] \in Stamps /\ local[id] \in Nat /\ local[id] <= clock
  BY <1>0, EditAssumption DEF TypeOK, Stamps, StampsOld
<1> SUFFICES ASSUME NEW z \in transfers', z.dir = "up", z.at = "done", NEW id, id = z.sid,
                    NEW v, v = local'[id]
             PROVE  v \in sess'[id].known \/ Private(id, v)'
  BY DEF UploadedKnown
<1>3. ASSUME z \in transfers, v = local[id], sess[id].known \subseteq sess'[id].known
      PROVE  v \in sess'[id].known \/ Private(id, v)'
  <2>1. v \in sess[id].known \/ Private(id, v)
    BY <1>3 DEF IInv, UploadedKnown
  <2> QED
    BY <1>0, <1>1, <1>2, <1>3, <2>1, KnownStays DEF IInv
<1>4. ASSUME AllGo, local' = local, z \in transfers PROVE v \in sess'[id].known \/ Private(id, v)'
  BY <1>1, <1>3, <1>4 DEF AllGo, Goes
<1>5. ASSUME Quiet \/ (\E s \in Servers, p \in Paths : Changes(s, p))
      PROVE  v \in sess'[id].known \/ Private(id, v)'
  BY <1>4, <1>5 DEF Quiet, Changes, SameFiles
<1>6. ASSUME NEW y, Uploads(y) PROVE v \in sess'[id].known \/ Private(id, v)'
  BY <1>4, <1>6 DEF Uploads, SameFiles
<1>7. ASSUME NEW x \in transfers, NEW y, Moves(x, y) PROVE v \in sess'[id].known \/ Private(id, v)'
  BY <1>4, <1>7 DEF Moves, SameFiles
<1>8. ASSUME NEW x \in transfers, NEW y, WritesDown(x, y) PROVE v \in sess'[id].known \/ Private(id, v)'
  <2>1. z \in transfers /\ z # x
    BY <1>8 DEF WritesDown, Same
  <2>2. x.sid # id
    BY <1>0, <1>8, <2>1 DEF WritesDown, TransfersFit
  <2> DEFINE cur == Current(x.server, x.path)
  <2>3. local' = [local EXCEPT ![x.sid] = cur]
    BY <1>8 DEF WritesDown
  <2> HIDE DEF cur
  <2>4. v = local[id]
    BY <1>0, <1>1, <2>1, <2>2, <2>3 DEF TypeOK
  <2>5. sess[id].known \subseteq sess'[id].known
    BY <1>1, <1>8, <2>1 DEF WritesDown, AllGo, Goes
  <2> QED
    BY <1>3, <2>1, <2>4, <2>5
<1>9. ASSUME NEW x \in transfers, NEW y, WritesUp(x, y) PROVE v \in sess'[id].known \/ Private(id, v)'
  <2> DEFINE known == sess[x.sid].known \union {local[x.sid]}
  <2>1. sess' = [sess EXCEPT ![x.sid].known = known] /\ local' = local
    BY <1>9 DEF WritesUp
  <2>2. local[x.sid] \in known /\ sess[x.sid].known \subseteq known
    OBVIOUS
  <2> HIDE DEF known
  <2>3. id \in Ids /\ (id = x.sid \/ z \in transfers)
    BY <1>1, <1>9 DEF WritesUp, Same
  <2>4. (id = x.sid => sess'[id].known = known) /\ (id # x.sid => sess'[id].known = sess[id].known)
    BY <1>0, <1>1, <2>1, <2>3 DEF TypeOK, Sessions
  <2> QED
    BY <1>3, <2>1, <2>2, <2>3, <2>4
<1>10. ASSUME NEW x \in transfers, NEW y, Ends(x, y) PROVE v \in sess'[id].known \/ Private(id, v)'
  <2>1. z \in transfers /\ local' = local
    BY <1>10 DEF Ends, SameFiles
  <2>2. sess'[id].known = sess[id].known
    BY <1>1, <1>10, <2>1 DEF Ends, Goes
  <2> QED
    BY <1>3, <2>1, <2>2
<1>11. ASSUME NEW gone \in SUBSET Ids, Removes(gone) PROVE v \in sess'[id].known \/ Private(id, v)'
  <2>1. z \in transfers /\ id \notin gone
    BY <1>11 DEF Removes, NotOf
  <2>2. sess'[id] = sess[id] /\ v = local[id]
    BY <1>1, <1>11, <2>1, WithoutIs DEF Removes
  <2> QED
    BY <1>3, <2>1, <2>2
<1>12. ASSUME NEW gone \in SUBSET Ids, NEW s, NEW y, Starts(gone, s, y)
       PROVE  v \in sess'[id].known \/ Private(id, v)'
  <2>1. z \in transfers /\ id \notin gone
    BY <1>12 DEF Starts, NotOf
  <2>2. id # nextId + 1
    BY <1>0, <1>1, <2>1, EditAssumption DEF NothingOfTheGone, TypeOK
  <2>3. sess'[id] = Without(gone)[id] /\ v = Deleted(gone)[id]
    BY <1>1, <1>12, <2>1, <2>2, <1>0, WithoutType DEF Starts
  <2>4. sess'[id] = sess[id] /\ v = local[id]
    BY <1>1, <2>1, <2>3, WithoutIs
  <2> QED
    BY <1>3, <2>1, <2>4
<1>13. ASSUME NEW j \in Ids, Saves(j) PROVE v \in sess'[id].known \/ Private(id, v)'
  <2>1. z \in transfers /\ id \in Ids /\ clock' = clock + 1 /\ srv' = srv
    BY <1>1, <1>13 DEF Saves
  <2>2. \A i \in Ids : local'[i] = IF i = j THEN clock + 1 ELSE local[i]
    BY <1>0, <1>13 DEF Saves, TypeOK
  <2>3. CASE id # j
    BY <1>1, <1>3, <1>13, <2>1, <2>2, <2>3 DEF Saves, AllGo, Goes
  <2>4. CASE id = j
    <3>1. v = clock + 1 /\ v # 0 /\ v <= clock'
      BY <1>2, <2>1, <2>2, <2>4
    <3>2. ~OnServer(v)'
      <4>1. OnServer(v)' => OnServer(v)
        BY <2>1 DEF OnServer
      <4>2. OnServer(v) => v <= clock
        BY <1>0, OldOnServer
      <4> QED
        BY <1>2, <3>1, <4>1, <4>2
    <3>3. \A i \in Ids : i # id => local'[i] # v
      BY <1>2, <2>2, <2>4, <3>1
    <3> QED
      BY <3>1, <3>2, <3>3 DEF Private
  <2> QED
    BY <2>3, <2>4
<1> QED
  BY <1>0, <1>5, <1>6, <1>7, <1>8, <1>9, <1>10, <1>11, <1>12, <1>13 DEF StepKind

\* No step makes an upload that is neither authorised nor forced.
LEMMA AuthorisedStep ==
    ASSUME UploadAuthorised, StepKind
    PROVE  UploadAuthorised'
<1> SUFFICES ASSUME NEW z \in transfers', z.dir = "up", ~z.forced PROVE z.seen
  BY DEF UploadAuthorised
<1>1. CASE z \in transfers
  BY <1>1 DEF UploadAuthorised
<1>2. ASSUME NEW y, Uploads(y) PROVE z.seen
  <2>1. z \in transfers \/ z = y
    BY <1>2 DEF Uploads
  <2> QED
    BY <1>1, <1>2, <2>1 DEF Uploads
<1>3. ASSUME NEW x \in transfers, NEW y, Moves(x, y) \/ WritesDown(x, y) \/ WritesUp(x, y) \/ Ends(x, y)
      PROVE  z.seen
  <2>1. z \in transfers \/ (z = y /\ Same(x, y))
    BY <1>3 DEF Moves, WritesDown, WritesUp, Ends
  <2>2. CASE z = y /\ Same(x, y)
    <3>1. x.dir = "up" /\ ~x.forced /\ z.seen = x.seen
      BY <2>2 DEF Same
    <3> QED
      BY <3>1 DEF UploadAuthorised
  <2> QED
    BY <1>1, <2>1, <2>2
<1>4. ASSUME NEW gone \in SUBSET Ids, Removes(gone) PROVE z.seen
  BY <1>1, <1>4 DEF Removes, NotOf
<1>5. ASSUME NEW gone \in SUBSET Ids, NEW s, NEW y, Starts(gone, s, y) PROVE z.seen
  <2>1. z \in transfers \/ (z = y /\ y.dir = "down")
    BY <1>5 DEF Starts, NotOf
  <2> QED
    BY <1>1, <2>1
<1> QED
  BY <1>1, <1>2, <1>3, <1>4, <1>5 DEF StepKind, Quiet, Saves, Changes

\* At first there are no sessions, checks or transfers.
LEMMA InitInv == Init => IInv
<1> SUFFICES ASSUME Init PROVE IInv
  OBVIOUS
<1>1. TypeOK
  BY InitType
<1>2. clock = 1 /\ transfers = {} /\ checks = {} /\ \A id \in Ids : local[id] = 0 /\ ~Live(id)
  BY DEF Init, Live, NoSession
<1>3. \A s \in Servers, p \in Paths : srv[s][p] = IF p \in Files THEN <<1>> ELSE <<>>
  BY DEF Init
<1>4. \A t \in Tabs : modal[t] = NoEdit
  BY DEF Init
<1>5. StampsOld
  <2>1. ASSUME NEW s \in Servers, NEW p \in Paths, NEW i \in DOMAIN srv[s][p] PROVE srv[s][p][i] <= clock
    <3>1. srv[s][p] = <<1>> \/ srv[s][p] = <<>>
      BY <1>3
    <3> QED
      BY <1>2, <3>1
  <2> QED
    BY <1>2, <2>1 DEF StampsOld
<1>6. PathsServed
  <2>1. ASSUME NEW s \in Servers, NEW p \in Files PROVE srv[s][p] # <<>>
    <3>1. srv[s][p] = <<1>>
      BY <1>3, FilesArePaths
    <3> QED
      BY <3>1
  <2> QED
    BY <1>2, <1>4, <2>1 DEF PathsServed
<1> QED
  BY <1>1, <1>2, <1>5, <1>6 DEF IInv, NothingOfTheGone, TransfersFit, AnswersSeen, SnapshotKnown,
        UploadedKnown, UploadAuthorised

\* Every step keeps the invariant.
LEMMA InvStep ==
    ASSUME IInv, [Next]_vars
    PROVE  IInv'
<1>1. StepKind
  BY NextKind
<1>2. TypeOK'
  BY TypeStep DEF IInv
<1>3. StampsOld'
  BY <1>1, <1>2, StampsStep DEF IInv
<1>4. PathsServed'
  BY PathsStep
<1>5. NothingOfTheGone'
  BY <1>1, GoneStep DEF IInv
<1>6. TransfersFit'
  BY <1>1, FitStep DEF IInv
<1>7. AnswersSeen'
  BY AnswersStep
<1>8. SnapshotKnown' /\ UploadedKnown'
  BY SnapshotStep, UploadedStep
<1>9. UploadAuthorised'
  BY <1>1, AuthorisedStep DEF IInv
<1> QED
  BY <1>2, <1>3, <1>4, <1>5, <1>6, <1>7, <1>8, <1>9 DEF IInv

\* The invariant holds in every state, for any tabs, servers, files and links.
THEOREM InvariantHolds == Spec => []IInv
<1>1. IInv /\ [Next]_vars => IInv'
  BY InvStep
<1> QED
  BY <1>1, InitInv, PTL DEF Spec

\* The state of the edit store, its checks and transfers is always well-formed.
THEOREM TypeCorrect == Spec => []TypeOK
<1>1. IInv => TypeOK
  BY DEF IInv
<1> QED
  BY <1>1, InvariantHolds, PTL

\* The upload that on_check_result authorises without the user's Overwrite goes to a
\* file whose stat showed what this session opened or uploaded, also when the copy was
\* saved between an upload and its completion, which makes a save nobody has the snapshot.
THEOREM AlwaysAuthorised == Spec => []UploadAuthorised
<1>1. IInv => UploadAuthorised
  BY DEF IInv
<1> QED
  BY <1>1, InvariantHolds, PTL

-----------------------------------------------------------------------------
(* No edited copy is lost                                                     *)

\* What EditsNotLost says of one step and one session.
CopyKept(id) ==
    \/ sess[id].phase = "conflict" /\ sess'[id].phase = "none"
    \/ /\ sess'[id].phase # "none" /\ local'[id] >= local[id]
       /\ sess[id].dirty => sess'[id].dirty \/ UploadEnds(id)

\* A step that removes sessions: those of closed tabs, the discarded one, or one that
\* was still downloading.
LEMMA ReapedAreClosed ==
    ASSUME NEW t \in Tabs, NEW edit, BeginEditResolved(t, edit), NEW id \in Ids
    PROVE  \E reaped \in SUBSET Ids :
              /\ id \in reaped => ~tabs[sess[id].tab].open
              /\ tabs' = tabs /\ local' = Deleted(reaped)
              /\ \/ \E e, k : StartDownload(reaped, t, edit, e, k)
                 \/ sess' = Without(reaped)
<1> DEFINE k == tabs[t].key
           link == SessionsOf(TabsOf(Repointed(k, edit)))
           active == FindActive(k, edit.path, link)
           reaped == link \union SessionsOf(TabsOf(active))
<1>1. local' = Deleted(reaped) /\ tabs' = tabs
  BY DEF BeginEditResolved
<1>2. \/ StartDownload(reaped, t, edit, tabs[t].epoch, k)
      \/ sess' = Without(reaped)
  BY DEF BeginEditResolved
<1>3. reaped \in SUBSET Ids
  BY DEF SessionsOf
<1>4. \A u \in TabsOf(Repointed(k, edit) \union active) : ~tabs[u].open
  BY DEF BeginEditResolved
<1>5. id \in reaped => sess[id].tab \in TabsOf(Repointed(k, edit) \union active)
  <2> HIDE DEF k, active
  <2> QED
    BY DEF SessionsOf, TabsOf
<1>6. id \in reaped => ~tabs[sess[id].tab].open
  BY <1>4, <1>5
<1> HIDE DEF k, link, active, reaped
<1> QED
  BY <1>1, <1>2, <1>3, <1>6

\* start_download keeps every registered session that it is not told to remove.
LEMMA StartKeeps ==
    ASSUME IInv, NEW gone, NEW t, NEW edit, NEW e, NEW k, StartDownload(gone, t, edit, e, k),
           local' = Deleted(gone), NEW id \in Ids, Live(id), id \notin gone
    PROVE  sess'[id] = sess[id] /\ local'[id] = local[id]
<1>1. nextId + 1 \in Ids /\ id # nextId + 1
  BY EditAssumption DEF IInv, TypeOK, StartDownload, Ids, NothingOfTheGone
<1>2. Without(gone) \in [Ids -> Sessions]
  BY WithoutType DEF IInv
<1>3. sess'[id] = Without(gone)[id]
  BY <1>1, <1>2 DEF StartDownload
<1> QED
  BY <1>3, WithoutIs

\* A new epoch of a tab leaves the modified marks alone.
LEMMA UpdateEpochMark ==
    ASSUME TypeOK, NEW id \in Ids, NEW t \in Tabs, NEW e, sess' = UpdateEpochForTab(t, e)
    PROVE  sess'[id].dirty = sess[id].dirty
<1>1. sess[id] \in Sessions
  BY DEF TypeOK
<1>2. CASE ~(Live(id) /\ sess[id].tab = t)
  BY <1>2 DEF UpdateEpochForTab, Live
<1>3. CASE Live(id) /\ sess[id].tab = t /\ sess[id].phase # "checking"
  <2>1. sess'[id] = [sess[id] EXCEPT !.epoch = e]
    BY <1>3 DEF UpdateEpochForTab, Live
  <2> QED
    BY <1>1, <2>1 DEF Sessions
<1>4. CASE Live(id) /\ sess[id].tab = t /\ sess[id].phase = "checking"
  <2>1. sess'[id] = [sess[id] EXCEPT !.epoch = e, !.phase = "editing", !.check = 0, !.seenLocal = 0]
    BY <1>4 DEF UpdateEpochForTab, Live
  <2> QED
    BY <1>1, <2>1 DEF Sessions
<1> QED
  BY <1>2, <1>3, <1>4

\* A step that leaves the tab open keeps the edited copy and its mark.
LEMMA NotLostStep ==
    ASSUME IInv, [Next]_vars, NEW id \in Ids, Edited(id), tabs'[sess[id].tab].open
    PROVE  CopyKept(id)
<1> USE DEF appVars, editVars, envVars
<1>0. /\ TypeOK /\ Live(id) /\ sess[id].phase \notin {"none", "downloading"}
      /\ local \in [Ids -> Stamps] /\ local[id] \in Nat /\ clock \in Nat /\ local[id] <= clock
      /\ tabs \in [Tabs -> TabStates] /\ sess[id].tab \in Tabs
  BY SMTT(30), EditAssumption DEF IInv, TypeOK, Edited, Live, Stamps, StampsOld, Sessions
<1>1. ASSUME sess'[id] = sess[id], local'[id] = local[id] PROVE CopyKept(id)
  BY <1>0, <1>1 DEF CopyKept
<1>2. ASSUME Goes(id), local' = local, sess'[id].dirty = sess[id].dirty PROVE CopyKept(id)
  BY <1>0, <1>2 DEF CopyKept, Goes
<1>3. ASSUME NEW t \in Tabs, TabStep(t) PROVE CopyKept(id)
  <2>1. CASE CloseTab(t)
    <3> DEFINE gone == SessionsOf({t})
    <3>1. sess' = Without(gone) /\ local' = Deleted(gone) /\ ~tabs'[t].open
      BY <1>0, <2>1 DEF CloseTab, Closed, TabStates
    <3>2. id \notin gone
      BY <3>1 DEF SessionsOf
    <3> HIDE DEF gone
    <3> QED
      BY <1>1, <3>1, <3>2, WithoutIs
  <2>2. CASE ConnectEnds(t) \/ ConnectionLost(t) \/ CloseWindow(t)
    BY <1>1, <2>2 DEF ConnectEnds, ConnectionLost, CloseWindow
  <2>3. CASE HandleDisconnected(t) \/ \E s \in Servers, saved \in BOOLEAN : Connect(t, s, saved)
    <3>1. AllGo /\ local' = local
      BY <1>0, <2>3, UpdateEpochGoes DEF HandleDisconnected, Connect
    <3>2. PICK e : sess' = UpdateEpochForTab(t, e)
      BY <2>3 DEF HandleDisconnected, Connect
    <3>3. sess'[id].dirty = sess[id].dirty
      BY <1>0, <3>2, UpdateEpochMark
    <3> QED
      BY <1>2, <3>1, <3>3 DEF AllGo
  <2> QED
    BY <1>3, <2>1, <2>2, <2>3 DEF TabStep
<1>4. ASSUME NEW t \in Tabs, UserStep(t) PROVE CopyKept(id)
  <2>1. CASE Open(t)
    <3>1. PICK edit : BeginEditResolved(t, edit)
      BY <2>1, OpenOpens
    <3>2. PICK reaped \in SUBSET Ids :
              /\ id \in reaped => ~tabs[sess[id].tab].open
              /\ tabs' = tabs /\ local' = Deleted(reaped)
              /\ \/ \E e, k : StartDownload(reaped, t, edit, e, k)
                 \/ sess' = Without(reaped)
      BY <3>1, ReapedAreClosed
    <3>3. id \notin reaped
      BY <3>2
    <3> QED
      BY <1>0, <1>1, <3>2, <3>3, StartKeeps, WithoutIs
  <2>2. CASE ConfirmLargeEdit(t)
    <3>1. local' = Deleted({})
      BY <1>0, <2>2 DEF ConfirmLargeEdit, Deleted
    <3>2. CASE StartDownload({}, t, modal[t], tabs[t].epoch, tabs[t].key)
      BY <1>0, <1>1, <3>1, <3>2, StartKeeps
    <3>3. CASE sess' = sess
      BY <1>1, <2>2, <3>3 DEF ConfirmLargeEdit
    <3> QED
      BY <2>2, <3>2, <3>3 DEF ConfirmLargeEdit
  <2>3. CASE CancelLargeEdit(t)
    BY <1>1, <2>3 DEF CancelLargeEdit
  <2>4. ASSUME NEW row \in Paths, RequestUpload(t, row) PROVE CopyKept(id)
    <3>1. PICK j \in FoundForTabPath(t, row) :
            \/ sess' = [sess EXCEPT ![j].phase = "checking", ![j].epoch = tabs[t].epoch,
                                    ![j].check = nextCheck + 1, ![j].seenLocal = local[j]]
            \/ sess' = Reverted([sess EXCEPT ![j].epoch = tabs[t].epoch], j)
            \/ UNCHANGED sess
      BY <2>4 DEF RequestUpload
    <3>2. j \in Ids /\ sess \in [Ids -> Sessions] /\ local' = local
      BY <1>0, <2>4 DEF FoundForTabPath, TypeOK, RequestUpload
    <3>3. sess'[id].phase # "none"
      BY SMTT(30), <1>0, <3>1, <3>2 DEF Reverted, Sessions
    <3>4. sess'[id].dirty = sess[id].dirty
      <4>1. CASE id # j
        BY <3>1, <3>2, <4>1 DEF Reverted
      <4>2. CASE id = j /\ UNCHANGED sess
        BY <4>2
      <4>3. CASE id = j /\ sess' = [sess EXCEPT ![j].phase = "checking", ![j].epoch = tabs[t].epoch,
                                    ![j].check = nextCheck + 1, ![j].seenLocal = local[j]]
        BY <3>2, <4>3 DEF Sessions
      <4>4. CASE id = j /\ sess' = Reverted([sess EXCEPT ![j].epoch = tabs[t].epoch], j)
        BY <3>2, <4>4 DEF Reverted, Sessions
      <4> QED
        BY <3>1, <4>1, <4>2, <4>3, <4>4
    <3> QED
      BY <1>0, <3>2, <3>3, <3>4 DEF CopyKept
  <2> QED
    BY <1>4, <2>1, <2>2, <2>3, <2>4 DEF UserStep
<1>5. ASSUME NEW j \in Ids, SessionStep(j) PROVE CopyKept(id)
  <2>1. CASE DiscardLocal(j)
    <3> DEFINE G == {j}
               edit == [name |-> sess[j].name, path |-> sess[j].path, listed |-> sess[j].snap]
    <3>1. sess[j].phase = "conflict" /\ local' = Deleted(G)
          /\ StartDownload(G, sess[j].tab, edit, sess[j].epoch, sess[j].key)
      BY <2>1 DEF DiscardLocal
    <3> HIDE DEF edit
    <3>2. CASE id # j
      <4>1. id \notin G
        BY <3>2
      <4> HIDE DEF G
      <4> QED
        BY <1>0, <1>1, <3>1, <4>1, StartKeeps
    <3>3. CASE id = j
      <4>1. nextId + 1 \in Ids /\ id # nextId + 1
        BY <1>0, <3>1, EditAssumption DEF IInv, TypeOK, StartDownload, Ids, NothingOfTheGone
      <4>2. Without(G) \in [Ids -> Sessions] /\ Without(G)[id].phase = "none"
        BY <1>0, <3>3, WithoutType, WithoutIs
      <4> HIDE DEF G
      <4>3. sess'[id] = Without(G)[id]
        BY <3>1, <4>1, <4>2 DEF StartDownload
      <4> QED
        BY <3>1, <3>3, <4>2, <4>3 DEF CopyKept
    <3> QED
      BY <3>2, <3>3
  <2>2. CASE Overwrite(j) \/ DecideLater(j) \/ HandleLocalEditModified(j)
    <3>1. sess'[id].phase # "none" /\ local' = local /\ (sess[id].dirty => sess'[id].dirty)
      <4>1. sess' \in {sess, [sess EXCEPT ![j].phase = "uploading"], [sess EXCEPT ![j].phase = "editing"],
                       [sess EXCEPT ![j].dirty = TRUE]}
        BY <2>2 DEF Overwrite, DecideLater, HandleLocalEditModified
      <4>2. local' = local
        BY <2>2 DEF Overwrite, DecideLater, HandleLocalEditModified
      <4>3. sess \in [Ids -> Sessions]
        BY <1>0 DEF TypeOK
      <4>4. sess'[id].phase # "none"
        BY <1>0, <4>1, <4>3 DEF Sessions
      <4>5. sess[id].dirty => sess'[id].dirty
        <5>1. CASE id # j
          BY <4>1, <4>3, <5>1
        <5>2. CASE id = j /\ sess' = [sess EXCEPT ![j].dirty = TRUE]
          BY <4>3, <5>2 DEF Sessions
        <5>3. CASE id = j /\ sess' \in {sess, [sess EXCEPT ![j].phase = "uploading"],
                                        [sess EXCEPT ![j].phase = "editing"]}
          BY <4>3, <5>3 DEF Sessions
        <5> QED
          BY <4>1, <5>1, <5>2, <5>3
      <4> QED
        BY <4>2, <4>4, <4>5
    <3> QED
      BY <1>0, <3>1 DEF CopyKept
  <2>3. CASE SaveLocal(j)
    <3>1. sess' = sess /\ (local'[id] = local[id] \/ local'[id] = clock + 1)
      BY <1>0, <2>3 DEF SaveLocal
    <3> QED
      BY <1>0, <3>1 DEF CopyKept
  <2> QED
    BY <1>5, <2>1, <2>2, <2>3 DEF SessionStep
<1>6. ASSUME NEW c \in checks, CheckStep(c) PROVE CopyKept(id)
  <2>1. local' = local
    BY <1>6 DEF CheckStep, RouteCheckRemoteEditSnapshot, AnswerCheck, HandleCheckResult
  <2>2. CASE sess' = sess
    BY <1>1, <2>1, <2>2
  <2>3. CASE OnCheckResult(c)
    <3>1. sess' \in {Reverted(sess, c.sid), [Reverted(sess, c.sid) EXCEPT ![c.sid].phase = "uploading"],
                     [Reverted(sess, c.sid) EXCEPT ![c.sid].phase = "conflict"]}
      BY <2>3 DEF OnCheckResult
    <3>3. c.sid \in Ids
      BY <1>0 DEF TypeOK, Checks
    <3>2. sess'[id].phase # "none" /\ sess'[id].dirty = sess[id].dirty
      <4>1. sess \in [Ids -> Sessions]
        BY <1>0 DEF TypeOK
      <4>2. CASE id = c.sid
        BY <3>1, <3>3, <4>1, <4>2 DEF Reverted, Sessions
      <4>3. CASE id # c.sid
        BY <1>0, <3>1, <3>3, <4>1, <4>3 DEF Reverted
      <4> QED
        BY <4>2, <4>3
    <3> QED
      BY <1>0, <2>1, <3>2 DEF CopyKept
  <2> QED
    BY <1>6, <2>2, <2>3 DEF CheckStep, RouteCheckRemoteEditSnapshot, AnswerCheck, HandleCheckResult
<1>7. ASSUME NEW x \in transfers, TransferStep(x) PROVE CopyKept(id)
  <2>0. x.sid \in Ids /\ (x.dir = "down" <=> sess[x.sid].phase = "downloading")
    BY <1>0 DEF TypeOK, Transfers, IInv, TransfersFit
  <2>1. CASE RouteTransfer(x) \/ TransferFails(x) \/ TransferCancelled(x) \/ RetryTransfer(x)
    BY <1>1, <2>1 DEF RouteTransfer, TransferFails, TransferCancelled, RetryTransfer
  <2>2. CASE TransferWrites(x)
    <3>1. sess'[id].phase = sess[id].phase /\ sess'[id].dirty = sess[id].dirty
      <4> DEFINE known == sess[x.sid].known \union {local[x.sid]}
      <4>1. sess' \in {sess, [sess EXCEPT ![x.sid].known = known]}
        BY <2>2 DEF TransferWrites
      <4> HIDE DEF known
      <4>2. sess \in [Ids -> Sessions] /\ sess[x.sid] \in Sessions
        BY <1>0, <2>0 DEF TypeOK
      <4>3. /\ [sess[x.sid] EXCEPT !.known = known].phase = sess[x.sid].phase
            /\ [sess[x.sid] EXCEPT !.known = known].dirty = sess[x.sid].dirty
        BY <4>2 DEF Sessions
      <4> QED
        BY <1>0, <2>0, <4>1, <4>2, <4>3
    <3>2. local'[id] = local[id]
      <4> DEFINE v == Current(x.server, x.path)
      <4>1. local' = local \/ (x.dir = "down" /\ local' = [local EXCEPT ![x.sid] = v])
        BY <2>2 DEF TransferWrites
      <4> HIDE DEF v
      <4> QED
        BY <1>0, <2>0, <4>1
    <3> QED
      BY <1>0, <3>1, <3>2 DEF CopyKept
  <2>3. CASE HandleTransferFinished(x)
    <3> DEFINE gone == IF Matches(x) /\ x.dir = "down" /\ x.at # "done" THEN {x.sid} ELSE {}
    <3>1. local' = Deleted(gone) /\ sess' = Finished(x)
      BY <2>3 DEF HandleTransferFinished
    <3>2. id \notin gone
      BY <1>0 DEF Matches
    <3>3. local'[id] = local[id]
      BY <3>1, <3>2, WithoutIs
    <3>4. sess'[id].phase # "none"
      <4>1. CASE ~Matches(x)
        BY <1>0, <3>1, <4>1 DEF Finished
      <4>2. CASE Matches(x) /\ x.dir = "down" /\ x.at # "done"
        BY <1>0, <3>1, <3>2, <4>2, WithoutIs DEF Finished
      <4>3. CASE Matches(x) /\ ~(x.dir = "down" /\ x.at # "done")
        BY <1>0, <2>0, <3>1, <4>3 DEF Finished, TypeOK, Sessions
      <4> QED
        BY <4>1, <4>2, <4>3
    <3>5. sess[id].dirty => sess'[id].dirty \/ UploadEnds(id)
      <4>1. CASE ~Matches(x) \/ x.at # "done"
        <5>1. PICK G : G = {x.sid}
          OBVIOUS
        <5>2. sess' \in {sess, Without(G), [sess EXCEPT ![x.sid].phase = "editing"]}
          BY <3>1, <4>1, <5>1 DEF Finished
        <5>3. sess' = Without(G) => sess'[id] = sess[id]
          BY <3>4, WithoutIs
        <5> QED
          BY <1>0, <2>0, <5>2, <5>3 DEF TypeOK, Sessions
      <4>2. CASE Matches(x) /\ x.at = "done" /\ id = x.sid
        <5>1. x.dir = "up"
          BY <1>0, <4>2 DEF Matches
        <5>2. x \notin transfers'
          BY <2>3, <4>2 DEF HandleTransferFinished, NotOf
        <5> QED
          BY <4>2, <5>1, <5>2 DEF UploadEnds
      <4>3. CASE Matches(x) /\ x.at = "done" /\ id # x.sid
        BY <1>0, <2>0, <3>1, <4>3 DEF Finished, TypeOK
      <4> QED
        BY <4>1, <4>2, <4>3
    <3> QED
      BY <1>0, <3>3, <3>4, <3>5 DEF CopyKept
  <2> QED
    BY <1>7, <2>1, <2>2, <2>3 DEF TransferStep
<1>8. ASSUME NEW s \in Servers, NEW p \in Paths, RemoteChange(s, p) PROVE CopyKept(id)
  BY <1>1, <1>8 DEF RemoteChange
<1>9. ASSUME SweepOrphans PROVE CopyKept(id)
  <2> DEFINE orphans == SessionsOf({t \in Tabs : ~tabs[t].open})
  <2>1. sess' = Without(orphans) /\ local' = Deleted(orphans) /\ tabs' = tabs
    BY <1>9 DEF SweepOrphans
  <2>2. id \notin orphans
    BY <2>1 DEF SessionsOf
  <2> HIDE DEF orphans
  <2> QED
    BY <1>1, <2>1, <2>2, WithoutIs
<1>10. ASSUME UNCHANGED vars PROVE CopyKept(id)
  BY <1>1, <1>10 DEF vars
<1> QED
  BY <1>3, <1>4, <1>5, <1>6, <1>7, <1>8, <1>9, <1>10 DEF Next

\* An edited copy is given up only with its tab or for DiscardLocal: no reconnect, link
\* that points elsewhere, finished transfer or sweep takes it from an open tab,
\* nothing but a later save replaces it, and its modified mark goes only when the
\* upload of an earlier save ends.
THEOREM EditsAreKept == Spec => EditsNotLost
<1>1. IInv /\ [Next]_vars => [\A id \in Ids : Edited(id) /\ tabs'[sess[id].tab].open =>
          \/ sess[id].phase = "conflict" /\ sess'[id].phase = "none"
          \/ /\ sess'[id].phase # "none" /\ local'[id] >= local[id]
             /\ sess[id].dirty => sess'[id].dirty \/ UploadEnds(id)]_vars
  BY NotLostStep DEF CopyKept
<1> QED
  BY <1>1, InvariantHolds, PTL DEF Spec, EditsNotLost
=============================================================================
