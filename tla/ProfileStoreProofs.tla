------------------------- MODULE ProfileStoreProofs -------------------------
(***************************************************************************)
(* profiles.json always loads, no commit undoes another, and equal         *)
(* revisions are equal profiles: for any number of instances, profiles,    *)
(* requests and faults.                                                    *)
(***************************************************************************)
EXTENDS ProfileStore, TLAPS

-----------------------------------------------------------------------------
(* What a change makes of a file. *)

\* The changed file is a file again, unless the revision overflows.
LEMMA ChangedType ==
    ASSUME NEW f \in Files, NEW o \in Requests,
           o.kind = "save" => f.profiles[o.id].rev < MaxRevision,
           o.kind # "none"
    PROVE  Changed(f, o) \in Files
<1> USE StoreAssumption
<1>1. CASE o.kind = "delete"
  <2>1. NoProfile \in Profiles
    BY DEF NoProfile, Profiles, Auths, Routes, Direct, NoSecret, Secrets
  <2>2. QED
    BY <1>1, <2>1 DEF Changed, Files, Requests
<1>2. CASE o.kind = "save"
  <2> DEFINE g == IF Has(f, o.id) THEN f ELSE [f EXCEPT !.next = o.id + 1]
  <2>1. g \in Files /\ g.profiles = f.profiles
    BY DEF Files, Requests, Ids
  <2>2. SaveProfile(g, o) \in Files
    <3> DEFINE p == [rev |-> g.profiles[o.id].rev + 1, auth |-> o.auth, route |-> o.route,
                     meant |-> IF o.secret # NoSecret THEN o.secret ELSE
                               IF o.auth = "plain" THEN NoSecret ELSE g.profiles[o.id].meant]
    <3>1. p \in Profiles
      BY <1>2, <2>1 DEF Files, Requests, Profiles, Secrets, NoSecret
    <3>2. SaveProfile(g, o) = [g EXCEPT !.profiles[o.id] = p]
      BY DEF SaveProfile
    <3> HIDE DEF p, g
    <3>3. QED
      BY <2>1, <3>1, <3>2 DEF Files, Requests
  <2>3. QED
    BY <1>2, <2>2 DEF Changed
<1>3. QED
  BY <1>1, <1>2 DEF Requests

\* A change concerns one profile; its revision grows by one; the ids handed out
\* stay handed out, and a new profile gets an id past all of them.
LEMMA ChangedFacts ==
    ASSUME NEW f \in Files, NEW o \in Requests, o.kind # "none",
           o.kind = "save" /\ ~Has(f, o.id) => f.next <= o.id
    PROVE  LET g == Changed(f, o) IN
           /\ \A id \in Ids \ {o.id} : g.profiles[id] = f.profiles[id]
           /\ g.next >= f.next
           /\ Has(g, o.id) => g.profiles[o.id].rev = f.profiles[o.id].rev + 1
           /\ Has(g, o.id) /\ ~Has(f, o.id) => f.next <= o.id /\ o.id < g.next
<1> USE StoreAssumption
<1>1. CASE o.kind = "delete"
  <2>1. Changed(f, o) = [f EXCEPT !.profiles[o.id] = NoProfile]
    BY <1>1 DEF Changed
  <2>2. QED
    BY <1>1, <2>1 DEF Files, Requests, NoProfile, Has, Ids
<1>2. CASE o.kind = "save"
  <2> DEFINE h == IF Has(f, o.id) THEN f ELSE [f EXCEPT !.next = o.id + 1]
  <2>1. /\ h \in [profiles : [Ids -> Profiles], next : Nat]
        /\ h.profiles = f.profiles
        /\ h.next >= f.next
        /\ ~Has(f, o.id) => o.id < h.next
    BY <1>2 DEF Files, Requests, Ids
  <2>2. Changed(f, o) = SaveProfile(h, o)
    BY <1>2 DEF Changed
  <2> HIDE DEF h
  <2>3. /\ SaveProfile(h, o).next = h.next
        /\ \A id \in Ids \ {o.id} : SaveProfile(h, o).profiles[id] = h.profiles[id]
        /\ SaveProfile(h, o).profiles[o.id].rev = h.profiles[o.id].rev + 1
    BY <2>1 DEF SaveProfile, Requests
  <2>4. QED
    BY <1>2, <2>1, <2>2, <2>3
<1>3. QED
  BY <1>1, <1>2 DEF Requests


-----------------------------------------------------------------------------
(* Types. *)

\* The empty request and the empty file have their types.
LEMMA NoOpType == NoOp \in Requests /\ Empty \in Files
<1> USE StoreAssumption
<1>1. NoProfile \in Profiles
  BY DEF NoProfile, Profiles, Auths, Routes, Direct, NoSecret, Secrets
<1>2. Empty \in Files
  BY <1>1 DEF Empty, Files, Ids
<1>3. QED
  BY <1>2 DEF NoOp, Requests, Auths, Routes, Direct, NoSecret, Secrets, Ids

\* The empty snapshot holds no profile.
LEMMA EmptyHasNone ==
    \A id \in Ids : ~Has(Empty, id) /\ Empty.profiles[id].rev = 0
BY DEF Empty, Has, NoProfile

\* The empty store.
LEMMA InitInv == Init => IInv
<1> SUFFICES ASSUME Init PROVE IInv
  OBVIOUS
<1>1. TypeOK
  BY StoreAssumption, NoOpType DEF Init, TypeOK, Steps, Secrets, NoSecret
<1>2. QED
  BY <1>1, StoreAssumption, EmptyHasNone DEF Init, IInv, LockHeld, WritesWhatItRead, IdsHandedOut,
     SnapshotsAreOld, SnapshotsAgree, FileLoads, Validates, Busy

\* A user's wish becomes a request of the right shape.
LEMMA AskBegins ==
    ASSUME TypeOK, NEW s \in Stores, Ask(s)
    PROVE  \E o \in Requests : o.kind # "none" /\ Begin(s, o)
<1> USE StoreAssumption, NoOpType DEF TypeOK
<1>1. ASSUME NEW id \in Ids, NEW auth \in Auths, NEW typed \in BOOLEAN, NEW route \in Routes,
             SaveRequest(s, id, auth, typed, route)
      PROVE  \E o \in Requests : o.kind # "none" /\ Begin(s, o)
  <2> DEFINE secret == IF typed THEN ops + 1 ELSE NoSecret
             o == [NoOp EXCEPT !.kind = "save", !.id = id, !.auth = auth, !.route = route,
                             !.secret = secret,
                             !.had = IF secret # NoSecret THEN keychain[<<id, auth>>] ELSE NoSecret,
                             !.was = mem[s].profiles[id].auth]
  <2>1. Begin(s, o) /\ Resolves(mem[s].profiles[id], auth, secret) /\ ops < MaxOps
    BY <1>1 DEF SaveRequest, Begin
  <2>2. secret \in Secrets /\ NoSecret \in Secrets
    BY <2>1 DEF Secrets, NoSecret
  <2>3. mem[s].profiles[id].auth \in Auths
    BY DEF Files, Profiles
  <2>4. secret # NoSecret => keychain[<<id, auth>>] \in Secrets
    BY <2>1 DEF Resolves, Auths
  <2>5. o \in Requests /\ o.kind = "save"
    BY <2>2, <2>3, <2>4 DEF Requests
  <2> HIDE DEF o, secret
  <2>6. QED
    BY <2>1, <2>5
<1>2. ASSUME NEW id \in Ids, DeleteRequest(s, id)
      PROVE  \E o \in Requests : o.kind # "none" /\ Begin(s, o)
  <2> DEFINE o == [NoOp EXCEPT !.kind = "delete", !.id = id, !.was = mem[s].profiles[id].auth]
  <2>1. mem[s].profiles[id].auth \in Auths
    BY DEF Files, Profiles
  <2>2. o \in Requests /\ o.kind = "delete"
    BY <2>1 DEF Requests
  <2>3. Begin(s, o)
    BY <1>2 DEF DeleteRequest
  <2> HIDE DEF o
  <2>4. QED
    BY <2>2, <2>3
<1>3. QED
  BY <1>1, <1>2 DEF Ask

\* Every step keeps the types.
LEMMA TypeStep == TypeOK /\ WritesWhatItRead /\ [Next]_vars => TypeOK'
<1> SUFFICES ASSUME TypeOK, WritesWhatItRead, [Next]_vars PROVE TypeOK'
  OBVIOUS
<1> USE StoreAssumption, NoOpType DEF TypeOK, Goto, Fault, Return, disk, bounds, Steps
<1>2. ASSUME NEW s \in Stores, Ask(s) PROVE TypeOK'
  <2>1. PICK o \in Requests : Begin(s, o)
    BY <1>2, AskBegins
  <2>2. o.id \in Ids
    BY DEF Requests
  <2>3. QED
    BY <2>1, <2>2 DEF Begin
<1>3. ASSUME NEW s \in Stores, OpenTransaction(s) PROVE TypeOK'
  <2> DEFINE g == Changed(live, op[s])
  <2>1. op[s] \in Requests /\ op[s].kind # "none"
    BY <1>3 DEF OpenTransaction, WritesWhatItRead, Busy
  <2>2. op[s].kind = "save" => live.profiles[op[s].id].rev < MaxRevision
    BY <1>3 DEF OpenTransaction, MayChange, Reloaded
  <2>3. g \in Files
    BY <2>1, <2>2, ChangedType
  <2>4. op' = [op EXCEPT ![s].file = g]
    BY <1>3 DEF OpenTransaction, Reloaded
  <2> HIDE DEF g
  <2>5. op' \in [Stores -> Requests]
    BY <2>1, <2>3, <2>4 DEF Requests
  <2>6. QED
    BY <1>3, <2>5 DEF OpenTransaction
<1>4. ASSUME NEW s \in Stores, RefuseChange(s) PROVE TypeOK'
  BY <1>4 DEF RefuseChange, GiveUp
<1>5. ASSUME NEW s \in Stores, NothingToDelete(s) PROVE TypeOK'
  BY <1>5 DEF NothingToDelete
<1>6. ASSUME NEW s \in Stores, OpenTransactionFails(s) PROVE TypeOK'
  BY <1>6 DEF OpenTransactionFails, GiveUp
<1>7. ASSUME NEW s \in Stores, StoreSecret(s) PROVE TypeOK'
  <2>1. op[s].secret \in Secrets
    BY DEF Requests
  <2>2. QED
    BY <1>7, <2>1 DEF StoreSecret
<1>8. ASSUME NEW s \in Stores, StoreSecretFails(s) PROVE TypeOK'
  BY <1>8 DEF StoreSecretFails
<1>9. ASSUME NEW s \in Stores, Stage(s) PROVE TypeOK'
  BY <1>9 DEF Stage
<1>10. ASSUME NEW s \in Stores, Rename(s) PROVE TypeOK'
  <2>1. op[s].file \in Files /\ op[s].id \in Ids
    BY DEF Requests
  <2>2. QED
    BY <1>10, <2>1 DEF Rename
<1>11. ASSUME NEW s \in Stores, NotCommitted(s) PROVE TypeOK'
  BY <1>11 DEF NotCommitted, GiveUp
<1>12. ASSUME NEW s \in Stores, SyncParent(s) \/ SyncParentFails(s) PROVE TypeOK'
  <2>1. op[s].file \in Files
    BY DEF Requests
  <2>2. QED
    BY <1>12, <2>1 DEF SyncParent, SyncParentFails, Committed
<1>13. ASSUME NEW s \in Stores, CleanOrphan(s) \/ UndoSecret(s) PROVE TypeOK'
  <2>1. op[s].had \in Secrets /\ NoSecret \in Secrets
    BY DEF Requests, Secrets, NoSecret
  <2>2. QED
    BY SMTT(30), <1>13, <2>1 DEF CleanOrphan, UndoSecret
<1>14. ASSUME NEW s \in Stores, KeychainFails(s) PROVE TypeOK'
  <2>1. op[s].id \in Ids
    BY DEF Requests
  <2>2. QED
    BY <1>14, <2>1 DEF KeychainFails
<1>15. ASSUME NEW s \in Stores, Quit(s) \/ Launch(s) PROVE TypeOK'
  BY <1>15 DEF Quit, Launch
<1>16. ASSUME NEW s \in Stores, Crash(s) PROVE TypeOK'
  <2>1. op[s].id \in Ids
    BY DEF Requests
  <2>2. QED
    BY <1>16, <2>1 DEF Crash
<1>17. CASE PowerLoss
  <2>1. \A s \in Stores : op[s].id \in Ids
    BY DEF Requests
  <2>2. excused' \subseteq Ids
    BY <1>17, <2>1 DEF PowerLoss
  <2>3. QED
    BY <1>17, <2>2 DEF PowerLoss
<1>18. CASE UNCHANGED vars
  BY <1>18 DEF vars
<1>19. QED
  BY <1>2, <1>3, <1>4, <1>5, <1>6, <1>7, <1>8, <1>9, <1>10, <1>11, <1>12, <1>13,
     <1>14, <1>15, <1>16, <1>17, <1>18 DEF Next, Transact, Proceed


-----------------------------------------------------------------------------
(* The parts of the inductive invariant. *)

\* The lock is taken with the reload and released when the write is over.
LEMMA LockStep == TypeOK /\ LockHeld /\ [Next]_vars => LockHeld'
<1> SUFFICES ASSUME TypeOK, LockHeld, [Next]_vars PROVE LockHeld'
  OBVIOUS
<1> USE StoreAssumption DEF TypeOK, LockHeld, Goto, Return, GiveUp, disk, bounds
<1>1. ASSUME NEW s \in Stores, Ask(s) PROVE LockHeld'
  <2>1. PICK o \in Requests : Begin(s, o)
    BY <1>1, AskBegins
  <2>2. QED
    BY <2>1 DEF Begin
<1>2. ASSUME NEW s \in Stores, Transact(s) \/ OpenTransactionFails(s) PROVE LockHeld'
  BY <1>2 DEF Transact, OpenTransaction, RefuseChange, NothingToDelete, OpenTransactionFails
<1>3. ASSUME NEW s \in Stores, StoreSecret(s) \/ StoreSecretFails(s) PROVE LockHeld'
  BY <1>3 DEF StoreSecret, StoreSecretFails
<1>4. ASSUME NEW s \in Stores, Stage(s) \/ Rename(s) \/ NotCommitted(s) PROVE LockHeld'
  BY <1>4 DEF Stage, Rename, NotCommitted
<1>5. ASSUME NEW s \in Stores, SyncParent(s) \/ SyncParentFails(s) PROVE LockHeld'
  BY <1>5 DEF SyncParent, SyncParentFails, Committed
<1>6. ASSUME NEW s \in Stores, CleanOrphan(s) \/ UndoSecret(s) \/ KeychainFails(s)
      PROVE  LockHeld'
  BY <1>6 DEF CleanOrphan, UndoSecret, KeychainFails
<1>7. ASSUME NEW s \in Stores, Quit(s) \/ Crash(s) \/ Launch(s) PROVE LockHeld'
  BY <1>7 DEF Quit, Crash, Launch, Busy
<1>8. CASE PowerLoss
  BY <1>8 DEF PowerLoss
<1>9. CASE UNCHANGED vars
  BY <1>9 DEF vars
<1>10. QED
  BY <1>1, <1>2, <1>3, <1>4, <1>5, <1>6, <1>7, <1>8, <1>9 DEF Next, Proceed

\* Nobody changes the file between the reload and the rename of the lock's holder.
LEMMA WriteStep ==
    TypeOK /\ LockHeld /\ WritesWhatItRead /\ [Next]_vars => WritesWhatItRead'
<1> SUFFICES ASSUME TypeOK, LockHeld, WritesWhatItRead, [Next]_vars PROVE WritesWhatItRead'
  OBVIOUS
<1> USE StoreAssumption, NoOpType
    DEF TypeOK, WritesWhatItRead, Busy, Goto, Return, GiveUp, disk, bounds
<1>2. ASSUME NEW s \in Stores, Ask(s) PROVE WritesWhatItRead'
  <2>1. PICK o \in Requests : o.kind # "none" /\ Begin(s, o)
    BY <1>2, AskBegins
  <2>2. QED
    BY <2>1 DEF Begin
<1>3. ASSUME NEW s \in Stores, OpenTransaction(s) PROVE WritesWhatItRead'
  <2> DEFINE g == Changed(live, op[s])
  <2>1. op[s] \in Requests /\ op[s].kind # "none" /\ live' = live
    BY <1>3 DEF OpenTransaction
  <2>2. /\ Validates(g)
        /\ op[s].kind = "save" /\ ~Has(live, op[s].id) => live.next <= op[s].id
    BY <1>3, <2>1 DEF OpenTransaction, MayChange, Reloaded, Conflicts, Requests, Files, Ids
  <2>3. /\ op' = [op EXCEPT ![s].file = g]
        /\ pc' = [pc EXCEPT ![s] = "stage"]
    BY <1>3 DEF OpenTransaction, Reloaded
  <2>4. g = Changed(live, op'[s])
    <3>1. /\ op'[s].kind = op[s].kind /\ op'[s].id = op[s].id /\ op'[s].auth = op[s].auth
          /\ op'[s].route = op[s].route /\ op'[s].secret = op[s].secret
      BY <2>1, <2>3 DEF Requests
    <3>2. QED
      BY <3>1 DEF Changed, SaveProfile
  <2> HIDE DEF g
  <2>5. op'[s].file = g /\ op'[s].kind = op[s].kind /\ op'[s].id = op[s].id
    BY <2>1, <2>3 DEF Requests
  <2>6. QED
    BY <2>1, <2>2, <2>3, <2>4, <2>5
<1>4. ASSUME NEW s \in Stores,
             RefuseChange(s) \/ NothingToDelete(s) \/ OpenTransactionFails(s)
      PROVE  WritesWhatItRead'
  BY <1>4 DEF RefuseChange, NothingToDelete, OpenTransactionFails
<1>5. ASSUME NEW s \in Stores, StoreSecret(s) \/ StoreSecretFails(s) PROVE WritesWhatItRead'
  BY <1>5 DEF StoreSecret, StoreSecretFails
<1>6. ASSUME NEW s \in Stores, Stage(s) \/ NotCommitted(s) PROVE WritesWhatItRead'
  BY <1>6 DEF Stage, NotCommitted
<1>7. ASSUME NEW s \in Stores, Rename(s) PROVE WritesWhatItRead'
  <2>1. \A t \in Stores \ {s} : pc[t] \notin {"stage", "rename", "sync"}
    BY <1>7 DEF Rename, LockHeld
  <2>2. QED
    BY <1>7, <2>1 DEF Rename
<1>8. ASSUME NEW s \in Stores, SyncParent(s) \/ SyncParentFails(s) PROVE WritesWhatItRead'
  BY <1>8 DEF SyncParent, SyncParentFails, Committed
<1>9. ASSUME NEW s \in Stores, CleanOrphan(s) \/ UndoSecret(s) \/ KeychainFails(s)
      PROVE  WritesWhatItRead'
  BY <1>9 DEF CleanOrphan, UndoSecret, KeychainFails
<1>10. ASSUME NEW s \in Stores, Quit(s) \/ Crash(s) \/ Launch(s) PROVE WritesWhatItRead'
  BY <1>10 DEF Quit, Crash, Launch
<1>11. CASE PowerLoss
  BY <1>11 DEF PowerLoss
<1>12. CASE UNCHANGED vars
  BY <1>12 DEF vars
<1>13. QED
  BY <1>2, <1>3, <1>4, <1>5, <1>6, <1>7, <1>8, <1>9, <1>10, <1>11, <1>12
  DEF Next, Transact, Proceed


\* The file changes only when the holder of the lock renames what it staged, or to
\* a content that a power loss may bring back.
LEMMA FileSteps ==
    ASSUME TypeOK, [Next]_vars
    PROVE  \/ live' = live /\ recoverable' \in {recoverable, {live}}
           \/ \E s \in Stores : Rename(s)
           \/ PowerLoss
<1> USE DEF disk
<1>1. ASSUME NEW s \in Stores, Ask(s) PROVE UNCHANGED <<live, recoverable>>
  BY <1>1, AskBegins DEF Begin
<1>2. ASSUME NEW s \in Stores, Transact(s) \/ OpenTransactionFails(s)
      PROVE  UNCHANGED <<live, recoverable>>
  BY <1>2 DEF Transact, OpenTransaction, RefuseChange, NothingToDelete, OpenTransactionFails
<1>3. ASSUME NEW s \in Stores, Proceed(s), ~Rename(s)
      PROVE  /\ live' = live
             /\ recoverable' = recoverable \/ recoverable' = {live}
  BY <1>3 DEF Proceed, StoreSecret, StoreSecretFails, Stage, NotCommitted, SyncParent,
     SyncParentFails, Committed, CleanOrphan, UndoSecret, KeychainFails
<1>4. ASSUME NEW s \in Stores, Quit(s) \/ Crash(s) \/ Launch(s)
      PROVE  UNCHANGED <<live, recoverable>>
  BY <1>4 DEF Quit, Crash, Launch
<1>5. QED
  BY <1>1, <1>2, <1>3, <1>4 DEF Next, vars

\* A snapshot stays, is dropped, or becomes the present file.
LEMMA SnapshotSteps ==
    ASSUME TypeOK, WritesWhatItRead, [Next]_vars
    PROVE  /\ (\E s \in Stores : Rename(s)) => mem' = mem
           /\ PowerLoss => \A s \in Stores : mem'[s] = Empty
           /\ \A s \in Stores : mem'[s] \in {mem[s], Empty, live}
<1> USE DEF TypeOK, disk
<1>1. ASSUME NEW s \in Stores, Ask(s) PROVE mem' = mem
  BY <1>1, AskBegins DEF Begin
<1>2. ASSUME NEW s \in Stores, Transact(s) \/ OpenTransactionFails(s) PROVE mem' = mem
  BY <1>2 DEF Transact, OpenTransaction, RefuseChange, NothingToDelete, OpenTransactionFails
<1>3. ASSUME NEW s \in Stores, SyncParent(s) \/ SyncParentFails(s)
      PROVE  mem' = [mem EXCEPT ![s] = live]
  BY <1>3 DEF SyncParent, SyncParentFails, Committed, WritesWhatItRead
<1>4. ASSUME NEW s \in Stores, Proceed(s), ~SyncParent(s), ~SyncParentFails(s)
      PROVE  mem' = mem
  BY <1>4 DEF Proceed, StoreSecret, StoreSecretFails, Stage, Rename, NotCommitted,
     CleanOrphan, UndoSecret, KeychainFails
<1>5. ASSUME NEW s \in Stores, Quit(s) \/ Crash(s) \/ Launch(s)
      PROVE  mem' \in {[mem EXCEPT ![s] = Empty], [mem EXCEPT ![s] = live]}
  BY <1>5 DEF Quit, Crash, Launch
<1>6. PowerLoss => \A s \in Stores : mem'[s] = Empty
  BY DEF PowerLoss
<1>7. (\E s \in Stores : Rename(s)) => mem' = mem
  BY DEF Rename
<1>8. \A s \in Stores : mem'[s] \in {mem[s], Empty, live}
  BY <1>1, <1>2, <1>3, <1>4, <1>5, <1>6 DEF Next, vars
<1>9. QED
  BY <1>6, <1>7, <1>8

\* Ids and revisions of a file are numbers.
LEMMA FileNumbers ==
    ASSUME NEW f \in Files, NEW id \in Ids
    PROVE  f.next \in Nat /\ id \in Nat /\ f.profiles[id].rev \in Nat
BY StoreAssumption DEF Files, Profiles, Ids

\* What the renamed file is.
LEMMA RenameFacts ==
    ASSUME TypeOK, WritesWhatItRead, NEW s \in Stores, Rename(s)
    PROVE  /\ live' = op[s].file
           /\ Validates(live')
           /\ recoverable' = recoverable \cup {live'}
           /\ op[s].id \in Ids
           /\ \A id \in Ids \ {op[s].id} : live'.profiles[id] = live.profiles[id]
           /\ live'.next >= live.next
           /\ Has(live', op[s].id) => live'.profiles[op[s].id].rev = live.profiles[op[s].id].rev + 1
           /\ Has(live', op[s].id) /\ ~Has(live, op[s].id)
                => live.next <= op[s].id /\ op[s].id < live'.next
<1>1. /\ live' = op[s].file /\ recoverable' = recoverable \cup {op[s].file}
      /\ pc[s] = "rename"
  BY DEF Rename
<1>2. /\ op[s].file = Changed(live, op[s]) /\ Validates(op[s].file)
      /\ op[s].kind # "none"
      /\ op[s].kind = "save" /\ ~Has(live, op[s].id) => live.next <= op[s].id
  BY <1>1 DEF WritesWhatItRead, Busy
<1>3. live \in Files /\ op[s] \in Requests /\ op[s].id \in Ids
  BY DEF TypeOK, Requests
<1>4. QED
  BY <1>1, <1>2, <1>3, ChangedFacts

\* Ids in use were handed out.
LEMMA IdsStep ==
    TypeOK /\ WritesWhatItRead /\ IdsHandedOut /\ [Next]_vars => IdsHandedOut'
<1> SUFFICES ASSUME TypeOK, WritesWhatItRead, IdsHandedOut, [Next]_vars PROVE IdsHandedOut'
  OBVIOUS
<1>1. CASE live' = live /\ recoverable' \in {recoverable, {live}}
  BY <1>1 DEF IdsHandedOut
<1>2. ASSUME NEW s \in Stores, Rename(s) PROVE IdsHandedOut'
  <2>1. \A id \in Ids : Has(live', id) => id < live'.next
    <3> SUFFICES ASSUME NEW id \in Ids, Has(live', id) PROVE id < live'.next
      OBVIOUS
    <3>1. live.next \in Nat /\ live'.next \in Nat /\ id \in Nat
      BY <1>2, TypeStep, StoreAssumption DEF TypeOK, Files, Ids
    <3>2. CASE Has(live, id)
      BY <1>2, <3>1, <3>2, RenameFacts DEF IdsHandedOut
    <3>3. CASE ~Has(live, id)
      BY <1>2, <3>3, RenameFacts DEF Has
    <3>4. QED
      BY <3>2, <3>3
  <2>2. QED
    BY <1>2, <2>1, RenameFacts DEF IdsHandedOut
<1>3. CASE PowerLoss
  BY <1>3 DEF PowerLoss, IdsHandedOut
<1>4. QED
  BY <1>1, <1>2, <1>3, FileSteps

\* Snapshots do not get ahead of the file.
LEMMA OldStep ==
    TypeOK /\ WritesWhatItRead /\ IdsHandedOut /\ SnapshotsAreOld /\ [Next]_vars
        => SnapshotsAreOld'
<1> SUFFICES ASSUME TypeOK, WritesWhatItRead, IdsHandedOut, SnapshotsAreOld, [Next]_vars,
                    NEW s \in Stores, NEW id \in Ids, Has(mem'[s], id)
             PROVE  /\ id < live'.next
                    /\ Has(live', id) => mem'[s].profiles[id].rev <= live'.profiles[id].rev
  BY DEF SnapshotsAreOld, Has
<1>0. /\ live.next \in Nat /\ live'.next \in Nat /\ id \in Nat
      /\ live.profiles[id].rev \in Nat /\ live'.profiles[id].rev \in Nat
      /\ mem[s].profiles[id].rev \in Nat
  <2>1. live \in Files /\ live' \in Files /\ mem[s] \in Files
    BY TypeStep DEF TypeOK
  <2>2. QED
    BY <2>1, FileNumbers
<1>1. CASE live' = live
  <2>1. mem'[s] \in {mem[s], live}
    BY SnapshotSteps, EmptyHasNone
  <2>2. QED
    BY <1>0, <1>1, <2>1 DEF SnapshotsAreOld, IdsHandedOut
<1>2. ASSUME NEW t \in Stores, Rename(t)
      PROVE  /\ id < live'.next
             /\ Has(live', id) => mem'[s].profiles[id].rev <= live'.profiles[id].rev
  <2>1. mem' = mem
    BY <1>2, SnapshotSteps
  <2>2. /\ id < live.next
        /\ Has(live, id) => mem[s].profiles[id].rev <= live.profiles[id].rev
    BY <2>1 DEF SnapshotsAreOld
  <2>3. CASE id = op[t].id
    BY <1>0, <1>2, <2>1, <2>2, <2>3, RenameFacts
  <2>4. CASE id # op[t].id
    BY <1>0, <1>2, <2>1, <2>2, <2>4, RenameFacts DEF Has
  <2>5. QED
    BY <2>3, <2>4
<1>3. CASE PowerLoss
  BY <1>3, SnapshotSteps, EmptyHasNone
<1>4. QED
  BY <1>1, <1>2, <1>3, FileSteps

\* Equal revisions stay equal profiles.
LEMMA AgreeStep ==
    TypeOK /\ WritesWhatItRead /\ SnapshotsAreOld /\ SnapshotsAgree /\ [Next]_vars
        => SnapshotsAgree'
<1> SUFFICES ASSUME TypeOK, WritesWhatItRead, SnapshotsAreOld, SnapshotsAgree, [Next]_vars,
                    NEW s \in Stores, NEW id \in Ids, Has(mem'[s], id)
             PROVE  /\ live'.profiles[id].rev = mem'[s].profiles[id].rev
                          => live'.profiles[id] = mem'[s].profiles[id]
                    /\ \A t \in Stores : mem'[t].profiles[id].rev = mem'[s].profiles[id].rev
                          => mem'[t].profiles[id] = mem'[s].profiles[id]
  BY DEF SnapshotsAgree, Has
<1>0. /\ live.next \in Nat /\ id \in Nat
      /\ live.profiles[id].rev \in Nat /\ live'.profiles[id].rev \in Nat
      /\ mem[s].profiles[id].rev \in Nat
  <2>1. live \in Files /\ live' \in Files /\ mem[s] \in Files
    BY TypeStep DEF TypeOK
  <2>2. QED
    BY <2>1, FileNumbers
<1>1. CASE live' = live
  <2>1. mem'[s] \in {mem[s], live}
    BY SnapshotSteps, EmptyHasNone
  <2>2. \A t \in Stores : mem'[t] \in {mem[t], Empty, live}
    BY SnapshotSteps
  <2>3. mem'[s].profiles[id].rev # 0
    BY DEF Has
  <2>4. \A t \in Stores : mem'[t].profiles[id].rev = mem'[s].profiles[id].rev
          => mem'[t] # Empty
    BY <2>3, EmptyHasNone
  <2>5. \A t \in Stores : mem'[t].profiles[id].rev = mem'[s].profiles[id].rev
          => mem'[t].profiles[id] = mem'[s].profiles[id]
    BY <2>1, <2>2, <2>4 DEF SnapshotsAgree, Has
  <2>6. QED
    BY <1>1, <2>1, <2>5 DEF SnapshotsAgree, Has
<1>2. ASSUME NEW u \in Stores, Rename(u)
      PROVE  /\ live'.profiles[id].rev = mem'[s].profiles[id].rev
                   => live'.profiles[id] = mem'[s].profiles[id]
             /\ \A t \in Stores : mem'[t].profiles[id].rev = mem'[s].profiles[id].rev
                   => mem'[t].profiles[id] = mem'[s].profiles[id]
  <2>1. mem' = mem
    BY <1>2, SnapshotSteps
  <2>2. CASE id # op[u].id
    BY <1>2, <2>1, <2>2, RenameFacts DEF SnapshotsAgree
  <2>3. CASE id = op[u].id
    <3>1. live'.profiles[id].rev # mem[s].profiles[id].rev
      BY <1>0, <1>2, <2>1, <2>3, RenameFacts DEF SnapshotsAreOld, Has
    <3>2. QED
      BY <2>1, <3>1 DEF SnapshotsAgree
  <2>4. QED
    BY <2>2, <2>3
<1>3. CASE PowerLoss
  BY <1>3, SnapshotSteps, EmptyHasNone
<1>4. QED
  BY <1>1, <1>2, <1>3, FileSteps

\* Whatever becomes the file was checked.
LEMMA LoadsStep ==
    TypeOK /\ WritesWhatItRead /\ FileLoads /\ [Next]_vars => FileLoads'
<1> SUFFICES ASSUME TypeOK, WritesWhatItRead, FileLoads, [Next]_vars PROVE FileLoads'
  OBVIOUS
<1>1. CASE live' = live /\ recoverable' \in {recoverable, {live}}
  BY <1>1 DEF FileLoads
<1>2. ASSUME NEW s \in Stores, Rename(s) PROVE FileLoads'
  BY <1>2, RenameFacts DEF FileLoads
<1>3. CASE PowerLoss
  BY <1>3 DEF PowerLoss, FileLoads
<1>4. QED
  BY <1>1, <1>2, <1>3, FileSteps

-----------------------------------------------------------------------------
(* The theorems. *)

\* The inductive invariant holds always.
THEOREM StoreInvariance == Spec => []IInv
<1>1. IInv /\ [Next]_vars => IInv'
  BY TypeStep, LockStep, WriteStep, IdsStep, OldStep, AgreeStep, LoadsStep DEF IInv
<1>2. QED
  BY InitInv, <1>1, PTL DEF Spec

\* profiles.json can always be loaded, also after a power loss (ProfilesFile::load).
THEOREM FileAlwaysLoads == Spec => []FileLoads
<1>1. IInv => FileLoads
  BY DEF IInv
<1>2. QED
  BY <1>1, StoreInvariance, PTL

\* A revision of a profile identifies its content, in the file and in the snapshots
\* of all instances (auth_fingerprint relies on it).
THEOREM RevisionsIdentify == Spec => []VersionsToldApart
<1>1. IInv => VersionsToldApart
  <2> SUFFICES ASSUME IInv, NEW s \in Stores, NEW id \in Ids,
                      NEW f \in {live} \cup {mem[t] : t \in Stores},
                      Has(f, id), f.profiles[id].rev = mem[s].profiles[id].rev
               PROVE  f.profiles[id] = mem[s].profiles[id]
    BY DEF VersionsToldApart
  <2>1. Has(mem[s], id)
    BY DEF Has
  <2>2. QED
    BY <2>1 DEF IInv, SnapshotsAgree
<1>2. QED
  BY <1>1, StoreInvariance, PTL

\* A commit keeps what other instances committed and never reuses an id
\* (commit_transaction reloads under the lock).
THEOREM CommitsNeverUndo == Spec => CommitsKeepOthers
<1> DEFINE Keeps ==
        live' # live /\ live' \notin recoverable =>
        /\ live'.next >= live.next
        /\ \E id \in Ids :
            /\ \A other \in Ids \ {id} : live'.profiles[other] = live.profiles[other]
            /\ Has(live', id) => live'.profiles[id].rev = live.profiles[id].rev + 1
            /\ Has(live', id) /\ ~Has(live, id) => live.next <= id /\ id < live'.next
<1>1. IInv /\ [Next]_vars => Keeps
  <2> SUFFICES ASSUME IInv, [Next]_vars, live' # live, live' \notin recoverable
               PROVE  Keeps
    OBVIOUS
  <2>1. ~PowerLoss
    BY DEF PowerLoss
  <2>2. PICK s \in Stores : Rename(s)
    BY <2>1, FileSteps DEF IInv
  <2>3. QED
    BY <2>2, RenameFacts DEF IInv
<1>2. IInv /\ [Next]_vars => [Keeps]_vars
  BY <1>1
<1>3. QED
  BY <1>2, StoreInvariance, PTL DEF Spec, CommitsKeepOthers

-----------------------------------------------------------------------------
(* The Keychain. *)

ItemsFit(id) == \A k \in Kinds : keychain[<<id, k>>] = Wanted(id, k)

\* Nothing about the profile of a request changes.
LEMMA SameItems ==
    ASSUME NEW o, \A k \in Kinds : keychain'[<<o.id, k>>] = keychain[<<o.id, k>>],
           live'.profiles[o.id] = live.profiles[o.id],
           o.secret # NoSecret => o.auth \in Kinds
    PROVE  /\ Untouched(o) => Untouched(o)'
           /\ SecretStored(o) => SecretStored(o)'
           /\ OrphanLeft(o) => OrphanLeft(o)'
<1>1. \A k : Wanted(o.id, k)' = Wanted(o.id, k)
  BY DEF Wanted
<1>2. Untouched(o) => Untouched(o)'
  BY <1>1 DEF Untouched
<1>3. SecretStored(o) => SecretStored(o)'
  BY <1>1 DEF SecretStored
<1>4. OrphanLeft(o) => OrphanLeft(o)'
  BY <1>1 DEF OrphanLeft, HasOrphan
<1> QED BY <1>2, <1>3, <1>4

\* A step of one instance in a request for one profile: what it has to see to,
\* and what follows for the others from there being no other request for it.
LEMMA OwnStep ==
    ASSUME TypeOK, KeyInv, NEW s \in Stores, NEW id \in Ids,
           \A t \in Stores \ {s} : pc'[t] = pc[t] /\ op'[t] = op[t] /\ mem'[t] = mem[t],
           \A other \in Ids \ {id}, k \in Kinds : keychain'[<<other, k>>] = keychain[<<other, k>>],
           \A other \in Ids \ {id} : live'.profiles[other] = live.profiles[other],
           excused \subseteq excused',
           Busy(s) => op[s].id = id,
           Busy(s)' => op'[s].id = id,
           \A t \in Stores \ {s} : Busy(t) /\ op[t].id = id => id \in excused',
           RequestFits(s)', KeychainFits(s)',
           ~Busy(s)' /\ id \notin excused' => ItemsFit(id)'
    PROVE  /\ OneRequestEach'
           /\ \A t \in Stores : RequestFits(t)' /\ KeychainFits(t)'
           /\ SecretsInStep'
<1>0. \A t \in Stores \ {s} : Busy(t)' = Busy(t)
  BY DEF Busy
<1>1. OneRequestEach'
  <2> SUFFICES ASSUME NEW t \in Stores, NEW u \in Stores, t # u, Busy(t)', Busy(u)', op'[t].id = op'[u].id
               PROVE  op'[t].id \in excused'
    BY DEF OneRequestEach, Busy
  <2>1. CASE t # s /\ u # s
    BY <1>0, <2>1 DEF KeyInv, OneRequestEach
  <2>2. CASE t = s
    BY <1>0, <2>2
  <2>3. CASE u = s
    BY <1>0, <2>3
  <2> QED BY <2>1, <2>2, <2>3
<1>2. ASSUME NEW t \in Stores \ {s} PROVE RequestFits(t)' /\ KeychainFits(t)'
  <2>1. RequestFits(t) /\ KeychainFits(t)
    BY DEF KeyInv
  <2>2. RequestFits(t)'
    BY <1>0, <2>1 DEF RequestFits
  <2>3. KeychainFits(t)'
    <3> SUFFICES ASSUME Busy(t), op[t].id \notin excused'
                 PROVE  /\ pc[t] = "store" => Untouched(op[t])'
                        /\ pc[t] \in {"lock", "stage", "rename", "undo"} => SecretStored(op[t])'
                        /\ pc[t] \in {"sync", "clean"} => OrphanLeft(op[t])'
      BY <1>0 DEF KeychainFits
    <3> DEFINE o == op[t]
    <3>1. o.id \in Ids \ {id} /\ o.id \notin excused
      BY DEF TypeOK, Requests
    <3>2. o.secret # NoSecret => o.auth \in Kinds
      BY <2>1 DEF RequestFits
    <3>3. op'[t] = o
      OBVIOUS
    <3>4. /\ pc[t] = "store" => Untouched(o)
          /\ pc[t] \in {"lock", "stage", "rename", "undo"} => SecretStored(o)
          /\ pc[t] \in {"sync", "clean"} => OrphanLeft(o)
      BY <2>1, <3>1 DEF KeychainFits
    <3>5. ASSUME NEW q, q = o
          PROVE  /\ Untouched(q) => Untouched(q)'
                 /\ SecretStored(q) => SecretStored(q)'
                 /\ OrphanLeft(q) => OrphanLeft(q)'
      BY <3>1, <3>2, <3>5, SameItems
    <3> QED BY <3>3, <3>4, <3>5
  <2> QED BY <2>2, <2>3
<1>3. SecretsInStep'
  <2> SUFFICES ASSUME NEW other \in Ids, other \notin excused', Concerns(other)' = {}
               PROVE  ItemsFit(other)'
    BY DEF SecretsInStep, ItemsFit, Wanted
  <2>1. CASE other = id
    <3>1. ~Busy(s)'
      BY <2>1 DEF Concerns
    <3> QED BY <2>1, <3>1
  <2>2. CASE other # id
    <3>1. Concerns(other) = {}
      BY <1>0, <2>2 DEF Concerns
    <3>2. ItemsFit(other)
      BY <3>1 DEF KeyInv, SecretsInStep, ItemsFit, Wanted
    <3> QED BY <2>2, <3>2 DEF ItemsFit, Wanted
  <2> QED BY <2>1, <2>2
<1> QED BY <1>1, <1>2, <1>3

KeysFit ==
    OneRequestEach /\ SecretsInStep /\ \A s \in Stores : RequestFits(s) /\ KeychainFits(s)

\* A request goes on: it stays the request it was, and the file stays.
LEMMA RequestGoesOn ==
    ASSUME TypeOK, KeyInv, NEW s \in Stores, Busy(s), NEW step \in Steps, Goto(s, step),
           UNCHANGED <<live, mem, excused>>,
           \A t \in Stores \ {s} : op'[t] = op[t],
           op'[s].id = op[s].id,
           \A other \in Ids \ {op[s].id}, k \in Kinds :
                keychain'[<<other, k>>] = keychain[<<other, k>>],
           RequestFits(s)', KeychainFits(s)', Busy(s)'
    PROVE  KeysFit'
<1> DEFINE id == op[s].id
<1>1. id \in Ids
  BY DEF TypeOK, Requests
<1>2. \A t \in Stores \ {s} : pc'[t] = pc[t]
  BY DEF Goto, TypeOK
<1>3. \A t \in Stores \ {s} : Busy(t) /\ op[t].id = id => id \in excused'
  BY DEF KeyInv, OneRequestEach
<1> HIDE DEF id
<1>4. op'[s].id = id /\ op[s].id = id
  BY DEF id
<1>5. /\ OneRequestEach'
      /\ \A t \in Stores : RequestFits(t)' /\ KeychainFits(t)'
      /\ SecretsInStep'
  BY <1>1, <1>2, <1>3, <1>4, OwnStep
<1> QED BY <1>5 DEF KeysFit

\* A request ends, and the items of its profile are as they should be, or the
\* profile is excused.
LEMMA RequestEnds ==
    ASSUME TypeOK, KeyInv, NEW s \in Stores, Busy(s), ~Busy(s)',
           live' = live, excused \subseteq excused',
           \A t \in Stores \ {s} : pc'[t] = pc[t] /\ op'[t] = op[t] /\ mem'[t] = mem[t],
           \A other \in Ids \ {op[s].id}, k \in Kinds :
                keychain'[<<other, k>>] = keychain[<<other, k>>],
           op[s].id \notin excused' =>
                \A k \in Kinds : keychain'[<<op[s].id, k>>] = Wanted(op[s].id, k)
    PROVE  KeysFit'
<1>1. PICK id \in Ids : op[s].id = id
  BY DEF TypeOK, Requests
<1>2. \A t \in Stores \ {s} : Busy(t) /\ op[t].id = id => id \in excused'
  BY <1>1 DEF KeyInv, OneRequestEach
<1>3. RequestFits(s)' /\ KeychainFits(s)'
  BY DEF RequestFits, KeychainFits, Busy
<1>4. id \notin excused' => ItemsFit(id)'
  <2>1. \A k : Wanted(id, k)' = Wanted(id, k)
    BY DEF Wanted
  <2> QED BY <1>1, <2>1 DEF ItemsFit
<1>5. /\ OneRequestEach'
      /\ \A t \in Stores : RequestFits(t)' /\ KeychainFits(t)'
      /\ SecretsInStep'
  BY <1>1, <1>2, <1>3, <1>4, OwnStep
<1> QED BY <1>5 DEF KeysFit

\* What is known of a request in the middle.
LEMMA OwnFacts ==
    ASSUME TypeOK, KeyInv, NEW s \in Stores
    PROVE  /\ op[s] \in Requests /\ op[s].id \in Ids /\ op[s].auth \in Auths /\ op[s].was \in Auths
           /\ live \in Files /\ live.profiles[op[s].id] \in Profiles
           /\ RequestFits(s) /\ KeychainFits(s)
BY DEF TypeOK, Requests, Files, KeyInv

\* A request that returns leaves the others alone.
LEMMA Returns ==
    ASSUME TypeOK, NEW s \in Stores, Return(s)
    PROVE  /\ ~Busy(s)'
           /\ \A t \in Stores \ {s} : pc'[t] = pc[t] /\ op'[t] = op[t]
BY DEF TypeOK, Return, Goto, Busy

\* A stored secret is beside the old profile, and a failed store changes nothing.
LEMMA StoreSecretFits ==
    ASSUME TypeOK, KeyInv, NEW s \in Stores, StoreSecret(s) \/ StoreSecretFails(s)
    PROVE  KeysFit'
<1>0. pc[s] = "store" /\ Busy(s) /\ UNCHANGED <<live, mem, excused>>
  BY DEF StoreSecret, StoreSecretFails, disk, Busy
<1>1. /\ op[s].secret # NoSecret /\ op[s].auth \in Kinds /\ op[s].id \in Ids
      /\ op[s].id \notin excused => Untouched(op[s])
  BY <1>0, OwnFacts DEF RequestFits, KeychainFits
<1>2. CASE StoreSecret(s)
  <2>1. /\ keychain' = [keychain EXCEPT ![<<op[s].id, op[s].auth>>] = op[s].secret]
        /\ op' = op /\ Goto(s, "lock")
    BY <1>2 DEF StoreSecret
  <2>2. \A id \in Ids, k \in Kinds :
            keychain'[<<id, k>>] = IF id = op[s].id /\ k = op[s].auth THEN op[s].secret
                                   ELSE keychain[<<id, k>>]
    BY <1>1, <2>1 DEF TypeOK
  <2>3. pc'[s] = "lock" /\ Busy(s)' /\ "lock" \in Steps
    BY <2>1 DEF Goto, TypeOK, Busy, Steps
  <2>4. RequestFits(s)'
    BY <1>0, <2>1, <2>3, OwnFacts DEF RequestFits
  <2>5. KeychainFits(s)'
    <3> SUFFICES ASSUME op[s].id \notin excused PROVE SecretStored(op[s])'
      BY <1>0, <2>1, <2>3 DEF KeychainFits
    <3>1. \A k : Wanted(op[s].id, k)' = Wanted(op[s].id, k)
      BY <1>0, <2>1 DEF Wanted
    <3> QED BY <1>1, <2>1, <2>2, <3>1 DEF Untouched, SecretStored
  <2> QED BY <1>0, <2>1, <2>2, <2>3, <2>4, <2>5, RequestGoesOn
<1>3. CASE StoreSecretFails(s)
  <2>1. Return(s) /\ keychain' = keychain
    BY <1>3 DEF StoreSecretFails
  <2> QED BY <1>0, <1>1, <2>1, Returns, RequestEnds DEF Untouched
<1> QED BY <1>2, <1>3

\* A request that is given up: its secret is to be put back, or it has none.
LEMMA GiveUpFits ==
    ASSUME TypeOK, KeyInv, NEW s \in Stores, pc[s] \in {"lock", "stage", "rename"}, GiveUp(s),
           UNCHANGED <<live, keychain, mem, excused>>
    PROVE  KeysFit'
<1>0. Busy(s)
  BY DEF Busy
<1>1. /\ op[s].id \notin excused => SecretStored(op[s])
      /\ op[s].id \in Ids
  BY <1>0, OwnFacts DEF KeychainFits
<1>2. CASE op[s].secret # NoSecret
  <2>1. Goto(s, "undo") /\ op' = op
    BY <1>2 DEF GiveUp
  <2>2. pc'[s] = "undo" /\ Busy(s)' /\ "undo" \in Steps
    BY <2>1 DEF Goto, TypeOK, Busy, Steps
  <2>3. RequestFits(s)'
    BY <1>0, <1>2, <2>1, <2>2, OwnFacts DEF RequestFits
  <2>4. KeychainFits(s)'
    BY <1>1, <2>1, <2>2 DEF KeychainFits, SecretStored, Wanted
  <2> QED BY <1>0, <2>1, <2>2, <2>3, <2>4, RequestGoesOn
<1>3. CASE op[s].secret = NoSecret
  <2>1. Return(s)
    BY <1>3 DEF GiveUp
  <2> QED BY <1>0, <1>1, <1>3, <2>1, Returns, RequestEnds DEF SecretStored
<1> QED BY <1>2, <1>3

\* The reload under the lock, or its refusal, leaves the Keychain as the request knows it.
LEMMA TransactFits ==
    ASSUME TypeOK, KeyInv, IdsHandedOut, NEW s \in Stores, Transact(s) \/ OpenTransactionFails(s)
    PROVE  KeysFit'
<1>0. pc[s] = "lock" /\ Busy(s) /\ UNCHANGED <<live, keychain, mem, excused>>
  BY DEF Transact, OpenTransaction, RefuseChange, NothingToDelete, OpenTransactionFails, disk, Busy
<1>1. /\ op[s].id \notin excused => SecretStored(op[s])
      /\ op[s].id \in Ids
  BY <1>0, OwnFacts DEF KeychainFits
<1>2. CASE RefuseChange(s) \/ OpenTransactionFails(s)
  BY <1>0, <1>2, GiveUpFits DEF RefuseChange, OpenTransactionFails
<1>3. CASE OpenTransaction(s)
  <2>1. op' = [op EXCEPT ![s].file = Changed(live, op[s])] /\ Goto(s, "stage")
    BY <1>3 DEF OpenTransaction, Reloaded
  <2>2. /\ op'[s].id = op[s].id /\ op'[s].kind = op[s].kind /\ op'[s].auth = op[s].auth
        /\ op'[s].secret = op[s].secret /\ op'[s].had = op[s].had /\ op'[s].was = op[s].was
        /\ \A t \in Stores \ {s} : op'[t] = op[t]
    BY <2>1, OwnFacts DEF TypeOK, Requests
  <2>3. pc'[s] = "stage" /\ Busy(s)' /\ "stage" \in Steps
    BY <2>1 DEF Goto, TypeOK, Busy, Steps
  <2>4. RequestFits(s)'
    BY <1>0, <2>2, <2>3, OwnFacts DEF RequestFits, HasOrphan
  <2>5. KeychainFits(s)'
    BY <1>0, <1>1, <2>2, <2>3 DEF KeychainFits, SecretStored, Wanted
  <2> QED BY <1>0, <2>1, <2>2, <2>3, <2>4, <2>5, RequestGoesOn
<1>4. CASE NothingToDelete(s)
  <2>1. op[s].kind = "delete" /\ ~Has(live, op[s].id)
    BY <1>4 DEF NothingToDelete, Reloaded
  <2>2. op[s].auth = "plain" /\ op[s].secret = NoSecret
    BY <1>0, <2>1, OwnFacts DEF RequestFits, Kinds
  <2>3. live.profiles[op[s].id].auth = "plain"
    BY <1>1, <2>1 DEF KeyInv, NothingOfTheDeleted, IdsHandedOut, NoProfile
  <2>4. CASE HasOrphan(op[s])
    <3>1. Goto(s, "clean") /\ op' = op
      BY <1>4, <2>4 DEF NothingToDelete
    <3>2. pc'[s] = "clean" /\ Busy(s)' /\ "clean" \in Steps
      BY <3>1 DEF Goto, TypeOK, Busy, Steps
    <3>3. RequestFits(s)'
      BY <1>0, <2>4, <3>1, <3>2, OwnFacts DEF RequestFits, HasOrphan
    <3>4. KeychainFits(s)'
      BY <1>0, <1>1, <2>2, <2>3, <2>4, <3>1, <3>2
      DEF KeychainFits, SecretStored, OrphanLeft, HasOrphan, Wanted
    <3> QED BY <1>0, <3>1, <3>2, <3>3, <3>4, RequestGoesOn
  <2>5. CASE ~HasOrphan(op[s])
    <3>1. Return(s)
      BY <1>4, <2>5 DEF NothingToDelete
    <3> QED BY <1>0, <1>1, <2>2, <3>1, Returns, RequestEnds DEF SecretStored
  <2> QED BY <2>4, <2>5
<1> QED BY <1>2, <1>3, <1>4 DEF Transact

\* Staging, or failing before the rename, leaves the Keychain alone.
LEMMA StageFits ==
    ASSUME TypeOK, KeyInv, NEW s \in Stores, Stage(s) \/ NotCommitted(s)
    PROVE  KeysFit'
<1>1. CASE NotCommitted(s)
  BY <1>1, GiveUpFits DEF NotCommitted
<1>2. CASE Stage(s)
  <2>0. /\ pc[s] = "stage" /\ Busy(s) /\ UNCHANGED <<live, keychain, mem, excused, op>>
        /\ Goto(s, "rename")
    BY <1>2 DEF Stage, Busy
  <2>1. pc'[s] = "rename" /\ Busy(s)' /\ "rename" \in Steps
    BY <2>0 DEF Goto, TypeOK, Busy, Steps
  <2>2. RequestFits(s)'
    BY <2>0, <2>1, OwnFacts DEF RequestFits
  <2>3. KeychainFits(s)'
    BY <2>0, <2>1, OwnFacts DEF KeychainFits, SecretStored, Wanted
  <2> QED BY <2>0, <2>1, <2>2, <2>3, RequestGoesOn
<1> QED BY <1>1, <1>2

\* What becomes of the profile that a request is for.
LEMMA ChangedProfile ==
    ASSUME NEW f \in Files, NEW o \in Requests
    PROVE  /\ o.kind = "delete" => Changed(f, o).profiles[o.id] = NoProfile
           /\ o.kind = "save" =>
                /\ Changed(f, o).profiles[o.id].rev = f.profiles[o.id].rev + 1
                /\ Changed(f, o).profiles[o.id].auth = o.auth
                /\ Changed(f, o).profiles[o.id].meant =
                        IF o.secret # NoSecret THEN o.secret ELSE
                        IF o.auth = "plain" THEN NoSecret ELSE f.profiles[o.id].meant
<1>0. o.id \in Ids /\ f.profiles \in [Ids -> Profiles]
  BY DEF Requests, Files
<1>1. ASSUME o.kind = "delete" PROVE Changed(f, o).profiles[o.id] = NoProfile
  <2>1. Changed(f, o) = [f EXCEPT !.profiles[o.id] = NoProfile]
    BY <1>1 DEF Changed
  <2> QED BY <1>0, <2>1 DEF Files
<1>2. ASSUME o.kind = "save"
      PROVE  /\ Changed(f, o).profiles[o.id].rev = f.profiles[o.id].rev + 1
             /\ Changed(f, o).profiles[o.id].auth = o.auth
             /\ Changed(f, o).profiles[o.id].meant =
                        IF o.secret # NoSecret THEN o.secret ELSE
                        IF o.auth = "plain" THEN NoSecret ELSE f.profiles[o.id].meant
  <2> DEFINE h == IF Has(f, o.id) THEN f ELSE [f EXCEPT !.next = o.id + 1]
             p == [rev |-> h.profiles[o.id].rev + 1, auth |-> o.auth, route |-> o.route,
                   meant |-> IF o.secret # NoSecret THEN o.secret ELSE
                             IF o.auth = "plain" THEN NoSecret ELSE h.profiles[o.id].meant]
  <2>1. h.profiles = f.profiles /\ h \in [profiles : [Ids -> Profiles], next : Nat]
    BY StoreAssumption DEF Files, Requests, Ids
  <2>2. Changed(f, o) = [h EXCEPT !.profiles[o.id] = p]
    BY <1>2 DEF Changed, SaveProfile
  <2> HIDE DEF h
  <2>3. [h EXCEPT !.profiles[o.id] = p].profiles[o.id] = p
    BY <1>0, <2>1
  <2> QED BY <2>1, <2>2, <2>3
<1> QED BY <1>1, <1>2

\* The rename makes the new secret the profile's own and the old one an orphan.
LEMMA RenameFits ==
    ASSUME IInv, KeyInv, NEW s \in Stores, Rename(s)
    PROVE  KeysFit'
<1>0. /\ pc[s] = "rename" /\ Busy(s) /\ UNCHANGED <<keychain, op, mem>> /\ Goto(s, "sync")
      /\ TypeOK /\ WritesWhatItRead /\ live' = op[s].file
      /\ excused' = IF mem[s].profiles[op[s].id] # live.profiles[op[s].id]
                    THEN excused \cup {op[s].id} ELSE excused
  BY DEF Rename, Busy, IInv
<1>1. PICK id \in Ids : op[s].id = id
  BY <1>0 DEF TypeOK, Requests
<1>2. pc'[s] = "sync" /\ Busy(s)' /\ \A t \in Stores \ {s} : pc'[t] = pc[t]
  BY <1>0 DEF Goto, TypeOK, Busy
<1>3. \A other \in Ids \ {id} : live'.profiles[other] = live.profiles[other]
  BY <1>0, <1>1, RenameFacts
<1>4. \A t \in Stores \ {s} : Busy(t) /\ op[t].id = id => id \in excused'
  BY <1>0, <1>1 DEF KeyInv, OneRequestEach
<1>5. RequestFits(s)'
  BY <1>0, <1>2, OwnFacts DEF RequestFits
<1>6. KeychainFits(s)'
  <2> SUFFICES ASSUME id \notin excused' PROVE OrphanLeft(op[s])'
    BY <1>0, <1>1, <1>2 DEF KeychainFits
  <2> DEFINE o == op[s]
             old == live.profiles[id]
             new == live'.profiles[id]
  <2>1. /\ mem[s].profiles[id] = old /\ id \notin excused /\ o \in Requests /\ live \in Files
        /\ o.auth \in Auths /\ o.was \in Auths /\ old \in Profiles /\ o.kind \in {"save", "delete"}
    BY <1>0, <1>1, OwnFacts DEF WritesWhatItRead, Requests
  <2>2. SecretStored(o) /\ RequestFits(s)
    BY <1>0, <1>1, <2>1, OwnFacts DEF KeychainFits
  <2>3. o.was = old.auth /\ (o.secret # NoSecret => o.auth \in Kinds)
        /\ (o.secret = NoSecret /\ o.auth \in Kinds => o.was = o.auth)
        /\ (o.kind = "delete" => o.auth = "plain")
    BY <1>0, <1>1, <2>1, <2>2 DEF RequestFits
  <2>4. live' = Changed(live, o)
    BY <1>0 DEF WritesWhatItRead
  <2>5. /\ new.auth = o.auth
        /\ new.meant = IF o.secret # NoSecret THEN o.secret ELSE
                       IF o.auth = "plain" THEN NoSecret ELSE old.meant
    <3>1. CASE o.kind = "delete"
      <4>1. new = NoProfile
        BY <1>1, <2>1, <2>4, <3>1, ChangedProfile
      <4>2. o.auth = "plain" /\ o.secret = NoSecret
        BY <2>3, <3>1 DEF Kinds
      <4> QED BY <4>1, <4>2 DEF NoProfile
    <3>2. CASE o.kind = "save"
      BY <1>1, <2>1, <2>4, <3>2, ChangedProfile
    <3> QED BY <2>1, <3>1, <3>2
  <2>6. \A k \in Kinds : keychain[<<id, k>>] =
            IF o.secret # NoSecret /\ k = o.auth THEN o.secret ELSE
            IF old.auth = k THEN old.meant ELSE NoSecret
    BY <1>1, <2>2, <2>3 DEF SecretStored, Wanted
  <2>7. \A k \in Kinds : ~(HasOrphan(o) /\ k = o.was) =>
            keychain[<<id, k>>] = IF new.auth = k THEN new.meant ELSE NoSecret
    BY <2>1, <2>3, <2>5, <2>6 DEF HasOrphan, Kinds, Auths
  <2>8. HasOrphan(o) => new.auth # o.was
    BY <2>5 DEF HasOrphan
  <2> QED BY <1>0, <1>1, <2>7, <2>8 DEF OrphanLeft, HasOrphan, Wanted
<1>7. excused \subseteq excused' /\ op'[s].id = id
  BY <1>0, <1>1
<1>8. /\ OneRequestEach'
      /\ \A t \in Stores : RequestFits(t)' /\ KeychainFits(t)'
      /\ SecretsInStep'
  BY <1>0, <1>1, <1>2, <1>3, <1>4, <1>5, <1>6, <1>7, OwnStep
<1> QED BY <1>8 DEF KeysFit

\* Syncing the directory does not touch the Keychain, whether it succeeds or not.
LEMMA SyncFits ==
    ASSUME TypeOK, KeyInv, NEW s \in Stores, SyncParent(s) \/ SyncParentFails(s)
    PROVE  KeysFit'
<1>0. /\ pc[s] = "sync" /\ Busy(s) /\ Committed(s)
      /\ UNCHANGED <<live, keychain, excused>> /\ mem' = [mem EXCEPT ![s] = op[s].file]
  BY DEF SyncParent, SyncParentFails, Committed, Busy
<1>1. PICK id \in Ids : op[s].id = id
  BY DEF TypeOK, Requests
<1>2. id \notin excused => OrphanLeft(op[s])
  BY <1>0, <1>1, OwnFacts DEF KeychainFits
<1>3. \A t \in Stores \ {s} : mem'[t] = mem[t]
  BY <1>0 DEF TypeOK
<1>4. CASE HasOrphan(op[s])
  <2>1. Goto(s, "clean") /\ op' = op
    BY <1>0, <1>4 DEF Committed
  <2>2. pc'[s] = "clean" /\ Busy(s)' /\ \A t \in Stores \ {s} : pc'[t] = pc[t]
    BY <2>1 DEF Goto, TypeOK, Busy
  <2>3. RequestFits(s)'
    BY <1>0, <1>4, <2>1, <2>2, OwnFacts DEF RequestFits, HasOrphan
  <2>4. KeychainFits(s)'
    BY <1>0, <1>1, <1>2, <2>1, <2>2 DEF KeychainFits, OrphanLeft, HasOrphan, Wanted
  <2>5. \A t \in Stores \ {s} : Busy(t) /\ op[t].id = id => id \in excused'
    BY <1>0, <1>1 DEF KeyInv, OneRequestEach
  <2>6. /\ OneRequestEach'
        /\ \A t \in Stores : RequestFits(t)' /\ KeychainFits(t)'
        /\ SecretsInStep'
    BY <1>0, <1>1, <1>3, <2>1, <2>2, <2>3, <2>4, <2>5, OwnStep
  <2> QED BY <2>6 DEF KeysFit
<1>5. CASE ~HasOrphan(op[s])
  <2>1. Return(s)
    BY <1>0, <1>5 DEF Committed
  <2> QED BY <1>0, <1>1, <1>2, <1>3, <1>5, <2>1, Returns, RequestEnds DEF OrphanLeft
<1> QED BY <1>4, <1>5

\* Cleaning up and undoing restore the Keychain; where they fail the profile is excused.
LEMMA AfterwardsFits ==
    ASSUME TypeOK, KeyInv, NEW s \in Stores, CleanOrphan(s) \/ UndoSecret(s) \/ KeychainFails(s)
    PROVE  KeysFit'
<1>0. /\ pc[s] \in {"clean", "undo"} /\ Busy(s) /\ Return(s) /\ UNCHANGED <<live, mem>>
      /\ excused \subseteq excused'
  BY DEF CleanOrphan, UndoSecret, KeychainFails, Busy, disk
<1>1. PICK id \in Ids : op[s].id = id
  BY DEF TypeOK, Requests
<1>2. CASE CleanOrphan(s)
  <2>1. /\ keychain' = [keychain EXCEPT ![<<id, op[s].was>>] = NoSecret] /\ pc[s] = "clean"
        /\ excused' = excused
    BY <1>1, <1>2 DEF CleanOrphan
  <2>2. op[s].was \in Kinds /\ HasOrphan(op[s]) /\ (id \notin excused => OrphanLeft(op[s]))
    BY <1>0, <1>1, <2>1, OwnFacts DEF RequestFits, KeychainFits, HasOrphan, Auths
  <2>3. \A other \in Ids, k \in Kinds :
            keychain'[<<other, k>>] = IF other = id /\ k = op[s].was THEN NoSecret
                                      ELSE keychain[<<other, k>>]
    BY <2>1, <2>2 DEF TypeOK
  <2>4. id \notin excused => \A k \in Kinds : keychain'[<<id, k>>] = Wanted(id, k)
    BY <1>1, <2>2, <2>3 DEF OrphanLeft, Wanted
  <2> QED BY <1>0, <1>1, <2>1, <2>3, <2>4, Returns, RequestEnds
<1>3. CASE UndoSecret(s)
  <2>1. /\ keychain' = [keychain EXCEPT ![<<id, op[s].auth>>] = op[s].had] /\ pc[s] = "undo"
        /\ excused' = excused
    BY <1>1, <1>3 DEF UndoSecret
  <2>2. /\ op[s].auth \in Kinds /\ op[s].secret # NoSecret
        /\ id \notin excused => SecretStored(op[s])
    BY <1>0, <1>1, <2>1, OwnFacts DEF RequestFits, KeychainFits
  <2>3. \A other \in Ids, k \in Kinds :
            keychain'[<<other, k>>] = IF other = id /\ k = op[s].auth THEN op[s].had
                                      ELSE keychain[<<other, k>>]
    BY <2>1, <2>2 DEF TypeOK
  <2>4. id \notin excused => \A k \in Kinds : keychain'[<<id, k>>] = Wanted(id, k)
    BY <1>1, <2>2, <2>3 DEF SecretStored
  <2> QED BY <1>0, <1>1, <2>1, <2>3, <2>4, Returns, RequestEnds
<1>4. CASE KeychainFails(s)
  <2>1. keychain' = keychain /\ id \in excused'
    BY <1>1, <1>4 DEF KeychainFails
  <2> QED BY <1>0, <1>1, <2>1, Returns, RequestEnds
<1> QED BY <1>2, <1>3, <1>4

\* A crash excuses the profile of the request it interrupts.
LEMMA CrashFits ==
    ASSUME TypeOK, KeyInv, NEW s \in Stores, Crash(s)
    PROVE  KeysFit'
<1>1. /\ Busy(s) /\ live' = live /\ keychain' = keychain /\ op[s].id \in excused'
      /\ excused \subseteq excused'
      /\ \A t \in Stores \ {s} : pc'[t] = pc[t] /\ op'[t] = op[t] /\ mem'[t] = mem[t]
  BY DEF Crash, Goto, TypeOK, disk
<1>2. ~Busy(s)'
  BY DEF Crash, Goto, TypeOK, Busy
<1> QED BY <1>1, <1>2, RequestEnds

\* An instance that does nothing comes or goes.
LEMMA ComeAndGoFits ==
    ASSUME TypeOK, KeyInv, NEW s \in Stores, Quit(s) \/ Launch(s)
    PROVE  KeysFit'
<1>1. /\ UNCHANGED <<live, keychain, op, excused>> /\ ~Busy(s) /\ ~Busy(s)'
      /\ pc'[s] \in {"idle", "down"}
      /\ \A t \in Stores \ {s} : pc'[t] = pc[t] /\ mem'[t] = mem[t]
  BY DEF Quit, Launch, Goto, TypeOK, Busy, disk
<1>2. \A t \in Stores : Busy(t)' = Busy(t) /\ (Busy(t) => pc'[t] = pc[t])
  BY <1>1 DEF Busy
<1>3. OneRequestEach'
  BY <1>1, <1>2 DEF KeyInv, OneRequestEach
<1>4. ASSUME NEW t \in Stores PROVE RequestFits(t)' /\ KeychainFits(t)'
  <2>1. CASE t = s
    BY <1>1, <2>1 DEF RequestFits, KeychainFits
  <2>2. CASE t # s
    <3>1. RequestFits(t) /\ KeychainFits(t)
      BY DEF KeyInv
    <3>2. RequestFits(t)'
      BY <1>1, <1>2, <2>2, <3>1 DEF RequestFits
    <3>3. KeychainFits(t)'
      BY <1>1, <1>2, <2>2, <3>1 DEF KeychainFits, Untouched, SecretStored, OrphanLeft, Wanted
    <3> QED BY <3>2, <3>3
  <2> QED BY <2>1, <2>2
<1>5. SecretsInStep'
  <2>1. \A id \in Ids : Concerns(id)' = Concerns(id)
    BY <1>1, <1>2 DEF Concerns
  <2> QED BY <1>1, <2>1 DEF KeyInv, SecretsInStep
<1> QED BY <1>3, <1>4, <1>5 DEF KeysFit

\* A power loss excuses every profile of a request and every one it takes back.
LEMMA PowerLossFits ==
    ASSUME TypeOK, KeyInv, PowerLoss
    PROVE  KeysFit'
<1>1. /\ \A t \in Stores : ~Busy(t)' /\ pc'[t] = "down"
      /\ keychain' = keychain /\ excused \subseteq excused'
      /\ \A t \in Stores : Busy(t) => op[t].id \in excused'
      /\ \A id \in Ids : live'.profiles[id] # live.profiles[id] => id \in excused'
  BY DEF PowerLoss, Busy
<1>2. OneRequestEach' /\ \A t \in Stores : RequestFits(t)' /\ KeychainFits(t)'
  BY <1>1 DEF OneRequestEach, RequestFits, KeychainFits
<1>3. SecretsInStep'
  <2> SUFFICES ASSUME NEW id \in Ids, id \notin excused'
               PROVE  \A k \in Kinds : keychain'[<<id, k>>] = IF live'.profiles[id].auth = k
                                            THEN live'.profiles[id].meant ELSE NoSecret
    BY DEF SecretsInStep
  <2>1. Concerns(id) = {} /\ id \notin excused /\ live'.profiles[id] = live.profiles[id]
    BY <1>1 DEF Concerns
  <2> QED BY <1>1, <2>1 DEF KeyInv, SecretsInStep
<1> QED BY <1>2, <1>3 DEF KeysFit

\* What a request knows when it begins.
KnowsItsProfile(s, o) ==
    /\ o.secret # NoSecret => o.auth \in Kinds /\ o.had = keychain[<<o.id, o.auth>>]
    /\ o.kind = "delete" => o.auth = "plain"
    /\ o.secret = NoSecret /\ o.auth \in Kinds => o.was = o.auth
    /\ o.was = mem[s].profiles[o.id].auth

\* resolve_auth and the snapshot see to it.
LEMMA AskKnows ==
    ASSUME TypeOK, NEW s \in Stores, Ask(s)
    PROVE  \E o \in Requests : Begin(s, o) /\ KnowsItsProfile(s, o)
<1> USE StoreAssumption, NoOpType DEF TypeOK
<1>1. ASSUME NEW id \in Ids, NEW auth \in Auths, NEW typed \in BOOLEAN, NEW route \in Routes,
             SaveRequest(s, id, auth, typed, route)
      PROVE  \E o \in Requests : Begin(s, o) /\ KnowsItsProfile(s, o)
  <2> DEFINE secret == IF typed THEN ops + 1 ELSE NoSecret
             had == IF secret # NoSecret THEN keychain[<<id, auth>>] ELSE NoSecret
             was == mem[s].profiles[id].auth
             o == [NoOp EXCEPT !.kind = "save", !.id = id, !.auth = auth, !.route = route,
                             !.secret = secret, !.had = had, !.was = was]
  <2>1. Begin(s, o) /\ Resolves(mem[s].profiles[id], auth, secret) /\ ops < MaxOps
    BY <1>1 DEF SaveRequest, Begin
  <2>2. secret \in Secrets /\ NoSecret \in Secrets
    BY <2>1 DEF Secrets, NoSecret
  <2>3. was \in Auths
    BY DEF Files, Profiles
  <2>4. /\ secret # NoSecret => auth \in Kinds
        /\ secret = NoSecret /\ auth \in Kinds => was = auth
    BY <2>1 DEF Resolves, Auths, Kinds
  <2>5. had \in Secrets
    BY <2>2, <2>4
  <2>6. secret # NoSecret => had = keychain[<<id, auth>>]
    OBVIOUS
  <2>7. was = mem[s].profiles[id].auth
    OBVIOUS
  <2> HIDE DEF secret, had, was
  <2>8. /\ o \in Requests /\ o.kind = "save" /\ o.id = id /\ o.auth = auth
        /\ o.secret = secret /\ o.had = had /\ o.was = was
    BY <2>2, <2>3, <2>5 DEF Requests
  <2> HIDE DEF o
  <2> QED BY <2>1, <2>4, <2>6, <2>7, <2>8 DEF KnowsItsProfile
<1>2. ASSUME NEW id \in Ids, DeleteRequest(s, id)
      PROVE  \E o \in Requests : Begin(s, o) /\ KnowsItsProfile(s, o)
  <2> DEFINE o == [NoOp EXCEPT !.kind = "delete", !.id = id, !.was = mem[s].profiles[id].auth]
  <2>1. mem[s].profiles[id].auth \in Auths
    BY DEF Files, Profiles
  <2>2. /\ o \in Requests /\ o.id = id /\ o.auth = "plain" /\ o.secret = NoSecret
        /\ o.was = mem[s].profiles[id].auth
    BY <2>1 DEF Requests, NoOp
  <2>3. Begin(s, o)
    BY <1>2 DEF DeleteRequest
  <2> HIDE DEF o
  <2> QED BY <2>2, <2>3 DEF KnowsItsProfile, Kinds
<1> QED BY <1>1, <1>2 DEF Ask

\* A request begins; a second one for the same profile excuses it.
LEMMA AskFits ==
    ASSUME TypeOK, KeyInv, NEW s \in Stores, Ask(s)
    PROVE  KeysFit'
<1>1. PICK o \in Requests : Begin(s, o) /\ KnowsItsProfile(s, o)
  BY AskKnows
<1>2. PICK id \in Ids : o.id = id
  BY DEF Requests
<1>3. /\ ~Busy(s) /\ UNCHANGED <<live, keychain, mem>> /\ op' = [op EXCEPT ![s] = o]
      /\ excused' = IF Concerns(id) # {} THEN excused \cup {id} ELSE excused
      /\ pc' = [pc EXCEPT ![s] = IF o.secret # NoSecret THEN "store" ELSE "lock"]
  BY <1>1, <1>2 DEF Begin, Goto, disk, Busy
<1>4. /\ op'[s] = o /\ pc'[s] = IF o.secret # NoSecret THEN "store" ELSE "lock"
      /\ \A t \in Stores \ {s} : pc'[t] = pc[t] /\ op'[t] = op[t] /\ mem'[t] = mem[t]
      /\ Busy(s)' /\ excused \subseteq excused'
  BY <1>3 DEF TypeOK, Busy
<1>5. \A t \in Stores \ {s} : Busy(t) /\ op[t].id = id => id \in excused'
  BY <1>3 DEF Concerns
<1>6. RequestFits(s)'
  BY <1>1, <1>3, <1>4 DEF RequestFits, KnowsItsProfile
<1>7. KeychainFits(s)'
  <2> SUFFICES ASSUME id \notin excused'
               PROVE  /\ o.secret # NoSecret => Untouched(o)'
                      /\ o.secret = NoSecret => SecretStored(o)'
    BY <1>2, <1>4 DEF KeychainFits
  <2>1. Concerns(id) = {} /\ id \notin excused
    BY <1>3
  <2>2. \A k \in Kinds : keychain[<<id, k>>] = Wanted(id, k)
    BY <2>1 DEF KeyInv, SecretsInStep, Wanted
  <2>3. \A k : Wanted(id, k)' = Wanted(id, k)
    BY <1>3 DEF Wanted
  <2>4. o.secret # NoSecret => Untouched(o)'
    BY <1>1, <1>2, <1>3, <2>2, <2>3 DEF Untouched, KnowsItsProfile
  <2>5. o.secret = NoSecret => SecretStored(o)'
    BY <1>2, <1>3, <2>2, <2>3 DEF SecretStored
  <2> QED BY <2>4, <2>5
<1>8. op'[s].id = id
  BY <1>2, <1>4
<1>9. /\ OneRequestEach'
      /\ \A t \in Stores : RequestFits(t)' /\ KeychainFits(t)'
      /\ SecretsInStep'
  BY <1>3, <1>4, <1>5, <1>6, <1>7, <1>8, OwnStep
<1> QED BY <1>9 DEF KeysFit

\* A deleted profile leaves nothing in the file, a saved one has a revision.
LEMMA DeletedStep ==
    ASSUME IInv, NothingOfTheDeleted, [Next]_vars
    PROVE  NothingOfTheDeleted'
<1>0. TypeOK /\ WritesWhatItRead /\ live \in recoverable
  BY DEF IInv, IdsHandedOut
<1>1. CASE live' = live /\ recoverable' \in {recoverable, {live}}
  BY <1>0, <1>1 DEF NothingOfTheDeleted
<1>2. ASSUME NEW s \in Stores, Rename(s) PROVE NothingOfTheDeleted'
  <2>1. /\ recoverable' = recoverable \cup {live'} /\ live' = op[s].file
        /\ \A id \in Ids \ {op[s].id} : live'.profiles[id] = live.profiles[id]
    BY <1>0, <1>2, RenameFacts
  <2>2. /\ op[s].file = Changed(live, op[s]) /\ op[s].kind \in {"save", "delete"}
        /\ op[s] \in Requests /\ live \in Files /\ op[s].id \in Ids
    BY <1>0, <1>2 DEF WritesWhatItRead, Rename, Busy, TypeOK, Requests
  <2>3. ~Has(live', op[s].id) => live'.profiles[op[s].id] = NoProfile
    <3>1. live.profiles[op[s].id].rev \in Nat
      BY <2>2, FileNumbers
    <3> QED BY <2>1, <2>2, <3>1, ChangedProfile DEF Has
  <2>4. \A id \in Ids : ~Has(live', id) => live'.profiles[id] = NoProfile
    BY <1>0, <2>1, <2>3 DEF NothingOfTheDeleted, Has
  <2> QED BY <2>1, <2>4 DEF NothingOfTheDeleted
<1>3. CASE PowerLoss
  BY <1>3 DEF PowerLoss, NothingOfTheDeleted
<1> QED BY <1>0, <1>1, <1>2, <1>3, FileSteps

\* At first there are no profiles and no secrets.
LEMMA InitKeys == Init => KeyInv
<1> SUFFICES ASSUME Init PROVE KeyInv
  OBVIOUS
<1>1. \A s \in Stores : ~Busy(s) /\ pc[s] = "idle"
  BY DEF Init, Busy
<1>2. \A id \in Ids : Empty.profiles[id] = NoProfile
  BY DEF Empty
<1>3. SecretsInStep
  BY <1>2 DEF Init, SecretsInStep, NoProfile
<1> QED BY <1>1, <1>2, <1>3 DEF Init, KeyInv, OneRequestEach, RequestFits, KeychainFits,
           NothingOfTheDeleted

\* Every step keeps the Keychain in step with the requests.
LEMMA KeyStep == IInv /\ KeyInv /\ [Next]_vars => KeyInv'
<1> SUFFICES ASSUME IInv, KeyInv, [Next]_vars PROVE KeyInv'
  OBVIOUS
<1>1. TypeOK /\ IdsHandedOut /\ NothingOfTheDeleted
  BY DEF IInv, KeyInv
<1>2. KeysFit'
  <2>1. ASSUME NEW s \in Stores, Ask(s) PROVE KeysFit'
    BY <1>1, <2>1, AskFits
  <2>2. ASSUME NEW s \in Stores, Transact(s) \/ OpenTransactionFails(s) PROVE KeysFit'
    BY <1>1, <2>2, TransactFits
  <2>3. ASSUME NEW s \in Stores, StoreSecret(s) \/ StoreSecretFails(s) PROVE KeysFit'
    BY <1>1, <2>3, StoreSecretFits
  <2>4. ASSUME NEW s \in Stores, Stage(s) \/ NotCommitted(s) PROVE KeysFit'
    BY <1>1, <2>4, StageFits
  <2>5. ASSUME NEW s \in Stores, Rename(s) PROVE KeysFit'
    BY <2>5, RenameFits
  <2>6. ASSUME NEW s \in Stores, SyncParent(s) \/ SyncParentFails(s) PROVE KeysFit'
    BY <1>1, <2>6, SyncFits
  <2>7. ASSUME NEW s \in Stores, CleanOrphan(s) \/ UndoSecret(s) \/ KeychainFails(s) PROVE KeysFit'
    BY <1>1, <2>7, AfterwardsFits
  <2>8. ASSUME NEW s \in Stores, Quit(s) \/ Launch(s) PROVE KeysFit'
    BY <1>1, <2>8, ComeAndGoFits
  <2>9. ASSUME NEW s \in Stores, Crash(s) PROVE KeysFit'
    BY <1>1, <2>9, CrashFits
  <2>10. CASE PowerLoss
    BY <1>1, <2>10, PowerLossFits
  <2>11. CASE UNCHANGED vars
    BY <2>11 DEF vars, disk, KeyInv, KeysFit, OneRequestEach, RequestFits, KeychainFits, Busy,
       SecretsInStep, Concerns, Untouched, SecretStored, OrphanLeft, HasOrphan, Wanted
  <2> QED BY <2>1, <2>2, <2>3, <2>4, <2>5, <2>6, <2>7, <2>8, <2>9, <2>10, <2>11
          DEF Next, Transact, Proceed
<1>3. NothingOfTheDeleted'
  BY <1>1, DeletedStep
<1> QED BY <1>2, <1>3 DEF KeysFit, KeyInv

\* Between requests the Keychain holds, for every profile the code makes a promise
\* about, the secret that was last saved with it and no other: after every error
\* of the lock, the write and the Keychain, and however the requests of the
\* instances interleave.
THEOREM SecretsAlwaysInStep == Spec => []SecretsInStep
<1>1. KeyInv => SecretsInStep
  BY DEF KeyInv
<1> QED BY <1>1, InitKeys, KeyStep, StoreInvariance, PTL DEF Spec
=============================================================================
