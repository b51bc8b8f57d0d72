---------------------------- MODULE ProfileStore ----------------------------
(***************************************************************************)
(* The saved connections: profiles.json and the secrets in the Keychain    *)
(* that its entries refer to, changed by several instances of the          *)
(* application at once. An instance works on the snapshot it loaded. A     *)
(* save first puts the secret into the Keychain, outside of any lock, then *)
(* takes the advisory lock, reloads the file, applies the change to what   *)
(* it read, and replaces the file: a temporary file is written and synced, *)
(* renamed over the destination, and the directory is synced. A save that  *)
(* did not get as far as the rename puts the old secret back; one that did *)
(* removes the secret the profile no longer uses.                          *)
(*                                                                         *)
(* File operations and Keychain calls may fail, an instance may crash and  *)
(* the machine may lose power at every step. A rename that was not synced  *)
(* may then turn out never to have happened.                               *)
(***************************************************************************)
EXTENDS Naturals, FiniteSets

CONSTANTS
    Stores,         \* instances of the application, one ProfileStore each
    NoStore,        \* nobody holds the lock
    MaxId,          \* bound: profile ids handed out
    MaxRevision,    \* largest revision number (u64)
    MaxOps,         \* bound: saves and deletions asked for
    MaxFaults       \* bound: failing operations, crashes and power losses

ASSUME StoreAssumption ==
    /\ NoStore \notin Stores
    /\ MaxId \in Nat \ {0} /\ MaxRevision \in Nat \ {0}
    /\ MaxOps \in Nat /\ MaxFaults \in Nat

VARIABLES
    live,           \* profiles.json as everybody reads it
    recoverable,    \* what it may hold after a power loss
    keychain,       \* the items macsftp:<id>:<kind>
    lock,           \* holder of profiles.json.lock
    temp,           \* instances whose temporary file is there
    pc, op, mem,    \* per instance: its step, its request, its snapshot
    excused,        \* history: ids whose secret the code makes no promise about
    ops, faults     \* requests and faults so far

disk   == <<live, recoverable, temp>>
bounds == <<ops, faults>>
vars   == <<disk, keychain, lock, pc, op, mem, excused, bounds>>

-----------------------------------------------------------------------------
\* The contents of profiles.json.

Ids    == 1 .. MaxId
Direct == 0
Proxy  == MaxId + 1                  \* ConnectionRoute::ProxyCommand
Routes == Ids \cup {Direct, Proxy}   \* an id: ConnectionRoute::JumpHost

\* AuthMethod by the secret it refers to: a password, a remembered passphrase
\* of a private key, or none (agent, keyboard-interactive, other private keys).
Kinds == {"password", "passphrase"}
Auths == Kinds \cup {"plain"}

\* A secret is named for the request it was typed for.
NoSecret == 0
Secrets  == 0 .. MaxOps

\* A profile. "meant" is not in the file: it is the secret its user last saved.
Profiles  == [rev : 0 .. MaxRevision, auth : Auths, route : Routes,
              meant : Secrets]
NoProfile == [rev |-> 0, auth |-> "plain", route |-> Direct, meant |-> NoSecret]

\* ProfilesFile. "next" is one past the highest id ever handed out.
Files == [profiles : [Ids -> Profiles], next : Ids \cup {MaxId + 1}]
Empty == [profiles |-> [id \in Ids |-> NoProfile], next |-> 1]

Has(f, id) == f.profiles[id].rev > 0

\* ProfilesFile::validate. A profile is reached through another one only if
\* that one is there and is reached directly.
ValidRoute(f, id, r) ==
    r \in Ids => r # id /\ Has(f, r) /\ f.profiles[r].route = Direct
Validates(f) ==
    \A id \in Ids : Has(f, id) => ValidRoute(f, id, f.profiles[id].route)

\* ProfilesFile::save_profile. The revision grows by one, whoever saves.
SaveProfile(f, o) ==
    [f EXCEPT !.profiles[o.id] =
        [rev |-> @.rev + 1, auth |-> o.auth, route |-> o.route,
         meant |-> IF o.secret # NoSecret THEN o.secret ELSE
                   IF o.auth = "plain" THEN NoSecret ELSE @.meant]]

-----------------------------------------------------------------------------
Steps == {"down", "idle", "store", "lock", "stage", "rename", "sync", "clean", "undo"}

\* A request: the profile, its new authentication and route, the secret typed
\* and the one it replaces, the authentication of the profile in the snapshot,
\* and the file to be written.
Requests == [kind : {"none", "save", "delete"}, id : Ids, auth : Auths, route : Routes,
             secret : Secrets, had : Secrets,
             was : Auths, file : Files]
NoOp == [kind |-> "none", id |-> 1, auth |-> "plain", route |-> Direct,
         secret |-> NoSecret, had |-> NoSecret, was |-> "plain", file |-> Empty]

TypeOK ==
    /\ live \in Files
    /\ \A f \in recoverable : f \in Files
    /\ keychain \in [Ids \X Kinds -> Secrets]
    /\ lock \in Stores \cup {NoStore}
    /\ temp \subseteq Stores
    /\ pc \in [Stores -> Steps]
    /\ op \in [Stores -> Requests]
    /\ mem \in [Stores -> Files]
    /\ excused \subseteq Ids
    /\ ops \in 0 .. MaxOps /\ faults \in 0 .. MaxFaults

Init ==
    /\ live = Empty /\ recoverable = {Empty}
    /\ keychain = [item \in Ids \X Kinds |-> NoSecret]
    /\ lock = NoStore
    /\ temp = {}
    /\ pc = [s \in Stores |-> "idle"]
    /\ op = [s \in Stores |-> NoOp]
    /\ mem = [s \in Stores |-> Empty]
    /\ excused = {}
    /\ ops = 0 /\ faults = 0

Busy(s) == pc[s] \notin {"idle", "down"}
Concerns(id) == {s \in Stores : Busy(s) /\ op[s].id = id}
Goto(s, step) == pc' = [pc EXCEPT ![s] = step]
Fault == faults < MaxFaults /\ faults' = faults + 1 /\ UNCHANGED ops

\* The request is over and nothing is left of it.
Return(s) == Goto(s, "idle") /\ op' = [op EXCEPT ![s] = NoOp]

\* A request that did not commit: a secret it stored is put back first.
GiveUp(s) ==
    IF op[s].secret # NoSecret THEN Goto(s, "undo") /\ UNCHANGED op ELSE Return(s)

\* A request that did: the secret the profile referred to in the snapshot is
\* removed unless it still does (secret_refs_for_auth).
HasOrphan(o) == o.was # "plain" /\ o.was # o.auth

-----------------------------------------------------------------------------
\* A user asks for a change.

\* resolve_auth: an empty password keeps the saved one and is refused if there
\* is none; a passphrase left alone stays what it was.
Resolves(previous, auth, secret) ==
    CASE auth = "password"   -> secret # NoSecret \/ previous.auth = "password"
      [] auth = "passphrase" -> secret # NoSecret \/ previous.auth = "passphrase"
      [] auth = "plain"      -> secret = NoSecret

Begin(s, o) ==
    /\ pc[s] = "idle" /\ ops < MaxOps
    /\ op' = [op EXCEPT ![s] = o]
    /\ Goto(s, IF o.secret # NoSecret THEN "store" ELSE "lock")
    /\ ops' = ops + 1
    /\ excused' = IF Concerns(o.id) # {} THEN excused \cup {o.id} ELSE excused
    /\ UNCHANGED <<disk, keychain, lock, mem, faults>>

\* save_request, up to reading the Keychain. The checks see the snapshot only.
SaveRequest(s, id, auth, typed, route) ==
    LET secret == IF typed THEN ops + 1 ELSE NoSecret IN
    /\ id <= mem[s].next
    /\ ValidRoute(mem[s], id, route)
    /\ Resolves(mem[s].profiles[id], auth, secret)
    /\ Begin(s, [NoOp EXCEPT !.kind = "save", !.id = id, !.auth = auth, !.route = route,
                             !.secret = secret,
                             !.had = IF secret # NoSecret THEN keychain[<<id, auth>>] ELSE NoSecret,
                             !.was = mem[s].profiles[id].auth])

\* delete_profile_and_credentials, up to the transaction.
DeleteRequest(s, id) ==
    /\ Has(mem[s], id)
    /\ Begin(s, [NoOp EXCEPT !.kind = "delete", !.id = id, !.was = mem[s].profiles[id].auth])

\* The new secret goes into the Keychain before the file is touched.
StoreSecret(s) ==
    /\ pc[s] = "store"
    /\ keychain' = [keychain EXCEPT ![<<op[s].id, op[s].auth>>] = op[s].secret]
    /\ Goto(s, "lock")
    /\ UNCHANGED <<disk, lock, op, mem, excused, bounds>>

StoreSecretFails(s) ==
    /\ pc[s] = "store" /\ Fault
    /\ Return(s)
    /\ UNCHANGED <<disk, keychain, lock, mem, excused>>

-----------------------------------------------------------------------------
\* commit_transaction: one change of the file under the lock.

\* The snapshot takes the id for new and the file does not, or the id was handed
\* out before (ConcurrentModification).
Conflicts(seen, f, id) ==
    \/ ~Has(seen, id) /\ Has(f, id)
    \/ ~Has(f, id) /\ id < f.next

\* The file with the change, were it allowed.
Changed(f, o) ==
    IF o.kind = "delete" THEN [f EXCEPT !.profiles[o.id] = NoProfile]
    ELSE SaveProfile(IF Has(f, o.id) THEN f ELSE [f EXCEPT !.next = o.id + 1], o)

\* Mutant: a profile may be deleted, or changed, while others are reached
\* through it.
MayChangeMut(seen, f, o) ==
    o.kind = "save" => ~Conflicts(seen, f, o.id) /\ f.profiles[o.id].rev < MaxRevision

\* The errors before the file is written: a conflict, RevisionOverflow,
\* ProfileInUse, and a file that would not load again (serialize).
MayChange(seen, f, o) ==
    /\ o.kind = "save" => ~Conflicts(seen, f, o.id) /\ f.profiles[o.id].rev < MaxRevision
    /\ o.kind = "delete" => \A p \in Ids : f.profiles[p].route # o.id
    /\ Validates(Changed(f, o))

\* Mutant: the change is applied to the snapshot instead of the reloaded file.
ReloadedMut(s) == mem[s]

\* ProfilesFile::load, under the lock.
Reloaded(s) == live

\* The lock is taken, the file reloaded, temporary files of dead instances are
\* removed (cleanup_stale_temp_files) and the change is made in memory.
OpenTransaction(s) ==
    LET f == Reloaded(s) o == op[s] IN
    /\ pc[s] = "lock" /\ lock = NoStore
    /\ Has(f, o.id) \/ o.kind = "save"
    /\ MayChange(mem[s], f, o)
    /\ lock' = s
    /\ op' = [op EXCEPT ![s].file = Changed(f, o)]
    /\ temp' = {}
    /\ Goto(s, "stage")
    /\ UNCHANGED <<live, recoverable, keychain, mem, excused, bounds>>

\* An error return of commit_transaction before the file is written; dropping
\* the guard releases the lock.
RefuseChange(s) ==
    LET f == Reloaded(s) o == op[s] IN
    /\ pc[s] = "lock" /\ lock = NoStore
    /\ Has(f, o.id) \/ o.kind = "save"
    /\ ~MayChange(mem[s], f, o)
    /\ temp' = {}
    /\ GiveUp(s)
    /\ UNCHANGED <<live, recoverable, keychain, lock, mem, excused, bounds>>

\* TransactionOutcome::Unchanged: the profile was deleted by another instance;
\* its secret, by the snapshot, is deleted all the same.
NothingToDelete(s) ==
    /\ pc[s] = "lock" /\ lock = NoStore
    /\ op[s].kind = "delete" /\ ~Has(Reloaded(s), op[s].id)
    /\ temp' = {}
    /\ IF HasOrphan(op[s]) THEN Goto(s, "clean") /\ UNCHANGED op ELSE Return(s)
    /\ UNCHANGED <<live, recoverable, keychain, lock, mem, excused, bounds>>

\* The lock file cannot be opened, or the file cannot be read.
OpenTransactionFails(s) ==
    /\ pc[s] = "lock" /\ Fault
    /\ GiveUp(s)
    /\ UNCHANGED <<disk, keychain, lock, mem, excused>>

\* write_phased_with_parent_sync: create, write and sync the temporary file.
Stage(s) ==
    /\ pc[s] = "stage"
    /\ temp' = temp \cup {s}
    /\ Goto(s, "rename")
    /\ UNCHANGED <<live, recoverable, keychain, lock, op, mem, excused, bounds>>

\* Staging or the rename fails: AtomicWriteError::NotCommitted. The temporary
\* file is discarded if that works.
NotCommitted(s) ==
    /\ pc[s] \in {"stage", "rename"} /\ Fault
    /\ temp' \in {temp, temp \ {s}}
    /\ lock' = NoStore
    /\ GiveUp(s)
    /\ UNCHANGED <<live, recoverable, keychain, mem, excused>>

Rename(s) ==
    /\ pc[s] = "rename" /\ s \in temp
    /\ live' = op[s].file
    /\ recoverable' = recoverable \cup {op[s].file}
    /\ temp' = temp \ {s}
    /\ Goto(s, "sync")
    /\ excused' = IF mem[s].profiles[op[s].id] # live.profiles[op[s].id]
                  THEN excused \cup {op[s].id} ELSE excused
    /\ UNCHANGED <<keychain, lock, op, mem, bounds>>

\* The change is committed: the snapshot follows and the lock is released.
Committed(s) ==
    /\ mem' = [mem EXCEPT ![s] = op[s].file]
    /\ lock' = NoStore
    /\ IF HasOrphan(op[s]) THEN Goto(s, "clean") /\ UNCHANGED op ELSE Return(s)
    /\ UNCHANGED <<live, temp, keychain, excused>>

SyncParent(s) ==
    /\ pc[s] = "sync"
    /\ recoverable' = {live}
    /\ Committed(s)
    /\ UNCHANGED bounds

\* Mutant: a failed sync of the directory counts as a failed write.
SyncParentFailsMut(s) ==
    /\ pc[s] = "sync" /\ Fault
    /\ lock' = NoStore
    /\ GiveUp(s)
    /\ UNCHANGED <<disk, keychain, mem, excused>>

\* AtomicWriteError::ReplacedButNotDurable counts as committed; only a warning
\* tells (commit_save_with_sync).
SyncParentFails(s) ==
    /\ pc[s] = "sync" /\ Fault
    /\ Committed(s)
    /\ UNCHANGED recoverable

-----------------------------------------------------------------------------
\* The Keychain after the transaction.

\* keychain.delete of the secret the profile no longer refers to.
CleanOrphan(s) ==
    /\ pc[s] = "clean"
    /\ keychain' = [keychain EXCEPT ![<<op[s].id, op[s].was>>] = NoSecret]
    /\ Return(s)
    /\ UNCHANGED <<disk, lock, mem, excused, bounds>>

\* The compensating rollback of save_request.
UndoSecret(s) ==
    /\ pc[s] = "undo"
    /\ keychain' = [keychain EXCEPT ![<<op[s].id, op[s].auth>>] = op[s].had]
    /\ Return(s)
    /\ UNCHANGED <<disk, lock, mem, excused, bounds>>

\* Either fails: a cleanup warning, or ProfileMutationError::StorageRollback.
KeychainFails(s) ==
    /\ pc[s] \in {"clean", "undo"} /\ Fault
    /\ excused' = excused \cup {op[s].id}
    /\ Return(s)
    /\ UNCHANGED <<disk, keychain, lock, mem>>

-----------------------------------------------------------------------------
\* Instances come and go.

\* The instance is closed while it does nothing.
Quit(s) ==
    /\ pc[s] = "idle"
    /\ Goto(s, "down")
    /\ mem' = [mem EXCEPT ![s] = Empty]
    /\ UNCHANGED <<disk, keychain, lock, op, excused, bounds>>

\* The instance dies; the system releases its lock.
Crash(s) ==
    /\ Busy(s) /\ Fault
    /\ Goto(s, "down")
    /\ op' = [op EXCEPT ![s] = NoOp]
    /\ mem' = [mem EXCEPT ![s] = Empty]
    /\ lock' = IF lock = s THEN NoStore ELSE lock
    /\ excused' = excused \cup {op[s].id}
    /\ UNCHANGED <<disk, keychain>>

\* Everything dies, and the last renames that were not synced may be undone. The
\* contents are whole: they were synced before the rename.
PowerLoss ==
    /\ Fault
    /\ \E f \in recoverable :
         /\ live' = f /\ recoverable' = {f}
         /\ excused' = excused \cup {op[s].id : s \in {t \in Stores : Busy(t)}}
                               \cup {id \in Ids : f.profiles[id] # live.profiles[id]}
    /\ pc' = [s \in Stores |-> "down"]
    /\ op' = [s \in Stores |-> NoOp]
    /\ mem' = [s \in Stores |-> Empty]
    /\ lock' = NoStore
    /\ UNCHANGED <<temp, keychain>>

\* ProfileStore::open_or_empty
Launch(s) ==
    /\ pc[s] = "down"
    /\ Goto(s, "idle")
    /\ mem' = [mem EXCEPT ![s] = live]
    /\ UNCHANGED <<disk, keychain, lock, op, excused, bounds>>

-----------------------------------------------------------------------------
Ask(s) ==
    \/ \E id \in Ids, auth \in Auths, typed \in BOOLEAN, route \in Routes :
            SaveRequest(s, id, auth, typed, route)
    \/ \E id \in Ids : DeleteRequest(s, id)

Transact(s) == OpenTransaction(s) \/ RefuseChange(s) \/ NothingToDelete(s)
Proceed(s) ==
    \/ StoreSecret(s) \/ StoreSecretFails(s)
    \/ Stage(s) \/ Rename(s) \/ NotCommitted(s)
    \/ SyncParent(s) \/ SyncParentFails(s)
    \/ CleanOrphan(s) \/ UndoSecret(s) \/ KeychainFails(s)

Next ==
    \/ \E s \in Stores :
        Ask(s) \/ Transact(s) \/ OpenTransactionFails(s) \/ Proceed(s)
            \/ Quit(s) \/ Crash(s) \/ Launch(s)
    \/ PowerLoss

Spec == Init /\ [][Next]_vars

-----------------------------------------------------------------------------
(* Properties. *)

\* Whatever fails, and also after a power loss, profiles.json can be loaded:
\* every profile reached through another one finds it there and
\* reached directly, although the save checked that on its own snapshot
\* (ensure_writable would refuse all further writes otherwise).
FileLoads == Validates(live) /\ \A f \in recoverable : Validates(f)

\* Two instances, or an instance and the file, that show the same revision of a
\* profile show the same profile. The connection pool relies on it: the revision
\* stands for the secret in the identity of a connection (auth_fingerprint).
VersionsToldApart ==
    \A s \in Stores : pc[s] # "down" =>
        \A f \in {live} \cup {mem[t] : t \in {u \in Stores : pc[u] # "down"}}, id \in Ids :
            Has(f, id) /\ f.profiles[id].rev = mem[s].profiles[id].rev
                => f.profiles[id] = mem[s].profiles[id]

\* The Keychain and the file agree: between requests a profile has the secret
\* that was saved with it and no other, and a profile that was deleted, or whose
\* creation failed, has none. It is not promised after a crash in the middle of a
\* request, a failing rollback, a rename undone by a power loss, two requests for
\* the profile at the same time, or a change based on an outdated snapshot of it.
SecretsInStep ==
    \A id \in Ids \ excused : Concerns(id) = {} =>
        \A k \in Kinds :
            keychain[<<id, k>>] = IF live.profiles[id].auth = k THEN live.profiles[id].meant
                              ELSE NoSecret

\* A commit changes one profile and keeps what the other instances committed, and
\* an id that is given to a new profile was never given to another one, whatever
\* snapshot the instance took it from.
CommitsKeepOthers ==
    [][live' # live /\ live' \notin recoverable =>
        /\ live'.next >= live.next
        /\ \E id \in Ids :
            /\ \A other \in Ids \ {id} : live'.profiles[other] = live.profiles[other]
            /\ Has(live', id) => live'.profiles[id].rev = live.profiles[id].rev + 1
            /\ Has(live', id) /\ ~Has(live, id) => live.next <= id /\ id < live'.next]_vars

-----------------------------------------------------------------------------
(* The inductive invariant behind FileLoads, VersionsToldApart and           *)
(* CommitsKeepOthers.                                                        *)

\* An instance is between the reload and the end of its write exactly while it
\* holds the lock.
LockHeld == \A s \in Stores : lock = s <=> pc[s] \in {"stage", "rename", "sync"}

\* What an instance is about to write is the present file with its change, and
\* can be loaded; what it has just renamed is the present file.
WritesWhatItRead ==
    \A s \in Stores :
        /\ Busy(s) => op[s].kind # "none"
        /\ pc[s] \in {"stage", "rename"} =>
            /\ op[s].file = Changed(live, op[s])
            /\ Validates(op[s].file)
            /\ op[s].kind = "save" /\ ~Has(live, op[s].id) => live.next <= op[s].id
        /\ pc[s] = "sync" => op[s].file = live

\* Every id in use was handed out, also in what a power loss may bring back.
IdsHandedOut ==
    /\ live \in recoverable
    /\ \A f \in recoverable, id \in Ids : Has(f, id) => id < f.next

\* A snapshot is of the past: its ids were handed out and its revisions are not
\* ahead of the file's.
SnapshotsAreOld ==
    \A s \in Stores, id \in Ids : Has(mem[s], id) =>
        /\ id < live.next
        /\ Has(live, id) => mem[s].profiles[id].rev <= live.profiles[id].rev

\* Equal revisions are equal profiles, in the file and in all snapshots.
SnapshotsAgree ==
    \A s \in Stores, id \in Ids : Has(mem[s], id) =>
        /\ live.profiles[id].rev = mem[s].profiles[id].rev
              => live.profiles[id] = mem[s].profiles[id]
        /\ \A t \in Stores : mem[t].profiles[id].rev = mem[s].profiles[id].rev
              => mem[t].profiles[id] = mem[s].profiles[id]

IInv ==
    /\ TypeOK
    /\ LockHeld
    /\ WritesWhatItRead
    /\ IdsHandedOut
    /\ SnapshotsAreOld
    /\ SnapshotsAgree
    /\ FileLoads

-----------------------------------------------------------------------------
(* The inductive invariant behind SecretsInStep. *)

\* The item of a profile that its entry in the file asks for.
Wanted(id, k) ==
    IF live.profiles[id].auth = k THEN live.profiles[id].meant ELSE NoSecret

\* Two requests for one profile at the same time leave it excused.
OneRequestEach ==
    \A s, t \in Stores : s # t /\ Busy(s) /\ Busy(t) /\ op[s].id = op[t].id => op[s].id \in excused

\* What a request knows: a deletion brings no secret, a kind without a secret
\* keeps the saved one, and "was" is what the snapshot says.
RequestFits(s) ==
    /\ Busy(s) /\ op[s].secret # NoSecret => op[s].auth \in Kinds
    /\ Busy(s) /\ op[s].kind = "delete" => op[s].auth = "plain"
    /\ Busy(s) /\ op[s].secret = NoSecret /\ op[s].auth \in Kinds => op[s].was = op[s].auth
    /\ pc[s] \in {"store", "undo"} => op[s].secret # NoSecret
    /\ pc[s] = "clean" => HasOrphan(op[s])
    /\ pc[s] \in {"store", "lock", "stage", "rename"} =>
            op[s].was = mem[s].profiles[op[s].id].auth

\* The Keychain in the course of a request: untouched before the new secret is
\* stored; then with the new secret, and the old one kept to be put back; after
\* the commit as the file wants it, but for the item that is to be removed.
Untouched(o) ==
    /\ \A k \in Kinds : keychain[<<o.id, k>>] = Wanted(o.id, k)
    /\ o.had = Wanted(o.id, o.auth)

SecretStored(o) ==
    /\ o.secret # NoSecret => o.had = Wanted(o.id, o.auth) /\ keychain[<<o.id, o.auth>>] = o.secret
    /\ \A k \in Kinds : (o.secret # NoSecret => k # o.auth) => keychain[<<o.id, k>>] = Wanted(o.id, k)

OrphanLeft(o) ==
    /\ HasOrphan(o) => live.profiles[o.id].auth # o.was
    /\ \A k \in Kinds : ~(HasOrphan(o) /\ k = o.was) => keychain[<<o.id, k>>] = Wanted(o.id, k)

KeychainFits(s) ==
    Busy(s) /\ op[s].id \notin excused =>
        /\ pc[s] = "store" => Untouched(op[s])
        /\ pc[s] \in {"lock", "stage", "rename", "undo"} => SecretStored(op[s])
        /\ pc[s] \in {"sync", "clean"} => OrphanLeft(op[s])

\* A profile that is not there has left nothing.
NothingOfTheDeleted ==
    \A f \in recoverable, id \in Ids : ~Has(f, id) => f.profiles[id] = NoProfile

KeyInv ==
    /\ OneRequestEach
    /\ \A s \in Stores : RequestFits(s) /\ KeychainFits(s)
    /\ NothingOfTheDeleted
    /\ SecretsInStep
=============================================================================
