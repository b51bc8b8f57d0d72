--------------------------- MODULE ConnectionPool ---------------------------
(* The pool of physical connections for one connection key (pool.rs), the      *)
(* attempts that fill it, the prompts an attempt may put to the user           *)
(* (physical_connection.rs, trust.rs, keyboard_interactive.rs) and the tabs    *)
(* that wait for, share and leave a connection (runtime.rs, session_actor.rs). *)
(*                                                                             *)
(* An attempt and the connection it establishes have the same number. The      *)
(* dispatcher of the runtime handles one command at a time; attempts, deadline *)
(* watchers, reapers and the tasks of the tabs run beside it.                  *)
EXTENDS Naturals, FiniteSets

CONSTANTS
    Tabs,         \* tabs that connect with this key
    NoTab,        \* the dispatcher is between two commands
    MaxAttempts,  \* bound: attempts ever started
    MaxEpochs,    \* bound: connect commands of each tab
    Hops,         \* SSH handshakes of one attempt: 1, or 2 through a jump host
    Panics        \* whether the task of an attempt may panic

ASSUME PoolAssumption ==
    /\ NoTab \notin Tabs
    /\ MaxAttempts \in Nat
    /\ MaxEpochs \in Nat
    /\ Hops \in {1, 2}
    /\ Panics \in BOOLEAN

Attempts == 1 .. MaxAttempts

VARIABLES
    \* The pool and its numbering.
    entry,       \* [kind, n]: no entry, Connecting n or Connected n
    last,        \* number of the newest attempt, next_attempt - 1
    \* The attempts.
    pc,          \* pc[n]: place of the task of attempt n
    outcome,     \* outcome[n]: result of the attempt, "none" until it has one
    hop,         \* hop[n]: handshake the attempt is in
    owner,       \* owner[n]: tab and epoch whose command started it
    deadline,    \* deadline[n]: never passed, passed, or passed and then extended
    watcher,     \* attempts whose deadline watcher is still there
    \* Prompts: the two registries and the channels of their entries.
    pending,     \* attempts with a prompt in a registry
    decision,    \* decision[n]: what was sent to the waiting prompt
    \* Connections.
    lost,        \* connections whose connection_lost is cancelled
    reaper,      \* reaper[n]: the task mark_connected spawns
    \* Tabs.
    dispatching, \* the tab of the connect command in progress, or NoTab
    epoch,       \* epoch[t]: number of connect commands of t
    session,     \* session[t]: state of the session task of t
    on,          \* on[t]: the attempt or connection the session is about
    heard        \* heard[t]: the session's tab got an event about its outcome

poolVars == <<entry, last>>
attemptVars == <<pc, outcome, hop, owner, deadline, watcher>>
promptVars == <<pending, decision>>
connectionVars == <<lost, reaper>>
tabVars == <<dispatching, epoch, session, on, heard>>
vars == <<poolVars, attemptVars, promptVars, connectionVars, tabVars>>

Empty == [kind |-> "none", n |-> 0]
Connecting(n) == [kind |-> "connecting", n |-> n]
Connected(n) == [kind |-> "connected", n |-> n]

\* Places at which an attempt talks to the peer or waits for the user.
Working == {"handshake", "trust", "auth", "keyboard", "setup", "settled"}
AtPrompt == {"trust", "keyboard"}

TypeOK ==
    /\ entry \in {Empty} \union [kind : {"connecting", "connected"}, n : Attempts]
    /\ last \in 0 .. MaxAttempts
    /\ pc \in [Attempts -> Working \union {"unborn", "sending", "sent", "gone"}]
    /\ outcome \in [Attempts -> {"none", "ok", "auth", "failed"}]
    /\ hop \in [Attempts -> 1 .. 2]
    /\ owner \in [Attempts -> [tab : Tabs \union {NoTab}, epoch : Nat]]
    /\ deadline \in [Attempts -> {"ahead", "passed", "extended"}]
    /\ watcher \subseteq Attempts
    /\ pending \subseteq Attempts
    /\ decision \in [Attempts -> {"none", "accept", "refuse"}]
    /\ lost \subseteq Attempts
    /\ reaper \in [Attempts -> {"off", "watching", "removing", "done"}]
    /\ dispatching \in Tabs \union {NoTab}
    /\ epoch \in [Tabs -> Nat]
    /\ session \in [Tabs -> {"none", "waiting", "late", "opening", "browsing", "ended"}]
    /\ on \in [Tabs -> 0 .. MaxAttempts]
    /\ heard \in [Tabs -> BOOLEAN]

Init ==
    /\ entry = Empty
    /\ last = 0
    /\ pc = [n \in Attempts |-> "unborn"]
    /\ outcome = [n \in Attempts |-> "none"]
    /\ hop = [n \in Attempts |-> 1]
    /\ owner = [n \in Attempts |-> [tab |-> NoTab, epoch |-> 0]]
    /\ deadline = [n \in Attempts |-> "ahead"]
    /\ watcher = {}
    /\ pending = {}
    /\ decision = [n \in Attempts |-> "none"]
    /\ lost = {}
    /\ reaper = [n \in Attempts |-> "off"]
    /\ dispatching = NoTab
    /\ epoch = [t \in Tabs |-> 0]
    /\ session = [t \in Tabs |-> "none"]
    /\ on = [t \in Tabs |-> 0]
    /\ heard = [t \in Tabs |-> FALSE]

\* The session that started attempt n is the current one of an open tab.
ScopeIsCurrent(n) ==
    LET t == owner[n].tab
    IN /\ t \in Tabs
       /\ session[t] # "none"
       /\ epoch[t] = owner[n].epoch

\* is_current_attempt: the entry is still the one attempt n installed.
IsCurrentAttempt(n) == entry = Connecting(n)

\* Mutant: the entry is removed whoever installed it.
WithoutAttemptMut(n) == IF entry.kind = "connecting" THEN Empty ELSE entry

\* An attempt, a reap or a guard removes the entry only if it is its own.
WithoutAttempt(n) == IF IsCurrentAttempt(n) THEN Empty ELSE entry

-----------------------------------------------------------------------------
(* Commands of the runtime's dispatcher. *)

\* reject_stale for a new epoch, reject_all_for_tab: the entries of tab t leave
\* the registries and their prompts are told to give up.
RejectPromptsOf(t) ==
    LET stale == {n \in pending : owner[n].tab = t}
    IN /\ pending' = pending \ stale
       /\ decision' = [n \in Attempts |->
                         IF n \in stale THEN "refuse" ELSE decision[n]]

\* ConnectTab, first part: the old session is shut down and its prompts rejected.
ConnectTab(t) ==
    /\ dispatching = NoTab
    /\ epoch[t] < MaxEpochs /\ last < MaxAttempts
    /\ dispatching' = t
    /\ epoch' = [epoch EXCEPT ![t] = @ + 1]
    /\ session' = [session EXCEPT ![t] = "none"]
    /\ on' = [on EXCEPT ![t] = 0]
    /\ heard' = [heard EXCEPT ![t] = FALSE]
    /\ RejectPromptsOf(t)
    /\ UNCHANGED <<poolVars, attemptVars, connectionVars>>

\* The session task of the connecting tab is spawned on attempt or connection n.
Spawn(t, state, n) ==
    /\ session' = [session EXCEPT ![t] = state]
    /\ on' = [on EXCEPT ![t] = n]
    /\ dispatching' = NoTab
    /\ UNCHANGED <<epoch, heard>>

InProgress == entry.kind = "connecting" /\ deadline[entry.n] # "passed"
Reusable == entry.kind = "connected" /\ entry.n \notin lost

\* get_or_connect while an attempt is in progress: resubscribe() gives a receiver
\* of what is sent from now on, so one taken after the result never gets it.
JoinAttempt(t) ==
    /\ dispatching = t
    /\ InProgress
    /\ Spawn(t, IF pc[entry.n] = "sent" THEN "late" ELSE "waiting", entry.n)
    /\ UNCHANGED <<poolVars, attemptVars, promptVars, connectionVars>>

\* get_or_connect with a live connection in the pool.
ReuseConnection(t) ==
    /\ dispatching = t
    /\ Reusable
    /\ Spawn(t, "opening", entry.n)
    /\ UNCHANGED <<poolVars, attemptVars, promptVars, connectionVars>>

\* get_or_connect otherwise: a lost connection or a stalled attempt is discarded,
\* and an attempt is started with its deadline watcher.
StartAttempt(t) ==
    LET n == last + 1
    IN /\ dispatching = t
       /\ ~InProgress /\ ~Reusable
       /\ n \in Attempts
       /\ last' = n
       /\ entry' = Connecting(n)
       /\ pc' = [pc EXCEPT ![n] = "handshake"]
       /\ owner' = [owner EXCEPT ![n] = [tab |-> t, epoch |-> epoch[t]]]
       /\ watcher' = watcher \union {n}
       /\ Spawn(t, "waiting", n)
       /\ UNCHANGED <<outcome, hop, deadline, promptVars, connectionVars>>

\* DisconnectTab, CloseTab, CloseTabs.
CloseTab(t) ==
    /\ dispatching = NoTab
    /\ session' = [session EXCEPT ![t] = "none"]
    /\ on' = [on EXCEPT ![t] = 0]
    /\ heard' = [heard EXCEPT ![t] = FALSE]
    /\ RejectPromptsOf(t)
    /\ UNCHANGED <<poolVars, attemptVars, connectionVars, dispatching, epoch>>

\* AcceptHostKey, RejectHostKey, RespondKeyboardInteractive and
\* CancelKeyboardInteractive. The user interface drops the prompt of a session
\* that is not current, so nobody answers it.
AnswerPrompt(n, d) ==
    /\ dispatching = NoTab
    /\ n \in pending
    /\ ScopeIsCurrent(n)
    /\ pending' = pending \ {n}
    /\ decision' = [decision EXCEPT ![n] = d]
    /\ UNCHANGED <<poolVars, attemptVars, connectionVars, tabVars>>

-----------------------------------------------------------------------------
(* The task of attempt n. *)

\* The attempt fails and has its result ready to send.
Fail(n, o) ==
    /\ pc' = [pc EXCEPT ![n] = "sending"]
    /\ outcome' = [outcome EXCEPT ![n] = o]

\* emit_auth_failure: the event goes to the scope that started the attempt.
TellOwner(n) ==
    heard' = [t \in Tabs |-> heard[t] \/ (ScopeIsCurrent(n) /\ t = owner[n].tab)]

\* A prompt is registered and shown, and the deadline extended.
Ask(n, place) ==
    /\ pc' = [pc EXCEPT ![n] = place]
    /\ pending' = pending \union {n}
    /\ deadline' \in {deadline, [deadline EXCEPT ![n] =
                                   IF @ = "passed" THEN "extended" ELSE @]}
    /\ UNCHANGED <<poolVars, outcome, hop, owner, watcher, decision,
                   connectionVars, tabVars>>

\* check_server_key finds the key in known_hosts.
KeyMatches(n) ==
    /\ pc[n] = "handshake"
    /\ pc' = [pc EXCEPT ![n] = "auth"]
    /\ UNCHANGED <<poolVars, outcome, hop, owner, deadline, watcher,
                   promptVars, connectionVars, tabVars>>

\* check_server_key does not know the key.
AskTrust(n) ==
    /\ pc[n] = "handshake"
    /\ Ask(n, "trust")

\* The transport or the handshake fails or times out, or the key is another one.
HandshakeFails(n) ==
    /\ pc[n] = "handshake"
    /\ Fail(n, "failed")
    /\ UNCHANGED <<poolVars, hop, owner, deadline, watcher, promptVars,
                   connectionVars, tabVars>>

\* The user's decision about the key reaches check_server_key.
TrustDecided(n) ==
    /\ pc[n] = "trust"
    /\ \/ /\ decision[n] = "accept"
          /\ pc' = [pc EXCEPT ![n] = "auth"]
          /\ UNCHANGED outcome
       \/ /\ decision[n] = "refuse"
          /\ Fail(n, "failed")
    /\ decision' = [decision EXCEPT ![n] = "none"]
    /\ UNCHANGED <<poolVars, hop, owner, deadline, watcher, pending,
                   connectionVars, tabVars>>

\* Mutant: the prompt has no bound of its own.
TrustTimesOutMut(n) == FALSE

\* Mutant: the entry stays in the registry.
TrustForgottenMut(n) ==
    /\ pc[n] = "trust"
    /\ decision[n] = "none"
    /\ Fail(n, "failed")
    /\ UNCHANGED <<poolVars, hop, owner, deadline, watcher, promptVars,
                   connectionVars, tabVars>>

\* trust_prompt_timeout: the entry is taken out of the registry.
TrustTimesOut(n) ==
    /\ pc[n] = "trust"
    /\ decision[n] = "none"
    /\ pending' = pending \ {n}
    /\ Fail(n, "failed")
    /\ UNCHANGED <<poolVars, hop, owner, deadline, watcher, decision,
                   connectionVars, tabVars>>

\* The server accepts the credentials: the next hop, or the SFTP set-up.
AuthSucceeds(n) ==
    /\ pc[n] = "auth"
    /\ \/ /\ hop[n] < Hops
          /\ hop' = [hop EXCEPT ![n] = @ + 1]
          /\ pc' = [pc EXCEPT ![n] = "handshake"]
       \/ /\ hop[n] = Hops
          /\ pc' = [pc EXCEPT ![n] = "setup"]
          /\ UNCHANGED hop
    /\ UNCHANGED <<poolVars, outcome, owner, deadline, watcher, promptVars,
                   connectionVars, tabVars>>

\* The credentials are rejected or cannot be used.
AuthRejected(n) ==
    /\ pc[n] = "auth"
    /\ Fail(n, "auth")
    /\ TellOwner(n)
    /\ UNCHANGED <<poolVars, hop, owner, deadline, watcher, promptVars,
                   connectionVars, dispatching, epoch, session, on>>

\* Transport failure or timeout of an authentication phase.
AuthBreaks(n) ==
    /\ pc[n] = "auth"
    /\ Fail(n, "failed")
    /\ UNCHANGED <<poolVars, hop, owner, deadline, watcher, promptVars,
                   connectionVars, tabVars>>

\* One more round of keyboard-interactive prompts.
AskKeyboard(n) ==
    /\ pc[n] = "auth"
    /\ Ask(n, "keyboard")

\* The answers, or their refusal, reach authenticate_keyboard_interactive. (Answers
\* of the wrong number are rejected at once: AuthRejected.)
KeyboardDecided(n) ==
    /\ pc[n] = "keyboard"
    /\ \/ /\ decision[n] = "accept"
          /\ pc' = [pc EXCEPT ![n] = "auth"]
          /\ UNCHANGED <<outcome, heard>>
       \/ /\ decision[n] = "refuse"
          /\ Fail(n, "auth")
          /\ TellOwner(n)
    /\ decision' = [decision EXCEPT ![n] = "none"]
    /\ UNCHANGED <<poolVars, hop, owner, deadline, watcher, pending,
                   connectionVars, dispatching, epoch, session, on>>

\* The answers do not come within 120 seconds.
KeyboardTimesOut(n) ==
    /\ pc[n] = "keyboard"
    /\ decision[n] = "none"
    /\ pending' = pending \ {n}
    /\ Fail(n, "auth")
    /\ TellOwner(n)
    /\ UNCHANGED <<poolVars, hop, owner, deadline, watcher, decision,
                   connectionVars, dispatching, epoch, session, on>>

\* Channel, subsystem, SFTP and the remote home, each within its bound.
SetupSucceeds(n) ==
    /\ pc[n] = "setup"
    /\ pc' = [pc EXCEPT ![n] = "settled"]
    /\ outcome' = [outcome EXCEPT ![n] = "ok"]
    /\ UNCHANGED <<poolVars, hop, owner, deadline, watcher, promptVars,
                   connectionVars, tabVars>>

SetupFails(n) ==
    /\ pc[n] = "setup"
    /\ Fail(n, "failed")
    /\ UNCHANGED <<poolVars, hop, owner, deadline, watcher, promptVars,
                   connectionVars, tabVars>>

\* mark_connected: the connection is pooled, with its reaper, unless the entry is
\* no longer this attempt's.
MarkConnected(n) ==
    /\ pc[n] = "settled"
    /\ pc' = [pc EXCEPT ![n] = "sending"]
    /\ \/ /\ IsCurrentAttempt(n)
          /\ entry' = Connected(n)
          /\ reaper' = [reaper EXCEPT ![n] = "watching"]
       \/ /\ ~IsCurrentAttempt(n)
          /\ UNCHANGED <<entry, reaper>>
    /\ UNCHANGED <<last, outcome, hop, owner, deadline, watcher, promptVars,
                   lost, tabVars>>

\* tx.send(result): the receivers there are can read it.
SendResult(n) ==
    /\ pc[n] = "sending"
    /\ pc' = [pc EXCEPT ![n] = "sent"]
    /\ UNCHANGED <<poolVars, outcome, hop, owner, deadline, watcher, promptVars,
                   connectionVars, tabVars>>

\* Mutant: the task has no guard.
EndAttemptMut(n) ==
    /\ pc[n] = "sent"
    /\ pc' = [pc EXCEPT ![n] = "gone"]
    /\ UNCHANGED <<poolVars, outcome, hop, owner, deadline, watcher, promptVars,
                   connectionVars, tabVars>>

\* The task ends: its guard abandons the attempt, its sender is dropped. (A guard
\* that mark_connected disarmed would find the entry no longer Connecting, and the
\* watcher of an ended attempt finds nothing to reap: it is not kept.)
EndAttempt(n) ==
    /\ pc[n] = "sent"
    /\ pc' = [pc EXCEPT ![n] = "gone"]
    /\ entry' = WithoutAttempt(n)
    /\ watcher' = watcher \ {n}
    /\ deadline' = [deadline EXCEPT ![n] = "ahead"]
    /\ UNCHANGED <<last, outcome, hop, owner, promptVars, connectionVars, tabVars>>

\* The task panics: the guard abandons the attempt, nothing is sent. At a prompt
\* it only waits.
AttemptPanics(n) ==
    /\ Panics
    /\ pc[n] \in Working \ (AtPrompt \union {"settled"})
    /\ pc' = [pc EXCEPT ![n] = "gone"]
    /\ entry' = WithoutAttempt(n)
    /\ watcher' = watcher \ {n}
    /\ deadline' = [deadline EXCEPT ![n] = "ahead"]
    /\ UNCHANGED <<last, outcome, hop, owner, promptVars, connectionVars, tabVars>>

AttemptStep(n) ==
    \/ KeyMatches(n) \/ AskTrust(n) \/ HandshakeFails(n)
    \/ TrustDecided(n) \/ TrustTimesOut(n)
    \/ AuthSucceeds(n) \/ AuthRejected(n) \/ AuthBreaks(n)
    \/ AskKeyboard(n) \/ KeyboardDecided(n) \/ KeyboardTimesOut(n)
    \/ SetupSucceeds(n) \/ SetupFails(n)
    \/ MarkConnected(n) \/ SendResult(n) \/ EndAttempt(n)

-----------------------------------------------------------------------------
(* Deadlines, connections and their reapers. *)

\* The budget counts a fixed number of phases, the keyboard loop serves as many
\* rounds as the server asks for: the deadline may pass while the attempt lives.
DeadlinePasses(n) ==
    /\ pc[n] \notin {"unborn", "gone"}
    /\ deadline[n] # "passed"
    /\ deadline' = [deadline EXCEPT ![n] = "passed"]
    /\ UNCHANGED <<poolVars, pc, outcome, hop, owner, watcher, promptVars,
                   connectionVars, tabVars>>

\* The watcher of the deadline: reap_stale_attempt.
ReapStaleAttempt(n) ==
    /\ n \in watcher
    /\ deadline[n] = "passed"
    /\ watcher' = watcher \ {n}
    /\ entry' = WithoutAttempt(n)
    /\ UNCHANGED <<last, pc, outcome, hop, owner, deadline, promptVars,
                   connectionVars, tabVars>>

\* The peer or the network ends the connection.
LoseConnection(n) ==
    /\ outcome[n] = "ok"
    /\ pc[n] # "gone" \/ entry = Connected(n) \/ \E t \in Tabs : on[t] = n
    /\ n \notin lost
    /\ lost' = lost \union {n}
    /\ UNCHANGED <<poolVars, attemptVars, promptVars, reaper, tabVars>>

\* strong_count is 2: the pool and the reaper hold the connection and nobody else.
\* A transfer that holds it only keeps the reaper from a step it need not take.
OnlyPooled(n) ==
    /\ entry = Connected(n)
    /\ pc[n] \in {"sent", "gone"}
    /\ \A t \in Tabs : on[t] = n => session[t] \notin {"waiting", "opening", "browsing"}

\* The idle check of the reaper, made without the lock of the pool.
ReaperFindsIdle(n) ==
    /\ reaper[n] = "watching"
    /\ OnlyPooled(n)
    /\ reaper' = [reaper EXCEPT ![n] = "removing"]
    /\ UNCHANGED <<poolVars, attemptVars, promptVars, lost, tabVars>>

\* Mutant: the reaper only looks at idleness.
ReaperSeesLossMut(n) == FALSE

\* The reaper wakes up because the connection is lost.
ReaperSeesLoss(n) ==
    /\ reaper[n] = "watching"
    /\ n \in lost
    /\ reaper' = [reaper EXCEPT ![n] = "removing"]
    /\ UNCHANGED <<poolVars, attemptVars, promptVars, lost, tabVars>>

\* remove_if_same
ReaperRemoves(n) ==
    /\ reaper[n] = "removing"
    /\ reaper' = [reaper EXCEPT ![n] = "done"]
    /\ entry' = IF entry = Connected(n) THEN Empty ELSE entry
    /\ UNCHANGED <<last, attemptVars, promptVars, lost, tabVars>>

-----------------------------------------------------------------------------
(* The session task of tab t. *)

SessionEnds(t, told) ==
    /\ session' = [session EXCEPT ![t] = "ended"]
    /\ heard' = [heard EXCEPT ![t] = @ \/ told]
    /\ UNCHANGED <<poolVars, attemptVars, promptVars, connectionVars,
                   dispatching, epoch, on>>

\* connection_failure_event: AuthFailed has no event of its own here.
HasFailureEvent(o) == o = "failed"

\* receiver.recv() returns the connection.
ReceiveConnection(t) ==
    /\ session[t] = "waiting"
    /\ pc[on[t]] \in {"sent", "gone"}
    /\ outcome[on[t]] = "ok"
    /\ session' = [session EXCEPT ![t] = "opening"]
    /\ UNCHANGED <<poolVars, attemptVars, promptVars, connectionVars,
                   dispatching, epoch, on, heard>>

\* receiver.recv() returns the failure of the attempt.
ReceiveFailure(t) ==
    /\ session[t] = "waiting"
    /\ pc[on[t]] \in {"sent", "gone"}
    /\ outcome[on[t]] \in {"auth", "failed"}
    /\ SessionEnds(t, HasFailureEvent(outcome[on[t]]))

\* receiver.recv() finds the channel closed: a warning is logged.
ReceiveNothing(t) ==
    /\ \/ session[t] = "late"
       \/ session[t] = "waiting" /\ outcome[on[t]] = "none"
    /\ pc[on[t]] = "gone"
    /\ SessionEnds(t, FALSE)

\* The channel of the tab is open: TabConnected, and the actor runs.
OpenSession(t) ==
    /\ session[t] = "opening"
    /\ on[t] \notin lost
    /\ session' = [session EXCEPT ![t] = "browsing"]
    /\ heard' = [heard EXCEPT ![t] = TRUE]
    /\ UNCHANGED <<poolVars, attemptVars, promptVars, connectionVars,
                   dispatching, epoch, on>>

\* Channel, subsystem or SFTP session fails on a live or a lost connection.
OpenFails(t) ==
    /\ session[t] = "opening"
    /\ SessionEnds(t, TRUE)

\* The actor wakes up because the connection is lost: TabDisconnected.
ActorDisconnected(t) ==
    /\ session[t] = "browsing"
    /\ on[t] \in lost
    /\ SessionEnds(t, TRUE)

SessionStep(t) ==
    \/ ReceiveConnection(t) \/ ReceiveFailure(t) \/ ReceiveNothing(t)
    \/ OpenSession(t) \/ OpenFails(t) \/ ActorDisconnected(t)

GetOrConnect(t) == JoinAttempt(t) \/ ReuseConnection(t) \/ StartAttempt(t)
Reap(n) == ReaperSeesLoss(n) \/ ReaperRemoves(n)

Next ==
    \/ \E t \in Tabs :
          \/ ConnectTab(t) \/ GetOrConnect(t) \/ CloseTab(t)
          \/ SessionStep(t)
    \/ \E n \in Attempts :
          \/ \E d \in {"accept", "refuse"} : AnswerPrompt(n, d)
          \/ AttemptStep(n) \/ AttemptPanics(n)
          \/ DeadlinePasses(n) \/ ReapStaleAttempt(n)
          \/ LoseConnection(n) \/ ReaperFindsIdle(n) \/ Reap(n)

\* Every phase of an attempt has a timeout, and the runtime polls ready tasks.
\* Nothing is assumed of the user, the transfers or the life of a connection.
Fairness ==
    /\ \A n \in Attempts : /\ WF_vars(AttemptStep(n)) /\ WF_vars(Reap(n))
                           /\ WF_vars(ReapStaleAttempt(n))
    /\ \A t \in Tabs : WF_vars(SessionStep(t)) /\ WF_vars(GetOrConnect(t))

Spec == Init /\ [][Next]_vars
FairSpec == Spec /\ Fairness

-----------------------------------------------------------------------------
(* Properties. *)

\* The entry of the pool belongs to the newest attempt: a superseded attempt that
\* finishes late (mark_connected) never puts itself over, or in place of, a newer
\* one.
NewestInPool == entry.kind # "none" => entry.n = last

\* Single flight: an attempt under way whose deadline never passed is the entry
\* of the pool, so every connect command joins it and there is only one. An older
\* attempt that fails, is reaped or is abandoned must not remove it.
SingleFlight ==
    \A n \in Attempts :
        pc[n] \in Working /\ deadline[n] = "ahead" => entry = Connecting(n)

\* No entry is left to itself: the task of a Connecting entry has not ended, so its
\* guard will remove it, and a Connected entry has a reaper that has not returned.
EntryIsTended ==
    /\ entry.kind = "connecting" => pc[entry.n] \in Working \union {"sending", "sent"}
    /\ entry.kind = "connected" => reaper[entry.n] \in {"watching", "removing"}

\* The registries hold exactly the prompts that an attempt awaits undecided: no
\* prompt waits for an answer that cannot be given, and no answer is taken for an
\* attempt that stopped waiting.
PromptsAwaited ==
    pending = {n \in Attempts : pc[n] \in AtPrompt /\ decision[n] = "none"}

\* Attempts are numbered in the order they start, and decisions exist only at
\* prompts: what the invariants above rest on.
AttemptsInOrder ==
    /\ \A n \in Attempts : (pc[n] = "unborn") <=> (n > last)
    /\ \A n \in Attempts : pc[n] \notin AtPrompt => decision[n] = "none"

\* The inductive invariant.
IInv ==
    /\ TypeOK
    /\ AttemptsInOrder
    /\ NewestInPool
    /\ SingleFlight
    /\ EntryIsTended
    /\ PromptsAwaited

\* The server does not ask for rounds of keyboard-interactive answers for ever.
KeyboardEnds == <>[](\A n \in Attempts : pc[n] # "keyboard")

\* A tab that waits for a connection stops waiting, even if nobody answers a
\* prompt: it is connected, or its task ends.
TabStopsWaiting ==
    KeyboardEnds =>
        \A t \in Tabs : session[t] \in {"waiting", "late", "opening"}
                           ~> session[t] \notin {"waiting", "late", "opening"}

\* A lost connection leaves the pool without a connect command asking for it.
LostConnectionLeaves ==
    \A n \in Attempts : (entry = Connected(n) /\ n \in lost) ~> entry # Connected(n)

=============================================================================
