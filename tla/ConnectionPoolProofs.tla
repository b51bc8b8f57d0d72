------------------------ MODULE ConnectionPoolProofs ------------------------
(* The pool has one attempt in flight, never an entry of an older attempt, no  *)
(* entry without a task to remove it, and its prompts are those awaited.       *)
EXTENDS ConnectionPool, TLAPS

\* The empty pool.
LEMMA InitInv == Init => IInv
BY PoolAssumption
   DEF Init, IInv, TypeOK, AttemptsInOrder, NewestInPool, SingleFlight, EntryIsTended,
       PromptsAwaited, Attempts, Working, AtPrompt, Empty

\* The event of a failed authentication keeps the type of what the tabs heard.
LEMMA HeardType ==
    ASSUME NEW n, TellOwner(n), heard \in [Tabs -> BOOLEAN]
    PROVE  heard' \in [Tabs -> BOOLEAN]
BY DEF TellOwner

\* Every step keeps the types.
LEMMA TypeStep == IInv /\ [Next]_vars => TypeOK'
<1> SUFFICES ASSUME IInv, [Next]_vars PROVE TypeOK'
  OBVIOUS
<1> USE PoolAssumption DEF IInv, TypeOK, Attempts, Working, AtPrompt, Connecting, Connected, Empty
<1>1. ASSUME NEW t \in Tabs, ConnectTab(t) PROVE TypeOK'
  <2>1. decision' \in [Attempts -> {"none", "accept", "refuse"}]
    BY <1>1 DEF ConnectTab, RejectPromptsOf
  <2>2. pending' \subseteq Attempts
    BY <1>1 DEF ConnectTab, RejectPromptsOf
  <2>3. QED
    BY <1>1, <2>1, <2>2 DEF ConnectTab, poolVars, attemptVars, connectionVars
<1>2. ASSUME NEW t \in Tabs, JoinAttempt(t) PROVE TypeOK'
  BY <1>2 DEF JoinAttempt, Spawn, InProgress, poolVars, attemptVars, promptVars,
       connectionVars, tabVars
<1>3. ASSUME NEW t \in Tabs, ReuseConnection(t) PROVE TypeOK'
  BY SMTT(30), <1>3 DEF ReuseConnection, Spawn, Reusable, poolVars, attemptVars, promptVars,
       connectionVars, tabVars
<1>4. ASSUME NEW t \in Tabs, StartAttempt(t) PROVE TypeOK'
  BY <1>4 DEF StartAttempt, Spawn, InProgress, Reusable, poolVars, attemptVars,
       promptVars, connectionVars, tabVars
<1>5. ASSUME NEW t \in Tabs, CloseTab(t) PROVE TypeOK'
  <2>1. decision' \in [Attempts -> {"none", "accept", "refuse"}]
    BY <1>5 DEF CloseTab, RejectPromptsOf
  <2>2. pending' \subseteq Attempts
    BY <1>5 DEF CloseTab, RejectPromptsOf
  <2>3. QED
    BY <1>5, <2>1, <2>2 DEF CloseTab, poolVars, attemptVars, connectionVars
<1>6. ASSUME NEW t \in Tabs, ReceiveConnection(t) PROVE TypeOK'
  BY <1>6 DEF ReceiveConnection, poolVars, attemptVars, promptVars, connectionVars,
       tabVars
<1>7. ASSUME NEW t \in Tabs, ReceiveFailure(t) PROVE TypeOK'
  BY <1>7 DEF ReceiveFailure, SessionEnds, poolVars, attemptVars, promptVars,
       connectionVars, tabVars
<1>8. ASSUME NEW t \in Tabs, ReceiveNothing(t) PROVE TypeOK'
  BY <1>8 DEF ReceiveNothing, SessionEnds, poolVars, attemptVars, promptVars,
       connectionVars, tabVars
<1>9. ASSUME NEW t \in Tabs, OpenSession(t) PROVE TypeOK'
  BY <1>9 DEF OpenSession, poolVars, attemptVars, promptVars, connectionVars, tabVars
<1>10. ASSUME NEW t \in Tabs, OpenFails(t) PROVE TypeOK'
  BY <1>10 DEF OpenFails, SessionEnds, poolVars, attemptVars, promptVars,
       connectionVars, tabVars
<1>11. ASSUME NEW t \in Tabs, ActorDisconnected(t) PROVE TypeOK'
  BY <1>11 DEF ActorDisconnected, SessionEnds, poolVars, attemptVars, promptVars,
       connectionVars, tabVars
<1>12. ASSUME NEW n \in Attempts, KeyMatches(n) PROVE TypeOK'
  BY <1>12 DEF KeyMatches, poolVars, attemptVars, promptVars, connectionVars, tabVars
<1>13. ASSUME NEW n \in Attempts, AskTrust(n) PROVE TypeOK'
  BY <1>13 DEF AskTrust, Ask, poolVars, attemptVars, promptVars, connectionVars, tabVars
<1>14. ASSUME NEW n \in Attempts, HandshakeFails(n) PROVE TypeOK'
  BY <1>14 DEF HandshakeFails, Fail, poolVars, attemptVars, promptVars, connectionVars,
       tabVars
<1>15. ASSUME NEW n \in Attempts, TrustDecided(n) PROVE TypeOK'
  <2>1. /\ pc' \in [Attempts -> Working \union {"unborn", "sending", "sent", "gone"}]
        /\ outcome' \in [Attempts -> {"none", "ok", "auth", "failed"}]
    BY ZenonT(30), <1>15 DEF TrustDecided, Fail
  <2>2. decision' \in [Attempts -> {"none", "accept", "refuse"}]
    BY <1>15 DEF TrustDecided
  <2> QED
    BY <1>15, <2>1, <2>2 DEF TrustDecided, poolVars, connectionVars, tabVars
<1>16. ASSUME NEW n \in Attempts, TrustTimesOut(n) PROVE TypeOK'
  BY <1>16 DEF TrustTimesOut, Fail, poolVars, attemptVars, promptVars, connectionVars,
       tabVars
<1>17. ASSUME NEW n \in Attempts, AuthSucceeds(n) PROVE TypeOK'
  BY SMTT(30), <1>17 DEF AuthSucceeds, poolVars, attemptVars, promptVars, connectionVars, tabVars
<1>18. ASSUME NEW n \in Attempts, AuthRejected(n) PROVE TypeOK'
  BY <1>18 DEF AuthRejected, Fail, TellOwner, poolVars, attemptVars, promptVars,
       connectionVars, tabVars
<1>19. ASSUME NEW n \in Attempts, AuthBreaks(n) PROVE TypeOK'
  BY <1>19 DEF AuthBreaks, Fail, poolVars, attemptVars, promptVars, connectionVars,
       tabVars
<1>20. ASSUME NEW n \in Attempts, AskKeyboard(n) PROVE TypeOK'
  BY <1>20 DEF AskKeyboard, Ask, poolVars, attemptVars, promptVars, connectionVars,
       tabVars
<1>21. ASSUME NEW n \in Attempts, KeyboardDecided(n) PROVE TypeOK'
  <2>1. heard' \in [Tabs -> BOOLEAN]
    <3>1. heard' = heard \/ TellOwner(n)
      BY <1>21 DEF KeyboardDecided
    <3>2. QED
      BY <3>1, HeardType
  <2>2. /\ pc' \in [Attempts -> Working \union {"unborn", "sending", "sent", "gone"}]
        /\ outcome' \in [Attempts -> {"none", "ok", "auth", "failed"}]
    BY SMTT(30), <1>21 DEF KeyboardDecided, Fail
  <2>3. QED
    BY <1>21, <2>1, <2>2 DEF KeyboardDecided, poolVars, connectionVars
<1>22. ASSUME NEW n \in Attempts, KeyboardTimesOut(n) PROVE TypeOK'
  BY <1>22 DEF KeyboardTimesOut, Fail, TellOwner, poolVars, attemptVars, promptVars,
       connectionVars, tabVars
<1>23. ASSUME NEW n \in Attempts, SetupSucceeds(n) PROVE TypeOK'
  BY <1>23 DEF SetupSucceeds, poolVars, attemptVars, promptVars, connectionVars, tabVars
<1>24. ASSUME NEW n \in Attempts, SetupFails(n) PROVE TypeOK'
  BY <1>24 DEF SetupFails, Fail, poolVars, attemptVars, promptVars, connectionVars,
       tabVars
<1>25. ASSUME NEW n \in Attempts, MarkConnected(n) PROVE TypeOK'
  BY SMTT(30), <1>25 DEF MarkConnected, IsCurrentAttempt, poolVars, attemptVars, promptVars,
       connectionVars, tabVars
<1>26. ASSUME NEW n \in Attempts, SendResult(n) PROVE TypeOK'
  BY <1>26 DEF SendResult, poolVars, attemptVars, promptVars, connectionVars, tabVars
<1>27. ASSUME NEW n \in Attempts, EndAttempt(n) PROVE TypeOK'
  BY <1>27 DEF EndAttempt, WithoutAttempt, IsCurrentAttempt, poolVars, attemptVars,
       promptVars, connectionVars, tabVars
<1>28. ASSUME NEW n \in Attempts, AttemptPanics(n) PROVE TypeOK'
  BY <1>28 DEF AttemptPanics, WithoutAttempt, IsCurrentAttempt, poolVars, attemptVars,
       promptVars, connectionVars, tabVars
<1>29. ASSUME NEW n \in Attempts, DeadlinePasses(n) PROVE TypeOK'
  BY <1>29 DEF DeadlinePasses, poolVars, attemptVars, promptVars, connectionVars,
       tabVars
<1>30. ASSUME NEW n \in Attempts, ReapStaleAttempt(n) PROVE TypeOK'
  BY <1>30 DEF ReapStaleAttempt, WithoutAttempt, IsCurrentAttempt, poolVars,
       attemptVars, promptVars, connectionVars, tabVars
<1>31. ASSUME NEW n \in Attempts, LoseConnection(n) PROVE TypeOK'
  BY <1>31 DEF LoseConnection, poolVars, attemptVars, promptVars, connectionVars,
       tabVars
<1>32. ASSUME NEW n \in Attempts, ReaperFindsIdle(n) PROVE TypeOK'
  BY <1>32 DEF ReaperFindsIdle, poolVars, attemptVars, promptVars, connectionVars,
       tabVars
<1>33. ASSUME NEW n \in Attempts, ReaperSeesLoss(n) PROVE TypeOK'
  BY <1>33 DEF ReaperSeesLoss, poolVars, attemptVars, promptVars, connectionVars,
       tabVars
<1>34. ASSUME NEW n \in Attempts, ReaperRemoves(n) PROVE TypeOK'
  BY <1>34 DEF ReaperRemoves, poolVars, attemptVars, promptVars, connectionVars, tabVars
<1>35. ASSUME NEW n \in Attempts, NEW d \in {"accept", "refuse"}, AnswerPrompt(n, d)
      PROVE TypeOK'
  BY <1>35 DEF AnswerPrompt, poolVars, attemptVars, promptVars, connectionVars, tabVars
<1>36. CASE UNCHANGED vars
  BY <1>36 DEF vars, poolVars, attemptVars, promptVars, connectionVars, tabVars
<1> HIDE DEF IInv, TypeOK, Attempts, Working, AtPrompt, Connecting, Connected, Empty
<1>37. QED
  BY <1>1, <1>2, <1>3, <1>4, <1>5, <1>6, <1>7, <1>8, <1>9, <1>10, <1>11,
      <1>12, <1>13, <1>14, <1>15, <1>16, <1>17, <1>18, <1>19, <1>20, <1>21, <1>22,
      <1>23, <1>24, <1>25, <1>26, <1>27, <1>28, <1>29, <1>30, <1>31, <1>32, <1>33,
      <1>34, <1>35, <1>36
     DEF Next, GetOrConnect, SessionStep, AttemptStep, Reap

\* Numbers are given in order, decisions are taken at prompts.
LEMMA OrderStep == IInv /\ [Next]_vars => AttemptsInOrder'
<1> SUFFICES ASSUME IInv, [Next]_vars PROVE AttemptsInOrder'
  OBVIOUS
<1> USE PoolAssumption DEF IInv, TypeOK, AttemptsInOrder, PromptsAwaited, Attempts,
       Working, AtPrompt
<1>1. CASE UNCHANGED <<pc, last, decision>>
  BY <1>1
<1>2. ASSUME NEW t \in Tabs, ConnectTab(t) PROVE AttemptsInOrder'
  BY <1>2 DEF ConnectTab, RejectPromptsOf, poolVars, attemptVars, promptVars,
       connectionVars, tabVars
<1>3. ASSUME NEW t \in Tabs, StartAttempt(t) PROVE AttemptsInOrder'
  BY <1>3 DEF StartAttempt, Spawn, InProgress, Reusable, poolVars, attemptVars,
       promptVars, connectionVars, tabVars
<1>4. ASSUME NEW t \in Tabs, CloseTab(t) PROVE AttemptsInOrder'
  BY <1>4 DEF CloseTab, RejectPromptsOf, poolVars, attemptVars, promptVars,
       connectionVars, tabVars
<1>5. ASSUME NEW n \in Attempts, KeyMatches(n) PROVE AttemptsInOrder'
  BY <1>5 DEF KeyMatches, poolVars, attemptVars, promptVars, connectionVars, tabVars
<1>6. ASSUME NEW n \in Attempts, AskTrust(n) PROVE AttemptsInOrder'
  BY <1>6 DEF AskTrust, Ask, poolVars, attemptVars, promptVars, connectionVars, tabVars
<1>7. ASSUME NEW n \in Attempts, HandshakeFails(n) PROVE AttemptsInOrder'
  BY <1>7 DEF HandshakeFails, Fail, poolVars, attemptVars, promptVars, connectionVars,
       tabVars
<1>8. ASSUME NEW n \in Attempts, TrustDecided(n) PROVE AttemptsInOrder'
  BY <1>8 DEF TrustDecided, Fail, poolVars, attemptVars, promptVars, connectionVars,
       tabVars
<1>9. ASSUME NEW n \in Attempts, TrustTimesOut(n) PROVE AttemptsInOrder'
  BY <1>9 DEF TrustTimesOut, Fail, poolVars, attemptVars, promptVars, connectionVars,
       tabVars
<1>10. ASSUME NEW n \in Attempts, AuthSucceeds(n) PROVE AttemptsInOrder'
  <2>1. \E p \in {"handshake", "setup"} : pc' = [pc EXCEPT ![n] = p]
    BY <1>10 DEF AuthSucceeds
  <2>2. last' = last /\ decision' = decision /\ pc[n] = "auth"
    BY <1>10 DEF AuthSucceeds, poolVars, promptVars
  <2>3. QED
    BY <2>1, <2>2
<1>11. ASSUME NEW n \in Attempts, AuthRejected(n) PROVE AttemptsInOrder'
  BY <1>11 DEF AuthRejected, Fail, TellOwner, poolVars, attemptVars, promptVars,
       connectionVars, tabVars
<1>12. ASSUME NEW n \in Attempts, AuthBreaks(n) PROVE AttemptsInOrder'
  BY <1>12 DEF AuthBreaks, Fail, poolVars, attemptVars, promptVars, connectionVars,
       tabVars
<1>13. ASSUME NEW n \in Attempts, AskKeyboard(n) PROVE AttemptsInOrder'
  BY <1>13 DEF AskKeyboard, Ask, poolVars, attemptVars, promptVars, connectionVars,
       tabVars
<1>14. ASSUME NEW n \in Attempts, KeyboardDecided(n) PROVE AttemptsInOrder'
  BY <1>14 DEF KeyboardDecided, Fail, TellOwner, poolVars, attemptVars, promptVars,
       connectionVars, tabVars
<1>15. ASSUME NEW n \in Attempts, KeyboardTimesOut(n) PROVE AttemptsInOrder'
  BY <1>15 DEF KeyboardTimesOut, Fail, TellOwner, poolVars, attemptVars, promptVars,
       connectionVars, tabVars
<1>16. ASSUME NEW n \in Attempts, SetupSucceeds(n) PROVE AttemptsInOrder'
  BY <1>16 DEF SetupSucceeds, poolVars, attemptVars, promptVars, connectionVars, tabVars
<1>17. ASSUME NEW n \in Attempts, SetupFails(n) PROVE AttemptsInOrder'
  BY <1>17 DEF SetupFails, Fail, poolVars, attemptVars, promptVars, connectionVars,
       tabVars
<1>18. ASSUME NEW n \in Attempts, MarkConnected(n) PROVE AttemptsInOrder'
  BY <1>18 DEF MarkConnected, IsCurrentAttempt, poolVars, attemptVars, promptVars,
       connectionVars, tabVars
<1>19. ASSUME NEW n \in Attempts, SendResult(n) PROVE AttemptsInOrder'
  BY <1>19 DEF SendResult, poolVars, attemptVars, promptVars, connectionVars, tabVars
<1>20. ASSUME NEW n \in Attempts, EndAttempt(n) PROVE AttemptsInOrder'
  BY <1>20 DEF EndAttempt, WithoutAttempt, IsCurrentAttempt, poolVars, attemptVars,
       promptVars, connectionVars, tabVars
<1>21. ASSUME NEW n \in Attempts, AttemptPanics(n) PROVE AttemptsInOrder'
  BY <1>21 DEF AttemptPanics, WithoutAttempt, IsCurrentAttempt, poolVars, attemptVars,
       promptVars, connectionVars, tabVars
<1>22. ASSUME NEW n \in Attempts, NEW d \in {"accept", "refuse"}, AnswerPrompt(n, d)
      PROVE AttemptsInOrder'
  BY <1>22 DEF AnswerPrompt, poolVars, attemptVars, promptVars, connectionVars, tabVars
<1> HIDE DEF IInv, TypeOK, AttemptsInOrder, PromptsAwaited, Attempts, Working, AtPrompt
<1>23. ASSUME NEW t \in Tabs,
          \/ JoinAttempt(t) \/ ReuseConnection(t) \/ ReceiveConnection(t)
          \/ ReceiveFailure(t) \/ ReceiveNothing(t) \/ OpenSession(t) \/ OpenFails(t)
          \/ ActorDisconnected(t)
      PROVE UNCHANGED <<pc, last, decision>>
  BY <1>23 DEF JoinAttempt, ReuseConnection, ReceiveConnection, ReceiveFailure,
       ReceiveNothing, OpenSession, OpenFails, ActorDisconnected, Spawn, SessionEnds,
       poolVars, attemptVars, promptVars, connectionVars, tabVars
<1>24. ASSUME NEW n \in Attempts,
          \/ DeadlinePasses(n) \/ ReapStaleAttempt(n) \/ LoseConnection(n)
          \/ ReaperFindsIdle(n) \/ ReaperSeesLoss(n) \/ ReaperRemoves(n)
      PROVE UNCHANGED <<pc, last, decision>>
  BY <1>24 DEF DeadlinePasses, ReapStaleAttempt, LoseConnection, ReaperFindsIdle,
       ReaperSeesLoss, ReaperRemoves, poolVars, attemptVars, promptVars, connectionVars,
       tabVars
<1>25. ASSUME UNCHANGED vars PROVE UNCHANGED <<pc, last, decision>>
  BY <1>25 DEF vars, poolVars, attemptVars, promptVars, connectionVars, tabVars
<1>26. QED
  BY <1>1, <1>2, <1>3, <1>4, <1>5, <1>6, <1>7, <1>8, <1>9, <1>10, <1>11,
      <1>12, <1>13, <1>14, <1>15, <1>16, <1>17, <1>18, <1>19, <1>20, <1>21, <1>22,
      <1>23, <1>24, <1>25
     DEF Next, GetOrConnect, SessionStep, AttemptStep, Reap

\* No step puts an older attempt into the pool.
LEMMA NewestStep == IInv /\ [Next]_vars => NewestInPool'
<1> SUFFICES ASSUME IInv, [Next]_vars PROVE NewestInPool'
  OBVIOUS
<1> USE PoolAssumption DEF IInv, TypeOK, NewestInPool, Attempts, Connecting, Connected,
       Empty
<1>1. CASE UNCHANGED <<entry, last>>
  BY <1>1
<1>2. ASSUME NEW t \in Tabs, StartAttempt(t) PROVE NewestInPool'
  BY <1>2 DEF StartAttempt, Spawn, InProgress, Reusable, poolVars, attemptVars,
       promptVars, connectionVars, tabVars
<1>3. ASSUME NEW n \in Attempts, MarkConnected(n) PROVE NewestInPool'
  BY <1>3 DEF MarkConnected, IsCurrentAttempt, poolVars, attemptVars, promptVars,
       connectionVars, tabVars
<1>4. ASSUME NEW n \in Attempts, EndAttempt(n) PROVE NewestInPool'
  BY <1>4 DEF EndAttempt, WithoutAttempt, IsCurrentAttempt, poolVars, attemptVars,
       promptVars, connectionVars, tabVars
<1>5. ASSUME NEW n \in Attempts, AttemptPanics(n) PROVE NewestInPool'
  BY <1>5 DEF AttemptPanics, WithoutAttempt, IsCurrentAttempt, poolVars, attemptVars,
       promptVars, connectionVars, tabVars
<1>6. ASSUME NEW n \in Attempts, ReapStaleAttempt(n) PROVE NewestInPool'
  BY <1>6 DEF ReapStaleAttempt, WithoutAttempt, IsCurrentAttempt, poolVars, attemptVars,
       promptVars, connectionVars, tabVars
<1>7. ASSUME NEW n \in Attempts, ReaperRemoves(n) PROVE NewestInPool'
  BY <1>7 DEF ReaperRemoves, poolVars, attemptVars, promptVars, connectionVars, tabVars
<1> HIDE DEF IInv, TypeOK, NewestInPool, Attempts, Connecting, Connected, Empty
<1>8. ASSUME NEW t \in Tabs,
          \/ ConnectTab(t) \/ JoinAttempt(t) \/ ReuseConnection(t) \/ CloseTab(t)
          \/ ReceiveConnection(t) \/ ReceiveFailure(t) \/ ReceiveNothing(t)
          \/ OpenSession(t) \/ OpenFails(t) \/ ActorDisconnected(t)
      PROVE UNCHANGED <<entry, last>>
  BY <1>8 DEF ConnectTab, JoinAttempt, ReuseConnection, CloseTab, ReceiveConnection,
       ReceiveFailure, ReceiveNothing, OpenSession, OpenFails, ActorDisconnected,
       RejectPromptsOf, Spawn, SessionEnds, poolVars, attemptVars, promptVars,
       connectionVars, tabVars
<1>9. ASSUME NEW n \in Attempts,
          \/ KeyMatches(n) \/ AskTrust(n) \/ HandshakeFails(n) \/ TrustDecided(n)
          \/ TrustTimesOut(n) \/ AuthSucceeds(n) \/ AuthRejected(n) \/ AuthBreaks(n)
          \/ AskKeyboard(n) \/ KeyboardDecided(n) \/ KeyboardTimesOut(n)
          \/ SetupSucceeds(n) \/ SetupFails(n) \/ SendResult(n) \/ DeadlinePasses(n)
          \/ LoseConnection(n) \/ ReaperFindsIdle(n) \/ ReaperSeesLoss(n)
      PROVE UNCHANGED <<entry, last>>
  BY <1>9 DEF KeyMatches, AskTrust, HandshakeFails, TrustDecided, TrustTimesOut,
       AuthSucceeds, AuthRejected, AuthBreaks, AskKeyboard, KeyboardDecided,
       KeyboardTimesOut, SetupSucceeds, SetupFails, SendResult, DeadlinePasses,
       LoseConnection, ReaperFindsIdle, ReaperSeesLoss, Ask, Fail, TellOwner, poolVars,
       attemptVars, promptVars, connectionVars, tabVars
<1>10. ASSUME NEW n \in Attempts, NEW d \in {"accept", "refuse"}, AnswerPrompt(n, d)
      PROVE UNCHANGED <<entry, last>>
  BY <1>10 DEF AnswerPrompt, poolVars, attemptVars, promptVars, connectionVars, tabVars
<1>11. ASSUME UNCHANGED vars PROVE UNCHANGED <<entry, last>>
  BY <1>11 DEF vars, poolVars, attemptVars, promptVars, connectionVars, tabVars
<1>12. QED
  BY <1>1, <1>2, <1>3, <1>4, <1>5, <1>6, <1>7, <1>8, <1>9, <1>10, <1>11
     DEF Next, GetOrConnect, SessionStep, AttemptStep, Reap

\* No step takes an attempt in time out of the pool, or starts another beside it.
LEMMA FlightStep == IInv /\ [Next]_vars => SingleFlight'
<1> SUFFICES ASSUME IInv, [Next]_vars PROVE SingleFlight'
  OBVIOUS
<1> USE PoolAssumption DEF IInv, TypeOK, AttemptsInOrder, SingleFlight, Attempts,
       Working, Connecting, Connected, Empty
<1>1. CASE UNCHANGED <<pc, deadline, entry>>
  BY <1>1
<1>2. ASSUME NEW t \in Tabs, StartAttempt(t) PROVE SingleFlight'
  BY <1>2 DEF StartAttempt, Spawn, InProgress, Reusable, poolVars, attemptVars,
       promptVars, connectionVars, tabVars
<1>3. ASSUME NEW n \in Attempts, KeyMatches(n) PROVE SingleFlight'
  BY <1>3 DEF KeyMatches, poolVars, attemptVars, promptVars, connectionVars, tabVars
<1>4. ASSUME NEW n \in Attempts, AskTrust(n) PROVE SingleFlight'
  BY <1>4 DEF AskTrust, Ask, poolVars, attemptVars, promptVars, connectionVars, tabVars
<1>5. ASSUME NEW n \in Attempts, HandshakeFails(n) PROVE SingleFlight'
  BY <1>5 DEF HandshakeFails, Fail, poolVars, attemptVars, promptVars, connectionVars,
       tabVars
<1>6. ASSUME NEW n \in Attempts, TrustDecided(n) PROVE SingleFlight'
  BY <1>6 DEF TrustDecided, Fail, poolVars, attemptVars, promptVars, connectionVars,
       tabVars
<1>7. ASSUME NEW n \in Attempts, TrustTimesOut(n) PROVE SingleFlight'
  BY <1>7 DEF TrustTimesOut, Fail, poolVars, attemptVars, promptVars, connectionVars,
       tabVars
<1>8. ASSUME NEW n \in Attempts, AuthSucceeds(n) PROVE SingleFlight'
  BY <1>8 DEF AuthSucceeds, poolVars, attemptVars, promptVars, connectionVars, tabVars
<1>9. ASSUME NEW n \in Attempts, AuthRejected(n) PROVE SingleFlight'
  BY <1>9 DEF AuthRejected, Fail, TellOwner, poolVars, attemptVars, promptVars,
       connectionVars, tabVars
<1>10. ASSUME NEW n \in Attempts, AuthBreaks(n) PROVE SingleFlight'
  BY <1>10 DEF AuthBreaks, Fail, poolVars, attemptVars, promptVars, connectionVars,
       tabVars
<1>11. ASSUME NEW n \in Attempts, AskKeyboard(n) PROVE SingleFlight'
  BY <1>11 DEF AskKeyboard, Ask, poolVars, attemptVars, promptVars, connectionVars,
       tabVars
<1>12. ASSUME NEW n \in Attempts, KeyboardDecided(n) PROVE SingleFlight'
  BY <1>12 DEF KeyboardDecided, Fail, TellOwner, poolVars, attemptVars, promptVars,
       connectionVars, tabVars
<1>13. ASSUME NEW n \in Attempts, KeyboardTimesOut(n) PROVE SingleFlight'
  BY <1>13 DEF KeyboardTimesOut, Fail, TellOwner, poolVars, attemptVars, promptVars,
       connectionVars, tabVars
<1>14. ASSUME NEW n \in Attempts, SetupSucceeds(n) PROVE SingleFlight'
  BY <1>14 DEF SetupSucceeds, poolVars, attemptVars, promptVars, connectionVars, tabVars
<1>15. ASSUME NEW n \in Attempts, SetupFails(n) PROVE SingleFlight'
  BY <1>15 DEF SetupFails, Fail, poolVars, attemptVars, promptVars, connectionVars,
       tabVars
<1>16. ASSUME NEW n \in Attempts, MarkConnected(n) PROVE SingleFlight'
  BY <1>16 DEF MarkConnected, IsCurrentAttempt, poolVars, attemptVars, promptVars,
       connectionVars, tabVars
<1>17. ASSUME NEW n \in Attempts, SendResult(n) PROVE SingleFlight'
  BY <1>17 DEF SendResult, poolVars, attemptVars, promptVars, connectionVars, tabVars
<1>18. ASSUME NEW n \in Attempts, EndAttempt(n) PROVE SingleFlight'
  BY <1>18 DEF EndAttempt, WithoutAttempt, IsCurrentAttempt, poolVars, attemptVars,
       promptVars, connectionVars, tabVars
<1>19. ASSUME NEW n \in Attempts, AttemptPanics(n) PROVE SingleFlight'
  BY <1>19 DEF AttemptPanics, WithoutAttempt, IsCurrentAttempt, poolVars, attemptVars,
       promptVars, connectionVars, tabVars
<1>20. ASSUME NEW n \in Attempts, DeadlinePasses(n) PROVE SingleFlight'
  BY <1>20 DEF DeadlinePasses, poolVars, attemptVars, promptVars, connectionVars,
       tabVars
<1>21. ASSUME NEW n \in Attempts, ReapStaleAttempt(n) PROVE SingleFlight'
  BY <1>21 DEF ReapStaleAttempt, WithoutAttempt, IsCurrentAttempt, poolVars,
       attemptVars, promptVars, connectionVars, tabVars
<1>22. ASSUME NEW n \in Attempts, ReaperRemoves(n) PROVE SingleFlight'
  BY <1>22 DEF ReaperRemoves, poolVars, attemptVars, promptVars, connectionVars, tabVars
<1> HIDE DEF IInv, TypeOK, AttemptsInOrder, SingleFlight, Attempts, Working, Connecting,
       Connected, Empty
<1>23. ASSUME NEW t \in Tabs,
          \/ ConnectTab(t) \/ JoinAttempt(t) \/ ReuseConnection(t) \/ CloseTab(t)
          \/ ReceiveConnection(t) \/ ReceiveFailure(t) \/ ReceiveNothing(t)
          \/ OpenSession(t) \/ OpenFails(t) \/ ActorDisconnected(t)
      PROVE UNCHANGED <<pc, deadline, entry>>
  BY <1>23 DEF ConnectTab, JoinAttempt, ReuseConnection, CloseTab, ReceiveConnection,
       ReceiveFailure, ReceiveNothing, OpenSession, OpenFails, ActorDisconnected,
       RejectPromptsOf, Spawn, SessionEnds, poolVars, attemptVars, promptVars,
       connectionVars, tabVars
<1>24. ASSUME NEW n \in Attempts,
          \/ LoseConnection(n) \/ ReaperFindsIdle(n) \/ ReaperSeesLoss(n)
      PROVE UNCHANGED <<pc, deadline, entry>>
  BY <1>24 DEF LoseConnection, ReaperFindsIdle, ReaperSeesLoss, poolVars, attemptVars,
       promptVars, connectionVars, tabVars
<1>25. ASSUME NEW n \in Attempts, NEW d \in {"accept", "refuse"}, AnswerPrompt(n, d)
      PROVE UNCHANGED <<pc, deadline, entry>>
  BY <1>25 DEF AnswerPrompt, poolVars, attemptVars, promptVars, connectionVars, tabVars
<1>26. ASSUME UNCHANGED vars PROVE UNCHANGED <<pc, deadline, entry>>
  BY <1>26 DEF vars, poolVars, attemptVars, promptVars, connectionVars, tabVars
<1>27. QED
  BY <1>1, <1>2, <1>3, <1>4, <1>5, <1>6, <1>7, <1>8, <1>9, <1>10, <1>11,
      <1>12, <1>13, <1>14, <1>15, <1>16, <1>17, <1>18, <1>19, <1>20, <1>21, <1>22,
      <1>23, <1>24, <1>25, <1>26
     DEF Next, GetOrConnect, SessionStep, AttemptStep, Reap

\* The task behind an entry ends only together with the entry.
LEMMA TendedStep == IInv /\ [Next]_vars => EntryIsTended'
<1> SUFFICES ASSUME IInv, [Next]_vars PROVE EntryIsTended'
  OBVIOUS
<1> USE PoolAssumption DEF IInv, TypeOK, EntryIsTended, Attempts, Working, AtPrompt,
       Connecting, Connected, Empty
<1>1. CASE UNCHANGED <<entry, pc, reaper>>
  BY <1>1
<1>2. ASSUME NEW t \in Tabs, StartAttempt(t) PROVE EntryIsTended'
  BY <1>2 DEF StartAttempt, Spawn, InProgress, Reusable, poolVars, attemptVars,
       promptVars, connectionVars, tabVars
<1>3. ASSUME NEW n \in Attempts, KeyMatches(n) PROVE EntryIsTended'
  BY <1>3 DEF KeyMatches, poolVars, attemptVars, promptVars, connectionVars, tabVars
<1>4. ASSUME NEW n \in Attempts, AskTrust(n) PROVE EntryIsTended'
  BY <1>4 DEF AskTrust, Ask, poolVars, attemptVars, promptVars, connectionVars, tabVars
<1>5. ASSUME NEW n \in Attempts, HandshakeFails(n) PROVE EntryIsTended'
  BY <1>5 DEF HandshakeFails, Fail, poolVars, attemptVars, promptVars, connectionVars,
       tabVars
<1>6. ASSUME NEW n \in Attempts, TrustDecided(n) PROVE EntryIsTended'
  BY <1>6 DEF TrustDecided, Fail, poolVars, attemptVars, promptVars, connectionVars,
       tabVars
<1>7. ASSUME NEW n \in Attempts, TrustTimesOut(n) PROVE EntryIsTended'
  BY <1>7 DEF TrustTimesOut, Fail, poolVars, attemptVars, promptVars, connectionVars,
       tabVars
<1>8. ASSUME NEW n \in Attempts, AuthSucceeds(n) PROVE EntryIsTended'
  BY <1>8 DEF AuthSucceeds, poolVars, attemptVars, promptVars, connectionVars, tabVars
<1>9. ASSUME NEW n \in Attempts, AuthRejected(n) PROVE EntryIsTended'
  BY <1>9 DEF AuthRejected, Fail, TellOwner, poolVars, attemptVars, promptVars,
       connectionVars, tabVars
<1>10. ASSUME NEW n \in Attempts, AuthBreaks(n) PROVE EntryIsTended'
  BY <1>10 DEF AuthBreaks, Fail, poolVars, attemptVars, promptVars, connectionVars,
       tabVars
<1>11. ASSUME NEW n \in Attempts, AskKeyboard(n) PROVE EntryIsTended'
  BY <1>11 DEF AskKeyboard, Ask, poolVars, attemptVars, promptVars, connectionVars,
       tabVars
<1>12. ASSUME NEW n \in Attempts, KeyboardDecided(n) PROVE EntryIsTended'
  BY <1>12 DEF KeyboardDecided, Fail, TellOwner, poolVars, attemptVars, promptVars,
       connectionVars, tabVars
<1>13. ASSUME NEW n \in Attempts, KeyboardTimesOut(n) PROVE EntryIsTended'
  BY <1>13 DEF KeyboardTimesOut, Fail, TellOwner, poolVars, attemptVars, promptVars,
       connectionVars, tabVars
<1>14. ASSUME NEW n \in Attempts, SetupSucceeds(n) PROVE EntryIsTended'
  BY <1>14 DEF SetupSucceeds, poolVars, attemptVars, promptVars, connectionVars, tabVars
<1>15. ASSUME NEW n \in Attempts, SetupFails(n) PROVE EntryIsTended'
  BY <1>15 DEF SetupFails, Fail, poolVars, attemptVars, promptVars, connectionVars,
       tabVars
<1>16. ASSUME NEW n \in Attempts, MarkConnected(n) PROVE EntryIsTended'
  BY <1>16 DEF MarkConnected, IsCurrentAttempt, poolVars, attemptVars, promptVars,
       connectionVars, tabVars
<1>17. ASSUME NEW n \in Attempts, SendResult(n) PROVE EntryIsTended'
  BY <1>17 DEF SendResult, poolVars, attemptVars, promptVars, connectionVars, tabVars
<1>18. ASSUME NEW n \in Attempts, EndAttempt(n) PROVE EntryIsTended'
  BY <1>18 DEF EndAttempt, WithoutAttempt, IsCurrentAttempt, poolVars, attemptVars,
       promptVars, connectionVars, tabVars
<1>19. ASSUME NEW n \in Attempts, AttemptPanics(n) PROVE EntryIsTended'
  BY <1>19 DEF AttemptPanics, WithoutAttempt, IsCurrentAttempt, poolVars, attemptVars,
       promptVars, connectionVars, tabVars
<1>20. ASSUME NEW n \in Attempts, ReapStaleAttempt(n) PROVE EntryIsTended'
  BY <1>20 DEF ReapStaleAttempt, WithoutAttempt, IsCurrentAttempt, poolVars,
       attemptVars, promptVars, connectionVars, tabVars
<1>21. ASSUME NEW n \in Attempts, ReaperFindsIdle(n) PROVE EntryIsTended'
  BY <1>21 DEF ReaperFindsIdle, poolVars, attemptVars, promptVars, connectionVars,
       tabVars
<1>22. ASSUME NEW n \in Attempts, ReaperSeesLoss(n) PROVE EntryIsTended'
  BY <1>22 DEF ReaperSeesLoss, poolVars, attemptVars, promptVars, connectionVars,
       tabVars
<1>23. ASSUME NEW n \in Attempts, ReaperRemoves(n) PROVE EntryIsTended'
  BY <1>23 DEF ReaperRemoves, poolVars, attemptVars, promptVars, connectionVars, tabVars
<1> HIDE DEF IInv, TypeOK, EntryIsTended, Attempts, Working, AtPrompt, Connecting,
       Connected, Empty
<1>24. ASSUME NEW t \in Tabs,
          \/ ConnectTab(t) \/ JoinAttempt(t) \/ ReuseConnection(t) \/ CloseTab(t)
          \/ ReceiveConnection(t) \/ ReceiveFailure(t) \/ ReceiveNothing(t)
          \/ OpenSession(t) \/ OpenFails(t) \/ ActorDisconnected(t)
      PROVE UNCHANGED <<entry, pc, reaper>>
  BY <1>24 DEF ConnectTab, JoinAttempt, ReuseConnection, CloseTab, ReceiveConnection,
       ReceiveFailure, ReceiveNothing, OpenSession, OpenFails, ActorDisconnected,
       RejectPromptsOf, Spawn, SessionEnds, poolVars, attemptVars, promptVars,
       connectionVars, tabVars
<1>25. ASSUME NEW n \in Attempts,
          \/ DeadlinePasses(n) \/ LoseConnection(n)
      PROVE UNCHANGED <<entry, pc, reaper>>
  BY <1>25 DEF DeadlinePasses, LoseConnection, poolVars, attemptVars, promptVars,
       connectionVars, tabVars
<1>26. ASSUME NEW n \in Attempts, NEW d \in {"accept", "refuse"}, AnswerPrompt(n, d)
      PROVE UNCHANGED <<entry, pc, reaper>>
  BY <1>26 DEF AnswerPrompt, poolVars, attemptVars, promptVars, connectionVars, tabVars
<1>27. ASSUME UNCHANGED vars PROVE UNCHANGED <<entry, pc, reaper>>
  BY <1>27 DEF vars, poolVars, attemptVars, promptVars, connectionVars, tabVars
<1>28. QED
  BY <1>1, <1>2, <1>3, <1>4, <1>5, <1>6, <1>7, <1>8, <1>9, <1>10, <1>11,
      <1>12, <1>13, <1>14, <1>15, <1>16, <1>17, <1>18, <1>19, <1>20, <1>21, <1>22,
      <1>23, <1>24, <1>25, <1>26, <1>27
     DEF Next, GetOrConnect, SessionStep, AttemptStep, Reap

\* A prompt leaves the registry when it is decided or given up, and only then.
LEMMA PromptStep == IInv /\ [Next]_vars => PromptsAwaited'
<1> SUFFICES ASSUME IInv, [Next]_vars PROVE PromptsAwaited'
  OBVIOUS
<1> USE PoolAssumption DEF IInv, TypeOK, AttemptsInOrder, PromptsAwaited, Attempts,
       Working, AtPrompt
<1>1. CASE UNCHANGED <<pending, pc, decision>>
  BY <1>1
<1>2. ASSUME NEW t \in Tabs, ConnectTab(t) PROVE PromptsAwaited'
  BY <1>2 DEF ConnectTab, RejectPromptsOf, poolVars, attemptVars, promptVars,
       connectionVars, tabVars
<1>3. ASSUME NEW t \in Tabs, StartAttempt(t) PROVE PromptsAwaited'
  BY <1>3 DEF StartAttempt, Spawn, InProgress, Reusable, poolVars, attemptVars,
       promptVars, connectionVars, tabVars
<1>4. ASSUME NEW t \in Tabs, CloseTab(t) PROVE PromptsAwaited'
  BY <1>4 DEF CloseTab, RejectPromptsOf, poolVars, attemptVars, promptVars,
       connectionVars, tabVars
<1>5. ASSUME NEW n \in Attempts, KeyMatches(n) PROVE PromptsAwaited'
  BY <1>5 DEF KeyMatches, poolVars, attemptVars, promptVars, connectionVars, tabVars
<1>6. ASSUME NEW n \in Attempts, AskTrust(n) PROVE PromptsAwaited'
  BY <1>6 DEF AskTrust, Ask, poolVars, attemptVars, promptVars, connectionVars, tabVars
<1>7. ASSUME NEW n \in Attempts, HandshakeFails(n) PROVE PromptsAwaited'
  BY <1>7 DEF HandshakeFails, Fail, poolVars, attemptVars, promptVars, connectionVars,
       tabVars
<1>8. ASSUME NEW n \in Attempts, TrustDecided(n) PROVE PromptsAwaited'
  BY <1>8 DEF TrustDecided, Fail, poolVars, attemptVars, promptVars, connectionVars,
       tabVars
<1>9. ASSUME NEW n \in Attempts, TrustTimesOut(n) PROVE PromptsAwaited'
  BY <1>9 DEF TrustTimesOut, Fail, poolVars, attemptVars, promptVars, connectionVars,
       tabVars
<1>10. ASSUME NEW n \in Attempts, AuthSucceeds(n) PROVE PromptsAwaited'
  BY <1>10 DEF AuthSucceeds, poolVars, attemptVars, promptVars, connectionVars, tabVars
<1>11. ASSUME NEW n \in Attempts, AuthRejected(n) PROVE PromptsAwaited'
  BY <1>11 DEF AuthRejected, Fail, TellOwner, poolVars, attemptVars, promptVars,
       connectionVars, tabVars
<1>12. ASSUME NEW n \in Attempts, AuthBreaks(n) PROVE PromptsAwaited'
  BY <1>12 DEF AuthBreaks, Fail, poolVars, attemptVars, promptVars, connectionVars,
       tabVars
<1>13. ASSUME NEW n \in Attempts, AskKeyboard(n) PROVE PromptsAwaited'
  BY <1>13 DEF AskKeyboard, Ask, poolVars, attemptVars, promptVars, connectionVars,
       tabVars
<1>14. ASSUME NEW n \in Attempts, KeyboardDecided(n) PROVE PromptsAwaited'
  BY <1>14 DEF KeyboardDecided, Fail, TellOwner, poolVars, attemptVars, promptVars,
       connectionVars, tabVars
<1>15. ASSUME NEW n \in Attempts, KeyboardTimesOut(n) PROVE PromptsAwaited'
  BY <1>15 DEF KeyboardTimesOut, Fail, TellOwner, poolVars, attemptVars, promptVars,
       connectionVars, tabVars
<1>16. ASSUME NEW n \in Attempts, SetupSucceeds(n) PROVE PromptsAwaited'
  BY <1>16 DEF SetupSucceeds, poolVars, attemptVars, promptVars, connectionVars, tabVars
<1>17. ASSUME NEW n \in Attempts, SetupFails(n) PROVE PromptsAwaited'
  BY <1>17 DEF SetupFails, Fail, poolVars, attemptVars, promptVars, connectionVars,
       tabVars
<1>18. ASSUME NEW n \in Attempts, MarkConnected(n) PROVE PromptsAwaited'
  BY <1>18 DEF MarkConnected, IsCurrentAttempt, poolVars, attemptVars, promptVars,
       connectionVars, tabVars
<1>19. ASSUME NEW n \in Attempts, SendResult(n) PROVE PromptsAwaited'
  BY <1>19 DEF SendResult, poolVars, attemptVars, promptVars, connectionVars, tabVars
<1>20. ASSUME NEW n \in Attempts, EndAttempt(n) PROVE PromptsAwaited'
  BY <1>20 DEF EndAttempt, WithoutAttempt, IsCurrentAttempt, poolVars, attemptVars,
       promptVars, connectionVars, tabVars
<1>21. ASSUME NEW n \in Attempts, AttemptPanics(n) PROVE PromptsAwaited'
  BY <1>21 DEF AttemptPanics, WithoutAttempt, IsCurrentAttempt, poolVars, attemptVars,
       promptVars, connectionVars, tabVars
<1>22. ASSUME NEW n \in Attempts, NEW d \in {"accept", "refuse"}, AnswerPrompt(n, d)
      PROVE PromptsAwaited'
  BY <1>22 DEF AnswerPrompt, poolVars, attemptVars, promptVars, connectionVars, tabVars
<1> HIDE DEF IInv, TypeOK, AttemptsInOrder, PromptsAwaited, Attempts, Working, AtPrompt
<1>23. ASSUME NEW t \in Tabs,
          \/ JoinAttempt(t) \/ ReuseConnection(t) \/ ReceiveConnection(t)
          \/ ReceiveFailure(t) \/ ReceiveNothing(t) \/ OpenSession(t) \/ OpenFails(t)
          \/ ActorDisconnected(t)
      PROVE UNCHANGED <<pending, pc, decision>>
  BY <1>23 DEF JoinAttempt, ReuseConnection, ReceiveConnection, ReceiveFailure,
       ReceiveNothing, OpenSession, OpenFails, ActorDisconnected, Spawn, SessionEnds,
       poolVars, attemptVars, promptVars, connectionVars, tabVars
<1>24. ASSUME NEW n \in Attempts,
          \/ DeadlinePasses(n) \/ ReapStaleAttempt(n) \/ LoseConnection(n)
          \/ ReaperFindsIdle(n) \/ ReaperSeesLoss(n) \/ ReaperRemoves(n)
      PROVE UNCHANGED <<pending, pc, decision>>
  BY <1>24 DEF DeadlinePasses, ReapStaleAttempt, LoseConnection, ReaperFindsIdle,
       ReaperSeesLoss, ReaperRemoves, poolVars, attemptVars, promptVars, connectionVars,
       tabVars
<1>25. ASSUME UNCHANGED vars PROVE UNCHANGED <<pending, pc, decision>>
  BY <1>25 DEF vars, poolVars, attemptVars, promptVars, connectionVars, tabVars
<1>26. QED
  BY <1>1, <1>2, <1>3, <1>4, <1>5, <1>6, <1>7, <1>8, <1>9, <1>10, <1>11,
      <1>12, <1>13, <1>14, <1>15, <1>16, <1>17, <1>18, <1>19, <1>20, <1>21, <1>22,
      <1>23, <1>24, <1>25
     DEF Next, GetOrConnect, SessionStep, AttemptStep, Reap

\* The parts of the inductive invariant together.
LEMMA InvStep == IInv /\ [Next]_vars => IInv'
BY TypeStep, OrderStep, NewestStep, FlightStep, TendedStep, PromptStep DEF IInv

\* The inductive invariant holds of every reachable state of the pool, for any
\* number of tabs, attempts and reconnects.
THEOREM PoolInvariance == Spec => []IInv
BY InitInv, InvStep, PTL DEF Spec

\* TypeOK of the pool, its attempts and its tabs.
THEOREM PoolTypeCorrect == Spec => []TypeOK
<1>1. IInv => TypeOK
  BY DEF IInv
<1>2. QED
  BY <1>1, PoolInvariance, PTL

\* A superseded attempt never gets into the pool (mark_connected).
THEOREM PoolKeepsNewest == Spec => []NewestInPool
<1>1. IInv => NewestInPool
  BY DEF IInv
<1>2. QED
  BY <1>1, PoolInvariance, PTL

\* At most one attempt within its deadline is under way (get_or_connect,
\* abandon_attempt, reap_stale_attempt).
THEOREM PoolSingleFlight == Spec => []SingleFlight
<1>1. IInv => SingleFlight
  BY DEF IInv
<1>2. QED
  BY <1>1, PoolInvariance, PTL

\* An entry of the pool always has the task that will remove it (AttemptGuard, the
\* reaper of mark_connected).
THEOREM PoolEntryTended == Spec => []EntryIsTended
<1>1. IInv => EntryIsTended
  BY DEF IInv
<1>2. QED
  BY <1>1, PoolInvariance, PTL

\* Registered prompts and awaited prompts are the same (TrustRegistry,
\* KeyboardInteractiveRegistry).
THEOREM PoolPromptsAwaited == Spec => []PromptsAwaited
<1>1. IInv => PromptsAwaited
  BY DEF IInv
<1>2. QED
  BY <1>1, PoolInvariance, PTL

=============================================================================
