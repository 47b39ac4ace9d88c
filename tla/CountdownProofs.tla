--------------------------- MODULE CountdownProofs ---------------------------
(***************************************************************************)
(* Proofs of the safety properties of Countdown, for any number of players *)
(* and countdown threads and any length of the countdown.                  *)
(***************************************************************************)
EXTENDS Countdown, TLAPS

\* IInv holds in the initial state.
LEMMA InitIInv == Init => IInv
<1> SUFFICES ASSUME Init PROVE IInv
  OBVIOUS
<1> USE SecondsAssumption, ThreadAssumption DEF Init
<1>1. state \in [Players -> {"absent", "Lobby", "Ready"}]
  OBVIOUS
<1>2. shown \in Message
  BY DEF Other, Message
<1>3. /\ pc \in [Players \cup Timers -> HandlerSteps \cup TimerSteps]
      /\ \A h \in Players : pc[h] \in HandlerSteps
      /\ \A k \in Timers : pc[k] \in TimerSteps
  BY DEF HandlerSteps, TimerSteps
<1>4. remaining \in [Timers -> 0 .. CountdownSeconds]
  OBVIOUS
<1>5. TypeOK
  BY <1>1, <1>2, <1>3, <1>4 DEF TypeOK
<1> QED
  BY <1>5 DEF IInv, SecondsLeft, Holds, FlagOwned

\* A step from a state of IInv leaves every variable in its type.
LEMMA TypeStep ==
  ASSUME TypeOK, SecondsLeft, Holds, [Next]_vars
  PROVE  TypeOK'
<1> USE SecondsAssumption, ThreadAssumption DEF TypeOK, HandlerSteps,
      TimerSteps, From, Goto, local, thread, SecondsLeft, Holds, Message
<1>1. ASSUME NEW h \in Players, Join(h) PROVE TypeOK'
  BY <1>1 DEF Join
<1>2. ASSUME NEW h \in Players, Leave(h) PROVE TypeOK'
  BY <1>2 DEF Leave
<1>3. ASSUME NEW h \in Players, NEW b \in BOOLEAN, ReadyRequest(h, b)
      PROVE  TypeOK'
  BY <1>3 DEF ReadyRequest
<1>4. ASSUME NEW h \in Players, CheckFlag(h) PROVE TypeOK'
  BY <1>4 DEF CheckFlag
<1>5. ASSUME NEW h \in Players, CountPlayers(h) PROVE TypeOK'
  <2>1. pc' \in [Players \cup Timers -> HandlerSteps \cup TimerSteps] /\ pc'[h] \in HandlerSteps
    BY <1>5 DEF CountPlayers
  <2>2. Present \in SUBSET Players
    BY DEF Present
  <2>3. todo' \in [Players -> SUBSET Players] /\ ready' \in [Players -> BOOLEAN]
    <3>1. CASE TooFew(Present)
      BY <1>5, <3>1 DEF CountPlayers
    <3>2. CASE ~TooFew(Present)
      <4>1. todo' = [todo EXCEPT ![h] = Present] /\ ready' = [ready EXCEPT ![h] = TRUE]
        BY <1>5, <3>2 DEF CountPlayers
      <4> QED
        BY <2>2, <4>1
    <3> QED
      BY <3>1, <3>2
  <2>4. \A th \in Players \cup Timers : th # h => pc'[th] = pc[th]
    BY <1>5 DEF CountPlayers
  <2> QED
    BY <1>5, <2>1, <2>3, <2>4 DEF CountPlayers
<1>6. ASSUME NEW h \in Players, NEW p \in Players, ScanOne(h, p) PROVE TypeOK'
  BY <1>6 DEF ScanOne, IsReady
<1>7. ASSUME NEW h \in Players, ScanDone(h) PROVE TypeOK'
  BY <1>7 DEF ScanDone
<1>8. ASSUME NEW h \in Players, ConsiderStop(h) PROVE TypeOK'
  BY <1>8 DEF ConsiderStop
<1>9. ASSUME NEW h \in Players, CompareExchange(h) PROVE TypeOK'
  BY <1>9 DEF CompareExchange
<1>10. ASSUME NEW h \in Players, TestOld(h) \/ DetachOld(h) \/ Assign(h)
      PROVE  TypeOK'
  <2>1. CASE TestOld(h)
    BY <2>1 DEF TestOld
  <2>2. CASE DetachOld(h)
    <3>1. CASE handle \in joinable
      BY <2>2, <3>1 DEF DetachOld, Misuse
    <3>2. CASE ~(handle \in joinable)
      BY <2>2, <3>2 DEF DetachOld, Misuse
    <3> QED
      BY <3>1, <3>2
  <2>3. CASE Assign(h)
    <3>1. CASE handle \in joinable
      BY <2>3, <3>1 DEF Assign, Misuse
    <3>2. CASE ~(handle \in joinable)
      <4>1. held[h] \in Timers
        BY <2>3 DEF Assign
      <4>2. /\ handle' = held[h] /\ joinable' = joinable \cup {held[h]}
            /\ held' = [held EXCEPT ![h] = Null] /\ pc' = [pc EXCEPT ![h] = "detach"]
            /\ UNCHANGED <<crashed, state, flag, want, todo, ready, stopped,
                           remaining, shown, steady>>
        BY <2>3, <3>2 DEF Assign
      <4> QED
        BY <4>1, <4>2
    <3> QED
      BY <3>1, <3>2
  <2> QED
    BY <1>10, <2>1, <2>2, <2>3
<1>11. ASSUME NEW h \in Players, NEW k \in Timers, Create(h, k)
      PROVE  TypeOK'
  BY <1>11 DEF Create
<1>12. ASSUME NEW h \in Players, Detach(h) PROVE TypeOK'
  <2>1. CASE handle \in joinable
    BY <1>12, <2>1 DEF Detach, Misuse
  <2>2. CASE ~(handle \in joinable)
    BY <1>12, <2>2 DEF Detach, Misuse
  <2> QED
    BY <2>1, <2>2
<1>13. ASSUME NEW h \in Players, ReadFlag(h) PROVE TypeOK'
  BY <1>13 DEF ReadFlag
<1>14. ASSUME NEW h \in Players, ClearFlag(h) PROVE TypeOK'
  BY <1>14 DEF ClearFlag
<1>15. ASSUME NEW h \in Players, TestJoinable(h) PROVE TypeOK'
  BY <1>15 DEF TestJoinable
<1>16. ASSUME NEW h \in Players, CallJoin(h) PROVE TypeOK'
  <2>1. CASE handle \in joinable
    BY <1>16, <2>1 DEF CallJoin, Misuse
  <2>2. CASE ~(handle \in joinable)
    BY <1>16, <2>2 DEF CallJoin, Misuse
  <2> QED
    BY <2>1, <2>2
<1>17. ASSUME NEW h \in Players, JoinReturns(h) PROVE TypeOK'
  <2>1. CASE handle = held[h]
    BY <1>17, <2>1 DEF JoinReturns, Misuse
  <2>2. CASE ~(handle = held[h])
    BY <1>17, <2>2 DEF JoinReturns, Misuse
  <2> QED
    BY <2>1, <2>2
<1>18. ASSUME NEW h \in Players, ResetHandle(h) PROVE TypeOK'
  <2>1. CASE handle \in joinable
    BY <1>18, <2>1 DEF ResetHandle, Misuse
  <2>2. CASE ~(handle \in joinable)
    BY <1>18, <2>2 DEF ResetHandle, Misuse
  <2> QED
    BY <2>1, <2>2
<1>19. ASSUME NEW h \in Players, BroadcastStop(h) PROVE TypeOK'
  BY <1>19 DEF BroadcastStop, Other
<1>20. ASSUME NEW k \in Timers, Loop(k) PROVE TypeOK'
  BY <1>20 DEF Loop, LoopGoesOn
<1>21. ASSUME NEW k \in Timers, BroadcastTick(k) PROVE TypeOK'
  BY <1>21 DEF BroadcastTick, SecondShown, Tick
<1>22. ASSUME NEW k \in Timers, Sleep(k) PROVE TypeOK'
  BY <1>22 DEF Sleep, Elapsed
<1>23. ASSUME NEW k \in Timers, Final(k) PROVE TypeOK'
  BY <1>23 DEF Final
<1>24. ASSUME NEW k \in Timers, BroadcastStartGame(k) PROVE TypeOK'
  BY <1>24 DEF BroadcastStartGame, Other
<1>25. ASSUME NEW k \in Timers, FlagReset(k) PROVE TypeOK'
  <2>1. remaining' \in [Timers -> 0 .. CountdownSeconds]
    BY <1>25 DEF FlagReset
  <2> QED
    BY <1>25, <2>1 DEF FlagReset
<1>26. CASE UNCHANGED vars
  BY <1>26 DEF vars
<1> HIDE DEF TypeOK, HandlerSteps, TimerSteps, From, Goto, local, thread,
      SecondsLeft, Holds, Message
<1> QED
  BY <1>1, <1>2, <1>3, <1>4, <1>5, <1>6, <1>7, <1>8, <1>9, <1>10, <1>11,
     <1>12, <1>13, <1>14, <1>15, <1>16, <1>17, <1>18, <1>19, <1>20, <1>21,
     <1>22, <1>23, <1>24, <1>25, <1>26 DEF Next, Handler, Timer

\* A step keeps seconds left in the loop of a countdown thread.
LEMMA SecondsStep ==
  ASSUME TypeOK, SecondsLeft, [Next]_vars
  PROVE  SecondsLeft'
<1> USE SecondsAssumption, ThreadAssumption DEF TypeOK, HandlerSteps,
      TimerSteps, From, Goto, local, thread, SecondsLeft
<1>1. ASSUME NEW h \in Players, Join(h) PROVE SecondsLeft'
  BY <1>1 DEF Join
<1>2. ASSUME NEW h \in Players, Leave(h) PROVE SecondsLeft'
  BY <1>2 DEF Leave
<1>3. ASSUME NEW h \in Players, NEW b \in BOOLEAN, ReadyRequest(h, b)
      PROVE  SecondsLeft'
  BY <1>3 DEF ReadyRequest
<1>4. ASSUME NEW h \in Players, CheckFlag(h) PROVE SecondsLeft'
  BY <1>4 DEF CheckFlag
<1>5. ASSUME NEW h \in Players, CountPlayers(h) PROVE SecondsLeft'
  BY <1>5 DEF CountPlayers, Present
<1>6. ASSUME NEW h \in Players, NEW p \in Players, ScanOne(h, p)
      PROVE  SecondsLeft'
  BY <1>6 DEF ScanOne, IsReady
<1>7. ASSUME NEW h \in Players, ScanDone(h) PROVE SecondsLeft'
  BY <1>7 DEF ScanDone
<1>8. ASSUME NEW h \in Players, ConsiderStop(h) PROVE SecondsLeft'
  BY <1>8 DEF ConsiderStop
<1>9. ASSUME NEW h \in Players, CompareExchange(h) PROVE SecondsLeft'
  BY <1>9 DEF CompareExchange
<1>10. ASSUME NEW h \in Players, TestOld(h) \/ DetachOld(h) \/ Assign(h)
      PROVE  SecondsLeft'
  <2>1. CASE TestOld(h)
    BY <2>1 DEF TestOld
  <2>2. CASE DetachOld(h)
    BY <2>2 DEF DetachOld, Misuse
  <2>3. CASE Assign(h)
    BY <2>3 DEF Assign, Misuse
  <2> QED
    BY <1>10, <2>1, <2>2, <2>3
<1>11. ASSUME NEW h \in Players, NEW k \in Timers, Create(h, k)
      PROVE  SecondsLeft'
  BY <1>11 DEF Create
<1>12. ASSUME NEW h \in Players, Detach(h) PROVE SecondsLeft'
  BY <1>12 DEF Detach, Misuse
<1>13. ASSUME NEW h \in Players, ReadFlag(h) PROVE SecondsLeft'
  BY <1>13 DEF ReadFlag
<1>14. ASSUME NEW h \in Players, ClearFlag(h) PROVE SecondsLeft'
  BY <1>14 DEF ClearFlag
<1>15. ASSUME NEW h \in Players, TestJoinable(h) PROVE SecondsLeft'
  BY <1>15 DEF TestJoinable
<1>16. ASSUME NEW h \in Players, CallJoin(h) PROVE SecondsLeft'
  BY <1>16 DEF CallJoin, Misuse
<1>17. ASSUME NEW h \in Players, JoinReturns(h) PROVE SecondsLeft'
  BY <1>17 DEF JoinReturns, Misuse
<1>18. ASSUME NEW h \in Players, ResetHandle(h) PROVE SecondsLeft'
  BY <1>18 DEF ResetHandle, Misuse
<1>19. ASSUME NEW h \in Players, BroadcastStop(h) PROVE SecondsLeft'
  BY <1>19 DEF BroadcastStop, Other
<1>20. ASSUME NEW k \in Timers, Loop(k) PROVE SecondsLeft'
  BY <1>20 DEF Loop, LoopGoesOn
<1>21. ASSUME NEW k \in Timers, BroadcastTick(k) PROVE SecondsLeft'
  BY <1>21 DEF BroadcastTick, SecondShown, Tick
<1>22. ASSUME NEW k \in Timers, Sleep(k) PROVE SecondsLeft'
  BY <1>22 DEF Sleep, Elapsed
<1>23. ASSUME NEW k \in Timers, Final(k) PROVE SecondsLeft'
  BY <1>23 DEF Final
<1>24. ASSUME NEW k \in Timers, BroadcastStartGame(k) PROVE SecondsLeft'
  BY <1>24 DEF BroadcastStartGame, Other
<1>25. ASSUME NEW k \in Timers, FlagReset(k) PROVE SecondsLeft'
  BY <1>25 DEF FlagReset
<1>26. CASE UNCHANGED vars
  BY <1>26 DEF vars
<1> HIDE DEF TypeOK, HandlerSteps, TimerSteps, From, Goto, local, thread,
      SecondsLeft
<1> QED
  BY <1>1, <1>2, <1>3, <1>4, <1>5, <1>6, <1>7, <1>8, <1>9, <1>10, <1>11,
     <1>12, <1>13, <1>14, <1>15, <1>16, <1>17, <1>18, <1>19, <1>20, <1>21,
     <1>22, <1>23, <1>24, <1>25, <1>26 DEF Next, Handler, Timer

\* A step keeps what a handler knows of the thread that it has made or waits for.
LEMMA HoldsStep ==
  ASSUME TypeOK, Holds, [Next]_vars
  PROVE  Holds'
<1> USE SecondsAssumption, ThreadAssumption DEF TypeOK, HandlerSteps,
      TimerSteps, From, Goto, local, thread, Holds
<1>1. ASSUME NEW h \in Players, Join(h) PROVE Holds'
  BY <1>1 DEF Join
<1>2. ASSUME NEW h \in Players, Leave(h) PROVE Holds'
  BY <1>2 DEF Leave
<1>3. ASSUME NEW h \in Players, NEW b \in BOOLEAN, ReadyRequest(h, b)
      PROVE  Holds'
  BY <1>3 DEF ReadyRequest
<1>4. ASSUME NEW h \in Players, CheckFlag(h) PROVE Holds'
  BY <1>4 DEF CheckFlag
<1>5. ASSUME NEW h \in Players, CountPlayers(h) PROVE Holds'
  BY <1>5 DEF CountPlayers, Present
<1>6. ASSUME NEW h \in Players, NEW p \in Players, ScanOne(h, p)
      PROVE  Holds'
  BY <1>6 DEF ScanOne, IsReady
<1>7. ASSUME NEW h \in Players, ScanDone(h) PROVE Holds'
  BY <1>7 DEF ScanDone
<1>8. ASSUME NEW h \in Players, ConsiderStop(h) PROVE Holds'
  BY <1>8 DEF ConsiderStop
<1>9. ASSUME NEW h \in Players, CompareExchange(h) PROVE Holds'
  BY <1>9 DEF CompareExchange
<1>10. ASSUME NEW h \in Players, TestOld(h) \/ DetachOld(h) \/ Assign(h)
      PROVE  Holds'
  <2>1. CASE TestOld(h)
    BY <2>1 DEF TestOld
  <2>2. CASE DetachOld(h)
    BY <2>2 DEF DetachOld, Misuse
  <2>3. CASE Assign(h)
    BY <2>3 DEF Assign, Misuse
  <2> QED
    BY <1>10, <2>1, <2>2, <2>3
<1>11. ASSUME NEW h \in Players, NEW k \in Timers, Create(h, k)
      PROVE  Holds'
  BY <1>11 DEF Create
<1>12. ASSUME NEW h \in Players, Detach(h) PROVE Holds'
  BY <1>12 DEF Detach, Misuse
<1>13. ASSUME NEW h \in Players, ReadFlag(h) PROVE Holds'
  BY <1>13 DEF ReadFlag
<1>14. ASSUME NEW h \in Players, ClearFlag(h) PROVE Holds'
  BY <1>14 DEF ClearFlag
<1>15. ASSUME NEW h \in Players, TestJoinable(h) PROVE Holds'
  BY <1>15 DEF TestJoinable
<1>16. ASSUME NEW h \in Players, CallJoin(h) PROVE Holds'
  BY <1>16 DEF CallJoin, Misuse
<1>17. ASSUME NEW h \in Players, JoinReturns(h) PROVE Holds'
  BY <1>17 DEF JoinReturns, Misuse
<1>18. ASSUME NEW h \in Players, ResetHandle(h) PROVE Holds'
  BY <1>18 DEF ResetHandle, Misuse
<1>19. ASSUME NEW h \in Players, BroadcastStop(h) PROVE Holds'
  BY <1>19 DEF BroadcastStop, Other
<1>20. ASSUME NEW k \in Timers, Loop(k) PROVE Holds'
  BY <1>20 DEF Loop, LoopGoesOn
<1>21. ASSUME NEW k \in Timers, BroadcastTick(k) PROVE Holds'
  BY <1>21 DEF BroadcastTick, SecondShown, Tick
<1>22. ASSUME NEW k \in Timers, Sleep(k) PROVE Holds'
  BY <1>22 DEF Sleep, Elapsed
<1>23. ASSUME NEW k \in Timers, Final(k) PROVE Holds'
  BY <1>23 DEF Final
<1>24. ASSUME NEW k \in Timers, BroadcastStartGame(k) PROVE Holds'
  BY <1>24 DEF BroadcastStartGame, Other
<1>25. ASSUME NEW k \in Timers, FlagReset(k) PROVE Holds'
  BY <1>25 DEF FlagReset
<1>26. CASE UNCHANGED vars
  BY <1>26 DEF vars
<1> HIDE DEF TypeOK, HandlerSteps, TimerSteps, From, Goto, local, thread,
      Holds
<1> QED
  BY <1>1, <1>2, <1>3, <1>4, <1>5, <1>6, <1>7, <1>8, <1>9, <1>10, <1>11,
     <1>12, <1>13, <1>14, <1>15, <1>16, <1>17, <1>18, <1>19, <1>20, <1>21,
     <1>22, <1>23, <1>24, <1>25, <1>26 DEF Next, Handler, Timer

\* A step that leaves the flag set leaves a thread that will reset it.
LEMMA FlagStep ==
  ASSUME TypeOK, FlagOwned, [Next]_vars
  PROVE  FlagOwned'
<1> USE SecondsAssumption, ThreadAssumption DEF TypeOK, HandlerSteps,
      TimerSteps, From, Goto, local, thread, FlagOwned, Starting, Counting
<1>1. ASSUME NEW h \in Players, Join(h) PROVE FlagOwned'
  BY <1>1 DEF Join
<1>2. ASSUME NEW h \in Players, Leave(h) PROVE FlagOwned'
  BY <1>2 DEF Leave
<1>3. ASSUME NEW h \in Players, NEW b \in BOOLEAN, ReadyRequest(h, b)
      PROVE  FlagOwned'
  BY <1>3 DEF ReadyRequest
<1>4. ASSUME NEW h \in Players, CheckFlag(h) PROVE FlagOwned'
  BY <1>4 DEF CheckFlag
<1>5. ASSUME NEW h \in Players, CountPlayers(h) PROVE FlagOwned'
  BY <1>5 DEF CountPlayers, Present
<1>6. ASSUME NEW h \in Players, NEW p \in Players, ScanOne(h, p)
      PROVE  FlagOwned'
  BY <1>6 DEF ScanOne, IsReady
<1>7. ASSUME NEW h \in Players, ScanDone(h) PROVE FlagOwned'
  BY <1>7 DEF ScanDone
<1>8. ASSUME NEW h \in Players, ConsiderStop(h) PROVE FlagOwned'
  BY <1>8 DEF ConsiderStop
<1>9. ASSUME NEW h \in Players, CompareExchange(h) PROVE FlagOwned'
  BY <1>9 DEF CompareExchange
<1>10. ASSUME NEW h \in Players, TestOld(h) \/ DetachOld(h) \/ Assign(h)
      PROVE  FlagOwned'
  <2>1. CASE TestOld(h)
    BY <2>1 DEF TestOld
  <2>2. CASE DetachOld(h)
    BY <2>2 DEF DetachOld, Misuse
  <2>3. CASE Assign(h)
    BY <2>3 DEF Assign, Misuse
  <2> QED
    BY <1>10, <2>1, <2>2, <2>3
<1>11. ASSUME NEW h \in Players, NEW k \in Timers, Create(h, k)
      PROVE  FlagOwned'
  BY <1>11 DEF Create
<1>12. ASSUME NEW h \in Players, Detach(h) PROVE FlagOwned'
  BY <1>12 DEF Detach, Misuse
<1>13. ASSUME NEW h \in Players, ReadFlag(h) PROVE FlagOwned'
  BY <1>13 DEF ReadFlag
<1>14. ASSUME NEW h \in Players, ClearFlag(h) PROVE FlagOwned'
  BY <1>14 DEF ClearFlag
<1>15. ASSUME NEW h \in Players, TestJoinable(h) PROVE FlagOwned'
  BY <1>15 DEF TestJoinable
<1>16. ASSUME NEW h \in Players, CallJoin(h) PROVE FlagOwned'
  BY <1>16 DEF CallJoin, Misuse
<1>17. ASSUME NEW h \in Players, JoinReturns(h) PROVE FlagOwned'
  BY <1>17 DEF JoinReturns, Misuse
<1>18. ASSUME NEW h \in Players, ResetHandle(h) PROVE FlagOwned'
  BY <1>18 DEF ResetHandle, Misuse
<1>19. ASSUME NEW h \in Players, BroadcastStop(h) PROVE FlagOwned'
  BY <1>19 DEF BroadcastStop, Other
<1>20. ASSUME NEW k \in Timers, Loop(k) PROVE FlagOwned'
  BY <1>20 DEF Loop, LoopGoesOn
<1>21. ASSUME NEW k \in Timers, BroadcastTick(k) PROVE FlagOwned'
  BY <1>21 DEF BroadcastTick, SecondShown, Tick
<1>22. ASSUME NEW k \in Timers, Sleep(k) PROVE FlagOwned'
  BY <1>22 DEF Sleep, Elapsed
<1>23. ASSUME NEW k \in Timers, Final(k) PROVE FlagOwned'
  BY <1>23 DEF Final
<1>24. ASSUME NEW k \in Timers, BroadcastStartGame(k) PROVE FlagOwned'
  BY <1>24 DEF BroadcastStartGame, Other
<1>25. ASSUME NEW k \in Timers, FlagReset(k) PROVE FlagOwned'
  BY <1>25 DEF FlagReset
<1>26. CASE UNCHANGED vars
  BY <1>26 DEF vars
<1> HIDE DEF TypeOK, HandlerSteps, TimerSteps, From, Goto, local, thread,
      FlagOwned, Starting, Counting
<1> QED
  BY <1>1, <1>2, <1>3, <1>4, <1>5, <1>6, <1>7, <1>8, <1>9, <1>10, <1>11,
     <1>12, <1>13, <1>14, <1>15, <1>16, <1>17, <1>18, <1>19, <1>20, <1>21,
     <1>22, <1>23, <1>24, <1>25, <1>26 DEF Next, Handler, Timer

\* Once someone has taken readiness back, someone has.
LEMMA SteadyBefore ==
  ASSUME [Next]_vars, steady' PROVE steady
  BY DEF Next, Handler, Timer, vars, Join, Leave, ReadyRequest, CheckFlag,
     CountPlayers, ScanOne, ScanDone, ConsiderStop, CompareExchange, TestOld,
     DetachOld, Create, Assign, Misuse, Detach, ReadFlag, ClearFlag, TestJoinable, CallJoin, JoinReturns,
     ResetHandle, BroadcastStop, Loop, BroadcastTick, Sleep, Final,
     BroadcastStartGame, FlagReset

\* While no one takes readiness back, every step keeps the flag with the one
\* thread that starts or runs the countdown.
LEMMA SteadyStep ==
  ASSUME TypeOK, OnlyStarts, OwnersFlagged, OneCountdown, [Next]_vars, steady'
  PROVE  (OnlyStarts /\ OwnersFlagged /\ OneCountdown)'
<1> USE SecondsAssumption, ThreadAssumption DEF TypeOK, HandlerSteps,
      TimerSteps, From, Goto, local, thread, OnlyStarts, OwnersFlagged,
      OneCountdown, OneThread, Starting, Counting
<1>1. ASSUME NEW h \in Players, Join(h)
      PROVE  (OnlyStarts /\ OwnersFlagged /\ OneCountdown)'
  BY <1>1 DEF Join
<1>2. ASSUME NEW h \in Players, Leave(h)
      PROVE  (OnlyStarts /\ OwnersFlagged /\ OneCountdown)'
  BY <1>2 DEF Leave
<1>3. ASSUME NEW h \in Players, NEW b \in BOOLEAN, ReadyRequest(h, b)
      PROVE  (OnlyStarts /\ OwnersFlagged /\ OneCountdown)'
  BY <1>3 DEF ReadyRequest
<1>4. ASSUME NEW h \in Players, CheckFlag(h)
      PROVE  (OnlyStarts /\ OwnersFlagged /\ OneCountdown)'
  BY <1>4 DEF CheckFlag
<1>5. ASSUME NEW h \in Players, CountPlayers(h)
      PROVE  (OnlyStarts /\ OwnersFlagged /\ OneCountdown)'
  BY <1>5 DEF CountPlayers, Present
<1>6. ASSUME NEW h \in Players, NEW p \in Players, ScanOne(h, p)
      PROVE  (OnlyStarts /\ OwnersFlagged /\ OneCountdown)'
  BY <1>6 DEF ScanOne, IsReady
<1>7. ASSUME NEW h \in Players, ScanDone(h)
      PROVE  (OnlyStarts /\ OwnersFlagged /\ OneCountdown)'
  BY <1>7 DEF ScanDone
<1>8. ASSUME NEW h \in Players, ConsiderStop(h)
      PROVE  (OnlyStarts /\ OwnersFlagged /\ OneCountdown)'
  BY <1>8 DEF ConsiderStop
<1>9. ASSUME NEW h \in Players, CompareExchange(h)
      PROVE  (OnlyStarts /\ OwnersFlagged /\ OneCountdown)'
  BY <1>9 DEF CompareExchange
<1>10. ASSUME NEW h \in Players, TestOld(h) \/ DetachOld(h) \/ Assign(h)
      PROVE  (OnlyStarts /\ OwnersFlagged /\ OneCountdown)'
  <2>1. CASE TestOld(h)
    BY <2>1 DEF TestOld
  <2>2. CASE DetachOld(h)
    BY <2>2 DEF DetachOld, Misuse
  <2>3. CASE Assign(h)
    BY <2>3 DEF Assign, Misuse
  <2> QED
    BY <1>10, <2>1, <2>2, <2>3
<1>11. ASSUME NEW h \in Players, NEW k \in Timers, Create(h, k)
      PROVE  (OnlyStarts /\ OwnersFlagged /\ OneCountdown)'
  BY <1>11 DEF Create
<1>12. ASSUME NEW h \in Players, Detach(h)
      PROVE  (OnlyStarts /\ OwnersFlagged /\ OneCountdown)'
  BY <1>12 DEF Detach, Misuse
<1>13. ASSUME NEW h \in Players, ReadFlag(h)
      PROVE  (OnlyStarts /\ OwnersFlagged /\ OneCountdown)'
  BY <1>13 DEF ReadFlag
<1>14. ASSUME NEW h \in Players, ClearFlag(h)
      PROVE  (OnlyStarts /\ OwnersFlagged /\ OneCountdown)'
  BY <1>14 DEF ClearFlag
<1>15. ASSUME NEW h \in Players, TestJoinable(h)
      PROVE  (OnlyStarts /\ OwnersFlagged /\ OneCountdown)'
  BY <1>15 DEF TestJoinable
<1>16. ASSUME NEW h \in Players, CallJoin(h)
      PROVE  (OnlyStarts /\ OwnersFlagged /\ OneCountdown)'
  BY <1>16 DEF CallJoin, Misuse
<1>17. ASSUME NEW h \in Players, JoinReturns(h)
      PROVE  (OnlyStarts /\ OwnersFlagged /\ OneCountdown)'
  BY <1>17 DEF JoinReturns, Misuse
<1>18. ASSUME NEW h \in Players, ResetHandle(h)
      PROVE  (OnlyStarts /\ OwnersFlagged /\ OneCountdown)'
  BY <1>18 DEF ResetHandle, Misuse
<1>19. ASSUME NEW h \in Players, BroadcastStop(h)
      PROVE  (OnlyStarts /\ OwnersFlagged /\ OneCountdown)'
  BY <1>19 DEF BroadcastStop, Other
<1>20. ASSUME NEW k \in Timers, Loop(k)
      PROVE  (OnlyStarts /\ OwnersFlagged /\ OneCountdown)'
  BY <1>20 DEF Loop, LoopGoesOn
<1>21. ASSUME NEW k \in Timers, BroadcastTick(k)
      PROVE  (OnlyStarts /\ OwnersFlagged /\ OneCountdown)'
  BY <1>21 DEF BroadcastTick, SecondShown, Tick
<1>22. ASSUME NEW k \in Timers, Sleep(k)
      PROVE  (OnlyStarts /\ OwnersFlagged /\ OneCountdown)'
  BY <1>22 DEF Sleep, Elapsed
<1>23. ASSUME NEW k \in Timers, Final(k)
      PROVE  (OnlyStarts /\ OwnersFlagged /\ OneCountdown)'
  BY <1>23 DEF Final
<1>24. ASSUME NEW k \in Timers, BroadcastStartGame(k)
      PROVE  (OnlyStarts /\ OwnersFlagged /\ OneCountdown)'
  BY <1>24 DEF BroadcastStartGame, Other
<1>25. ASSUME NEW k \in Timers, FlagReset(k)
      PROVE  (OnlyStarts /\ OwnersFlagged /\ OneCountdown)'
  BY <1>25 DEF FlagReset
<1>26. CASE UNCHANGED vars
  BY <1>26 DEF vars
<1> HIDE DEF TypeOK, HandlerSteps, TimerSteps, From, Goto, local, thread,
      OnlyStarts, OwnersFlagged, OneCountdown, OneThread, Starting, Counting
<1> QED
  BY <1>1, <1>2, <1>3, <1>4, <1>5, <1>6, <1>7, <1>8, <1>9, <1>10, <1>11,
     <1>12, <1>13, <1>14, <1>15, <1>16, <1>17, <1>18, <1>19, <1>20, <1>21,
     <1>22, <1>23, <1>24, <1>25, <1>26 DEF Next, Handler, Timer

\* While no one takes readiness back, every step keeps what is shown in line
\* with the place the countdown is at.
LEMMA ShownStep ==
  ASSUME TypeOK, SecondsLeft, OnlyStarts, OwnersFlagged, OneCountdown,
         ShownExact, [Next]_vars, steady'
  PROVE  ShownExact'
<1> USE SecondsAssumption, ThreadAssumption DEF TypeOK, HandlerSteps,
      TimerSteps, From, Goto, local, thread, SecondsLeft, OnlyStarts,
      OwnersFlagged, OneCountdown, OneThread, ShownExact, BeforeTick, Starting,
      Counting, Message, Tick, Other
<1>1. ASSUME NEW h \in Players, Join(h) PROVE ShownExact'
  BY <1>1 DEF Join
<1>2. ASSUME NEW h \in Players, Leave(h) PROVE ShownExact'
  BY <1>2 DEF Leave
<1>3. ASSUME NEW h \in Players, NEW b \in BOOLEAN, ReadyRequest(h, b)
      PROVE  ShownExact'
  BY <1>3 DEF ReadyRequest
<1>4. ASSUME NEW h \in Players, CheckFlag(h) PROVE ShownExact'
  BY <1>4 DEF CheckFlag
<1>5. ASSUME NEW h \in Players, CountPlayers(h) PROVE ShownExact'
  BY <1>5 DEF CountPlayers, Present
<1>6. ASSUME NEW h \in Players, NEW p \in Players, ScanOne(h, p)
      PROVE  ShownExact'
  BY <1>6 DEF ScanOne, IsReady
<1>7. ASSUME NEW h \in Players, ScanDone(h) PROVE ShownExact'
  BY <1>7 DEF ScanDone
<1>8. ASSUME NEW h \in Players, ConsiderStop(h) PROVE ShownExact'
  BY <1>8 DEF ConsiderStop
<1>9. ASSUME NEW h \in Players, CompareExchange(h) PROVE ShownExact'
  BY <1>9 DEF CompareExchange
<1>10. ASSUME NEW h \in Players, TestOld(h) \/ DetachOld(h) \/ Assign(h)
      PROVE  ShownExact'
  <2>1. CASE TestOld(h)
    BY <2>1 DEF TestOld
  <2>2. CASE DetachOld(h)
    BY <2>2 DEF DetachOld, Misuse
  <2>3. CASE Assign(h)
    BY <2>3 DEF Assign, Misuse
  <2> QED
    BY <1>10, <2>1, <2>2, <2>3
<1>11. ASSUME NEW h \in Players, NEW k \in Timers, Create(h, k)
      PROVE  ShownExact'
  BY <1>11 DEF Create
<1>12. ASSUME NEW h \in Players, Detach(h) PROVE ShownExact'
  BY <1>12 DEF Detach, Misuse
<1>13. ASSUME NEW h \in Players, ReadFlag(h) PROVE ShownExact'
  BY <1>13 DEF ReadFlag
<1>14. ASSUME NEW h \in Players, ClearFlag(h) PROVE ShownExact'
  BY <1>14 DEF ClearFlag
<1>15. ASSUME NEW h \in Players, TestJoinable(h) PROVE ShownExact'
  BY <1>15 DEF TestJoinable
<1>16. ASSUME NEW h \in Players, CallJoin(h) PROVE ShownExact'
  BY <1>16 DEF CallJoin, Misuse
<1>17. ASSUME NEW h \in Players, JoinReturns(h) PROVE ShownExact'
  BY <1>17 DEF JoinReturns, Misuse
<1>18. ASSUME NEW h \in Players, ResetHandle(h) PROVE ShownExact'
  BY <1>18 DEF ResetHandle, Misuse
<1>19. ASSUME NEW h \in Players, BroadcastStop(h) PROVE ShownExact'
  BY <1>19 DEF BroadcastStop, Other
<1>20. ASSUME NEW k \in Timers, Loop(k) PROVE ShownExact'
  BY <1>20 DEF Loop, LoopGoesOn
<1>21. ASSUME NEW k \in Timers, BroadcastTick(k) PROVE ShownExact'
  BY <1>21 DEF BroadcastTick, SecondShown, Tick
<1>22. ASSUME NEW k \in Timers, Sleep(k) PROVE ShownExact'
  BY <1>22 DEF Sleep, Elapsed
<1>23. ASSUME NEW k \in Timers, Final(k) PROVE ShownExact'
  BY <1>23 DEF Final
<1>24. ASSUME NEW k \in Timers, BroadcastStartGame(k) PROVE ShownExact'
  BY <1>24 DEF BroadcastStartGame, Other
<1>25. ASSUME NEW k \in Timers, FlagReset(k) PROVE ShownExact'
  BY <1>25 DEF FlagReset
<1>26. CASE UNCHANGED vars
  BY <1>26 DEF vars
<1> HIDE DEF TypeOK, HandlerSteps, TimerSteps, From, Goto, local, thread,
      SecondsLeft, OnlyStarts, OwnersFlagged, OneCountdown, OneThread,
      ShownExact, BeforeTick, Starting, Counting, Message, Tick, Other
<1> QED
  BY <1>1, <1>2, <1>3, <1>4, <1>5, <1>6, <1>7, <1>8, <1>9, <1>10, <1>11,
     <1>12, <1>13, <1>14, <1>15, <1>16, <1>17, <1>18, <1>19, <1>20, <1>21,
     <1>22, <1>23, <1>24, <1>25, <1>26 DEF Next, Handler, Timer

\* IInv and what holds until someone takes readiness back hold at the start.
LEMMA InitSteady == Init => SteadyInv
  BY InitIInv, SecondsAssumption, ThreadAssumption
     DEF Init, SteadyInv, Calm, OnlyStarts, OwnersFlagged, OneCountdown,
         OneThread, ShownExact, Starting, Counting, Other

\* Every step of the specification keeps SteadyInv.
LEMMA NextSteady == ASSUME SteadyInv, [Next]_vars PROVE SteadyInv'
<1>1. IInv'
  BY TypeStep, SecondsStep, HoldsStep, FlagStep DEF SteadyInv, IInv
<1>2. steady' => Calm'
  BY SteadyBefore, SteadyStep, ShownStep DEF SteadyInv, IInv, Calm
<1> QED
  BY <1>1, <1>2 DEF SteadyInv

\* SteadyInv holds in every state.
LEMMA SteadyInvariant == Spec => []SteadyInv
  BY InitSteady, NextSteady, PTL DEF Spec

\* In every behaviour all variables keep their types.
THEOREM TypeCorrect == Spec => []TypeOK
<1>1. SteadyInv => TypeOK
  BY DEF SteadyInv, IInv
<1> QED
  BY <1>1, SteadyInvariant, PTL

\* Whatever requests come and however the threads interleave, a flag that is
\* set has a thread that will reset it.
THEOREM FlagNeverStranded == Spec => []FlagOwned
<1>1. SteadyInv => FlagOwned
  BY DEF SteadyInv, IInv
<1> QED
  BY <1>1, SteadyInvariant, PTL

\* Until someone takes readiness back, there is one countdown at a time, and it
\* starts the game only when it has run down.
THEOREM OneAtATime == Spec => [](AtMostOneCountdown /\ (steady => StartsAtZero))
<1>1. SteadyInv => AtMostOneCountdown /\ (steady => StartsAtZero)
  BY DEF SteadyInv, Calm, ShownExact, StartsAtZero, AtMostOneCountdown
<1> QED
  BY <1>1, SteadyInvariant, PTL

\* Until someone takes readiness back, what a step shows is the next second of
\* the countdown, or the start of the game.
LEMMA NextShown ==
  ASSUME SteadyInv, [Next]_vars, steady, shown' # shown
  PROVE  Descends(shown, shown')
<1>1. ASSUME NEW k \in Timers, BroadcastTick(k) PROVE Descends(shown, shown')
  BY <1>1, SecondsAssumption
     DEF BroadcastTick, SecondShown, From, Descends, SteadyInv, Calm, IInv,
         TypeOK, SecondsLeft, ShownExact, BeforeTick, Message, Tick
<1>2. ASSUME NEW k \in Timers, BroadcastStartGame(k)
      PROVE  Descends(shown, shown')
  BY <1>2 DEF BroadcastStartGame, From, Descends, SteadyInv, Calm, ShownExact
<1>3. \A h \in Players : ~BroadcastStop(h)
  BY DEF BroadcastStop, From, SteadyInv, Calm, OnlyStarts
<1> QED
  BY <1>1, <1>2, <1>3
     DEF Next, Handler, Timer, vars, local, Join, Leave, ReadyRequest,
         CheckFlag, CountPlayers, ScanDone, ConsiderStop, ScanOne,
         CompareExchange, TestOld, DetachOld, Create, Assign, Detach, ReadFlag, ClearFlag,
         TestJoinable, CallJoin, JoinReturns, ResetHandle, Loop, Sleep, Final,
         FlagReset

\* Until someone takes readiness back, the clients are shown every second of
\* every countdown, in order, and then the start of the game.
THEOREM ShownInOrder == Spec => ShownDescends
<1>1. SteadyInv /\ [Next]_vars
        => [steady /\ shown' # shown => Descends(shown, shown')]_vars
  BY NextShown
<1> QED
  BY <1>1, SteadyInvariant, PTL DEF Spec, ShownDescends
==============================================================================
