-------------------------- MODULE LobbyServerProofs --------------------------
(***************************************************************************)
(* Proofs about the lobby of the login server, for any number of           *)
(* connections, countdown threads, accounts and tokens.                    *)
(*                                                                         *)
(* First the session table by itself, in terms of LobbySessions: IInv for  *)
(* any clients, and what is added to it while connections log in once,     *)
(* accounts are used once or no one asks for the list.  Each layer of the  *)
(* invariant has a lemma that every step preserves it, with one case for   *)
(* each action.                                                            *)
(*                                                                         *)
(* Then the whole server: each of its steps is a step of LobbySessions     *)
(* and, with the table as ServerInv describes it, a step of Countdown, so  *)
(* that both keep their promises; and what the clients are sent follows    *)
(* what is announced.                                                      *)
(***************************************************************************)
EXTENDS LobbyServer, TLAPS

------------------------------------------------------------------------------
(* The session table.                                                       *)

\* IInv holds in the initial state.
LEMMA InitIInv == Init => IInv
  BY NoneAssumption, ThreadAssumption
     DEF Init, IInv, TypeOK, ReadersExact, JobOfStep, JoinTokensFresh,
         SocketIndexSound, PlayerIndexSound, TargetsLive, Live, Threads, Job,
         NoJob, Steps, Broadcasting, Kinds

\* Writing the state of a session changes nothing else in the table.
LEMMA StateWrite ==
  ASSUME PlayerSessionMap \in [Tokens -> Session \cup {None}],
         NEW t \in Live, NEW state \in PlayerStates,
         PlayerSessionMap' = [PlayerSessionMap EXCEPT ![t].CurrentState = state]
  PROVE  /\ PlayerSessionMap' \in [Tokens -> Session \cup {None}]
         /\ Live' = Live
         /\ \A x \in Tokens :
              /\ PlayerSessionMap'[x] = None <=> PlayerSessionMap[x] = None
              /\ PlayerSessionMap'[x].Socket = PlayerSessionMap[x].Socket
              /\ PlayerSessionMap'[x].DbId = PlayerSessionMap[x].DbId
<1> DEFINE s == PlayerSessionMap[t]
           n == [s EXCEPT !.CurrentState = state]
<1>1. t \in Tokens /\ s \in Session
  BY DEF Live
<1>2. n \in Session /\ n.Socket = s.Socket /\ n.DbId = s.DbId
  BY <1>1 DEF Session
<1>3. \A x \in Tokens :
        PlayerSessionMap'[x] = IF x = t THEN n ELSE PlayerSessionMap[x]
  BY <1>1
<1>4. n # None /\ s # None
  BY <1>1, <1>2, NoneAssumption
<1> HIDE DEF n
<1>5. PlayerSessionMap' \in [Tokens -> Session \cup {None}]
  BY <1>1, <1>2, <1>3
<1>6. \A x \in Tokens :
        /\ PlayerSessionMap'[x] = None <=> PlayerSessionMap[x] = None
        /\ PlayerSessionMap'[x].Socket = PlayerSessionMap[x].Socket
        /\ PlayerSessionMap'[x].DbId = PlayerSessionMap[x].DbId
  BY <1>1, <1>2, <1>3, <1>4
<1>7. Live' = Live
  BY <1>6 DEF Live
<1> QED
  BY <1>5, <1>6, <1>7

\* A step from a state of IInv leaves every variable in its type.
LEMMA TypeStep ==
  ASSUME IInv, [Next]_vars PROVE TypeOK'
<1> USE NoneAssumption, ThreadAssumption DEF IInv, TypeOK, Threads, Job,
      NoJob, Kinds, Steps, Session, PlayerStates, Goto, maps, mutex
<1>1. ASSUME NEW c \in Conns, Accept(c) PROVE TypeOK'
  BY <1>1 DEF Accept
<1>2. ASSUME NEW c \in Conns, Enqueue(c) PROVE TypeOK'
  BY <1>2 DEF Enqueue
<1>3. ASSUME NEW c \in Conns, Insert(c) PROVE TypeOK'
  BY <1>3 DEF Insert, LockExclusive, NoReaders, StoreSession, IndexPlayer,
     JobOfStep, JoinTokensFresh
<1>4. ASSUME NEW c \in Conns, NEW u \in Users, NEW t \in Tokens,
             LoginRequest(c, u, t)
      PROVE TypeOK'
  BY <1>4 DEF LoginRequest
<1>5. ASSUME NEW c \in Conns, ListRequest(c) PROVE TypeOK'
  BY <1>5 DEF ListRequest, Present, Live
<1>6. ASSUME NEW c \in Conns, ListResponse(c) PROVE TypeOK'
  BY <1>6 DEF ListResponse
<1>7. ASSUME NEW c \in Conns, NEW t \in Tokens, NEW state \in PlayerStates,
             ReadyRequest(c, t, state)
      PROVE TypeOK'
  <2>1. PlayerSessionMap' \in [Tokens -> Session \cup {None}]
    BY <1>7, StateWrite DEF ReadyRequest
  <2>2. readers' \in [Threads -> 0..2]
    BY <1>7 DEF ReadyRequest, LockShared, ReadersExact
  <2>3. PlayerSessionMap[t].DbId \in Users
    BY <1>7 DEF ReadyRequest, Live
  <2>4. job' \in [Threads -> Job]
    BY <1>7, <2>3 DEF ReadyRequest
  <2>5. pc' \in [Threads -> Steps]
    BY <1>7 DEF ReadyRequest
  <2>6. UNCHANGED <<TokenByPlayerIdMap, TokenBySocketMap, waiting, todo, listed,
                    issued, view>>
    BY <1>7 DEF ReadyRequest
  <2> QED
    BY <2>1, <2>2, <2>4, <2>5, <2>6
<1>8. ASSUME NEW c \in Conns, UnknownToken(c) PROVE TypeOK'
  BY <1>8 DEF UnknownToken
<1>9. ASSUME NEW c \in Conns, SkipScan(c) PROVE TypeOK'
  BY <1>9 DEF SkipScan
<1>10. ASSUME NEW c \in Conns, BeginScan(c) PROVE TypeOK'
  BY <1>10 DEF BeginScan, LockShared, ReadersExact
<1>11. ASSUME NEW c \in Conns, EndScan(c) PROVE TypeOK'
  BY <1>11 DEF EndScan, Unlock
<1>12. ASSUME NEW c \in Conns, Return(c) PROVE TypeOK'
  BY <1>12 DEF Return
<1>13. ASSUME NEW c \in Conns, AnnounceStop(c) PROVE TypeOK'
  BY <1>13 DEF AnnounceStop
<1>14. ASSUME NEW c \in Conns, Disconnect(c) PROVE TypeOK'
  BY <1>14 DEF Disconnect
<1>15. ASSUME NEW c \in Conns, Lookup(c) PROVE TypeOK'
  <2>1. CASE TokenBySocketMap[c] = None
    BY <1>15, <2>1 DEF Lookup
  <2>2. CASE TokenBySocketMap[c] # None
    <3> DEFINE leave == [kind |-> "leave", player |-> None,
                         token |-> TokenBySocketMap[c]]
    <3>1. /\ leave \in Job
          /\ leave.kind = "leave" /\ leave.token = TokenBySocketMap[c]
      BY <2>2
    <3>2. /\ pc[c] = "cleanup"
          /\ job' = [job EXCEPT ![c] = leave]
          /\ pc' = [pc EXCEPT ![c] = "erase"]
          /\ UNCHANGED <<maps, mutex, todo, listed, issued, view>>
      BY <1>15, <2>2 DEF Lookup
    <3> HIDE DEF leave
    <3> QED
      BY <2>2, <3>1, <3>2
  <2> QED
    BY <2>1, <2>2
<1>16. ASSUME NEW c \in Conns, Erase(c) PROVE TypeOK'
  BY <1>16 DEF Erase, LockExclusive, NoReaders, EraseSocket, ErasePlayer,
     JobOfStep, SocketIndexSound, Live
<1>17. ASSUME NEW c \in Conns, Close(c) PROVE TypeOK'
  BY <1>17 DEF Close
<1>18. ASSUME NEW k \in Timers, TimerBroadcast(k) PROVE TypeOK'
  BY <1>18 DEF TimerBroadcast
<1>19. ASSUME NEW th \in Threads, BroadcastLock(th) PROVE TypeOK'
  BY <1>19 DEF BroadcastLock, LockShared, Targets, ReadersExact, Live
<1>20. ASSUME NEW th \in Threads, NEW t \in Tokens, Send(th, t) PROVE TypeOK'
  BY <1>20 DEF Send, Shown, TargetsLive, Live, JobOfStep
<1>21. ASSUME NEW th \in Threads, BroadcastDone(th) PROVE TypeOK'
  BY <1>21 DEF BroadcastDone, Unlock, After, JobOfStep, Broadcasting
<1>22. CASE UNCHANGED vars
  BY <1>22 DEF vars
<1> HIDE DEF IInv, TypeOK, Threads, Job, NoJob, Kinds, Steps, Session,
      PlayerStates, Goto, maps, mutex
<1> QED
  BY <1>1, <1>2, <1>3, <1>4, <1>5, <1>6, <1>7, <1>8, <1>9, <1>10, <1>11,
     <1>12, <1>13, <1>14, <1>15, <1>16, <1>17, <1>18, <1>19, <1>20, <1>21,
     <1>22 DEF Next, Handler, Broadcast

\* Every step of the specification keeps IInv.
LEMMA NextIInv ==
  ASSUME IInv, [Next]_vars PROVE IInv'
<1> USE NoneAssumption, ThreadAssumption DEF IInv, TypeOK, Threads, Job,
      NoJob, Kinds, Steps, Session, PlayerStates, Goto, maps, mutex,
      ReadersExact, JobOfStep, JoinTokensFresh, SocketIndexSound,
      PlayerIndexSound, TargetsLive, Live, Broadcasting
<1>0. TypeOK'
  BY TypeStep
<1>1. ASSUME NEW c \in Conns, Accept(c) PROVE IInv'
  BY <1>0, <1>1 DEF Accept
<1>2. ASSUME NEW c \in Conns, Enqueue(c) PROVE IInv'
  BY <1>0, <1>2 DEF Enqueue
<1>3. ASSUME NEW c \in Conns, Insert(c) PROVE IInv'
  BY <1>0, <1>3 DEF Insert, LockExclusive, NoReaders, StoreSession, IndexPlayer
<1>4. ASSUME NEW c \in Conns, NEW u \in Users, NEW t \in Tokens,
             LoginRequest(c, u, t)
      PROVE IInv'
  BY <1>0, <1>4 DEF LoginRequest
<1>5. ASSUME NEW c \in Conns, ListRequest(c) PROVE IInv'
  BY <1>0, <1>5 DEF ListRequest
<1>6. ASSUME NEW c \in Conns, ListResponse(c) PROVE IInv'
  BY <1>0, <1>6 DEF ListResponse
<1>7. ASSUME NEW c \in Conns, NEW t \in Tokens, NEW state \in PlayerStates,
             ReadyRequest(c, t, state)
      PROVE IInv'
  <2> DEFINE j == [kind |-> "state", player |-> PlayerSessionMap[t].DbId,
                   token |-> t]
  <2>1. /\ pc[c] = "recv"
        /\ t \in Live
        /\ readers' = [readers EXCEPT ![c] = @ + 1]
        /\ PlayerSessionMap' = [PlayerSessionMap EXCEPT ![t].CurrentState = state]
        /\ job' = [job EXCEPT ![c] = j]
        /\ pc' = [pc EXCEPT ![c] = "bcast"]
        /\ UNCHANGED <<TokenByPlayerIdMap, TokenBySocketMap, todo, issued>>
    BY <1>7 DEF ReadyRequest, LockShared
  <2>2. /\ Live' = Live
        /\ \A x \in Tokens :
             /\ PlayerSessionMap'[x].Socket = PlayerSessionMap[x].Socket
             /\ PlayerSessionMap'[x].DbId = PlayerSessionMap[x].DbId
    BY <2>1, StateWrite
  <2>3. Live' = Live
    BY <2>2
  <2>4. j.kind = "state" /\ j \in Job
    BY <2>1
  <2> HIDE DEF j, Live
  <2>5. ReadersExact'
    BY <2>1, <2>4
  <2>6. JobOfStep'
    BY <2>1, <2>4
  <2>7. JoinTokensFresh'
    BY <2>1, <2>3, <2>4
  <2>8. SocketIndexSound'
    BY <2>1, <2>2, <2>3
  <2>9. PlayerIndexSound'
    BY <2>1, <2>2, <2>3
  <2>10. TargetsLive'
    BY <2>1, <2>3
  <2> QED
    BY <1>0, <2>5, <2>6, <2>7, <2>8, <2>9, <2>10
<1>8. ASSUME NEW c \in Conns, UnknownToken(c) PROVE IInv'
  BY <1>0, <1>8 DEF UnknownToken
<1>9. ASSUME NEW c \in Conns, SkipScan(c) PROVE IInv'
  BY <1>0, <1>9 DEF SkipScan
<1>10. ASSUME NEW c \in Conns, BeginScan(c) PROVE IInv'
  BY <1>0, <1>10 DEF BeginScan, LockShared
<1>11. ASSUME NEW c \in Conns, EndScan(c) PROVE IInv'
  BY <1>0, <1>11 DEF EndScan, Unlock
<1>12. ASSUME NEW c \in Conns, Return(c) PROVE IInv'
  BY <1>0, <1>12 DEF Return
<1>13. ASSUME NEW c \in Conns, AnnounceStop(c) PROVE IInv'
  <2> DEFINE stop == [NoJob EXCEPT !.kind = "stop"]
  <2>1. stop \in Job /\ stop.kind = "stop"
    OBVIOUS
  <2>2. /\ pc[c] = "decide"
        /\ job' = [job EXCEPT ![c] = stop]
        /\ pc' = [pc EXCEPT ![c] = "bcast"]
        /\ UNCHANGED <<maps, mutex, todo, listed, issued, view>>
    BY <1>13 DEF AnnounceStop
  <2> HIDE DEF stop
  <2>3. ReadersExact' /\ JobOfStep'
    BY <2>1, <2>2
  <2>4. JoinTokensFresh'
    BY <2>1, <2>2
  <2>5. SocketIndexSound' /\ PlayerIndexSound' /\ TargetsLive'
    BY <2>2
  <2> QED
    BY <1>0, <2>3, <2>4, <2>5
<1>14. ASSUME NEW c \in Conns, Disconnect(c) PROVE IInv'
  BY <1>0, <1>14 DEF Disconnect
<1>15. ASSUME NEW c \in Conns, Lookup(c) PROVE IInv'
  <2>1. CASE TokenBySocketMap[c] = None
    <3>1. /\ pc[c] = "cleanup" /\ pc' = [pc EXCEPT ![c] = "close"]
          /\ UNCHANGED <<maps, mutex, job, todo, issued>>
      BY <1>15, <2>1 DEF Lookup
    <3>2. ReadersExact' /\ JobOfStep'
      BY <3>1
    <3>3. JoinTokensFresh' /\ SocketIndexSound' /\ PlayerIndexSound' /\ TargetsLive'
      BY <3>1
    <3> QED
      BY <1>0, <3>2, <3>3
  <2>2. CASE TokenBySocketMap[c] # None
    <3> DEFINE leave == [kind |-> "leave", player |-> None,
                         token |-> TokenBySocketMap[c]]
    <3>1. /\ leave \in Job
          /\ leave.kind = "leave" /\ leave.token = TokenBySocketMap[c]
      BY <2>2
    <3>2. /\ pc[c] = "cleanup"
          /\ job' = [job EXCEPT ![c] = leave]
          /\ pc' = [pc EXCEPT ![c] = "erase"]
          /\ UNCHANGED <<maps, mutex, todo, listed, issued, view>>
      BY <1>15, <2>2 DEF Lookup
    <3> HIDE DEF leave
    <3> QED
      BY <1>0, <2>2, <3>1, <3>2
  <2> QED
    BY <2>1, <2>2
<1>16. ASSUME NEW c \in Conns, Erase(c) PROVE IInv'
  <2> DEFINE t == job[c].token
  <2>1. /\ t \in Live
        /\ t = TokenBySocketMap[c]
        /\ PlayerSessionMap[t].Socket = c
    BY <1>16 DEF Erase
  <2>2. \A th \in Threads : todo[th] = {}
    BY <1>16 DEF Erase, LockExclusive, NoReaders
  <2>3. ReadersExact'
    BY <1>0, <1>16, <2>1 DEF Erase
  <2>4. JobOfStep'
    BY <1>0, <1>16, <2>1 DEF Erase, EraseSocket
  <2>5. JoinTokensFresh'
    BY <1>0, <1>16, <2>1 DEF Erase
  <2>6. SocketIndexSound'
    BY <1>0, <1>16, <2>1 DEF Erase, EraseSocket
  <2>7. PlayerIndexSound'
    BY <1>0, <1>16, <2>1 DEF Erase, ErasePlayer
  <2>8. TargetsLive'
    BY <1>0, <1>16, <2>2 DEF Erase
  <2> QED
    BY <1>0, <2>3, <2>6, <2>7, <2>8, <2>4, <2>5
<1>17. ASSUME NEW c \in Conns, Close(c) PROVE IInv'
  BY <1>0, <1>17 DEF Close
<1>18. ASSUME NEW k \in Timers, TimerBroadcast(k) PROVE IInv'
  BY <1>0, <1>18 DEF TimerBroadcast
<1>19. ASSUME NEW th \in Threads, BroadcastLock(th) PROVE IInv'
  BY <1>0, <1>19 DEF BroadcastLock, LockShared, Targets
<1>20. ASSUME NEW th \in Threads, NEW t \in Tokens, Send(th, t) PROVE IInv'
  BY <1>0, <1>20 DEF Send
<1>21. ASSUME NEW th \in Threads, BroadcastDone(th) PROVE IInv'
  <2>1. /\ pc[th] = "sending" /\ todo[th] = {}
        /\ readers' = [readers EXCEPT ![th] = 0]
        /\ job' = IF job[th].kind = "join" THEN job
                  ELSE [job EXCEPT ![th] = NoJob]
        /\ pc' = [pc EXCEPT ![th] = After(job[th].kind)]
        /\ UNCHANGED <<maps, todo, issued>>
    BY <1>21 DEF BroadcastDone, Unlock
  <2>2. /\ th \in Conns => job[th].kind \in {"join", "leave", "state", "stop"}
        /\ th \in Timers => job[th].kind = "tick"
    BY <2>1
  <2>3. /\ th \in Timers => After(job[th].kind) = "closed"
        /\ job[th].kind = "join" => After(job[th].kind) = "insert"
        /\ th \in Conns /\ job[th].kind # "join" =>
             After(job[th].kind) \in {"close", "check", "recv"}
    BY <2>2 DEF After
  <2> HIDE DEF After
  <2>4. ReadersExact'
    BY <1>0, <2>1, <2>2, <2>3
  <2>5. JobOfStep'
    BY <1>0, <2>1, <2>2, <2>3
  <2>6. JoinTokensFresh'
    BY <1>0, <2>1, <2>2, <2>3
  <2>7. SocketIndexSound' /\ PlayerIndexSound' /\ TargetsLive'
    BY <2>1, <2>3
  <2> QED
    BY <1>0, <2>4, <2>5, <2>6, <2>7
<1>22. CASE UNCHANGED vars
  BY <1>0, <1>22 DEF vars
<1> HIDE DEF IInv, TypeOK, Threads, Job, NoJob, Kinds, Steps, Session,
      PlayerStates, Goto, maps, mutex, ReadersExact, JobOfStep,
      JoinTokensFresh, SocketIndexSound, PlayerIndexSound, TargetsLive, Live,
      Broadcasting
<1> QED
  BY <1>1, <1>2, <1>3, <1>4, <1>5, <1>6, <1>7, <1>8, <1>9, <1>10, <1>11,
     <1>12, <1>13, <1>14, <1>15, <1>16, <1>17, <1>18, <1>19, <1>20, <1>21,
     <1>22 DEF Next, Handler, Broadcast

\* While no connection logs in twice, every step keeps the socket index exact
\* and a connection's token within the time its handler is in session.
LEMMA NextOnce ==
  ASSUME "relogin" \notin Env, IInv, SocketIndexExact, TokenInSession,
         [Next]_vars
  PROVE  (SocketIndexExact /\ TokenInSession)'
<1> USE NoneAssumption, ThreadAssumption DEF TypeOK, Threads, Job, NoJob,
      Kinds, Steps, Session, PlayerStates, Goto, maps, mutex, IInv, JobOfStep,
      JoinTokensFresh, SocketIndexSound, Live, Broadcasting, SocketIndexExact,
      TokenInSession
<1>1. ASSUME NEW c \in Conns, Accept(c)
      PROVE (SocketIndexExact /\ TokenInSession)'
  BY <1>1 DEF Accept
<1>2. ASSUME NEW c \in Conns, Enqueue(c)
      PROVE (SocketIndexExact /\ TokenInSession)'
  BY <1>2 DEF Enqueue
<1>3. ASSUME NEW c \in Conns, Insert(c)
      PROVE (SocketIndexExact /\ TokenInSession)'
  <2> DEFINE t == job[c].token
  <2>1. TokenBySocketMap[c] = None /\ t \in Tokens \ Live
    BY <1>3 DEF Insert, TokenInSession
  <2>2. \A d \in Conns :
          TokenBySocketMap'[d] = IF d = c THEN t ELSE TokenBySocketMap[d]
    BY <1>3, <2>1 DEF Insert
  <2>3. \A x \in Tokens : /\ x # t => PlayerSessionMap'[x] = PlayerSessionMap[x]
                          /\ x = t => /\ PlayerSessionMap'[x] # None
                                      /\ PlayerSessionMap'[x].Socket = c
    BY <1>3, <2>1 DEF Insert, StoreSession
  <2>4. ASSUME NEW d \in Conns, NEW x \in Tokens
        PROVE  TokenBySocketMap'[d] = x
                 <=> PlayerSessionMap'[x] # None /\ PlayerSessionMap'[x].Socket = d
    <3>1. CASE x = t
      BY <2>1, <2>2, <2>3, <3>1
    <3>2. CASE x # t
      <4>1. TokenBySocketMap[d] = x
              <=> PlayerSessionMap[x] # None /\ PlayerSessionMap[x].Socket = d
        OBVIOUS
      <4>2. TokenBySocketMap[c] # x
        BY <2>1
      <4> QED
        BY <2>2, <2>3, <3>2, <4>1, <4>2
    <3> QED
      BY <3>1, <3>2
  <2>5. TokenInSession'
    BY <1>3, <2>2 DEF Insert
  <2> QED
    BY <2>4, <2>5
<1>4. ASSUME NEW c \in Conns, NEW u \in Users, NEW t \in Tokens,
             LoginRequest(c, u, t)
      PROVE (SocketIndexExact /\ TokenInSession)'
  BY <1>4 DEF LoginRequest
<1>5. ASSUME NEW c \in Conns, ListRequest(c)
      PROVE (SocketIndexExact /\ TokenInSession)'
  BY <1>5 DEF ListRequest
<1>6. ASSUME NEW c \in Conns, ListResponse(c)
      PROVE (SocketIndexExact /\ TokenInSession)'
  BY <1>6 DEF ListResponse
<1>7. ASSUME NEW c \in Conns, NEW t \in Tokens, NEW state \in PlayerStates,
             ReadyRequest(c, t, state)
      PROVE (SocketIndexExact /\ TokenInSession)'
  BY <1>7 DEF ReadyRequest, LockShared
<1>8. ASSUME NEW c \in Conns, UnknownToken(c)
      PROVE (SocketIndexExact /\ TokenInSession)'
  BY <1>8 DEF UnknownToken
<1>9. ASSUME NEW c \in Conns, SkipScan(c)
      PROVE (SocketIndexExact /\ TokenInSession)'
  BY <1>9 DEF SkipScan
<1>10. ASSUME NEW c \in Conns, BeginScan(c)
      PROVE (SocketIndexExact /\ TokenInSession)'
  BY <1>10 DEF BeginScan, LockShared
<1>11. ASSUME NEW c \in Conns, EndScan(c)
      PROVE (SocketIndexExact /\ TokenInSession)'
  BY <1>11 DEF EndScan, Unlock
<1>12. ASSUME NEW c \in Conns, Return(c)
      PROVE (SocketIndexExact /\ TokenInSession)'
  BY <1>12 DEF Return
<1>13. ASSUME NEW c \in Conns, AnnounceStop(c)
      PROVE (SocketIndexExact /\ TokenInSession)'
  BY <1>13 DEF AnnounceStop
<1>14. ASSUME NEW c \in Conns, Disconnect(c)
      PROVE (SocketIndexExact /\ TokenInSession)'
  BY <1>14 DEF Disconnect
<1>15. ASSUME NEW c \in Conns, Lookup(c)
      PROVE (SocketIndexExact /\ TokenInSession)'
  BY <1>15 DEF Lookup
<1>16. ASSUME NEW c \in Conns, Erase(c)
      PROVE (SocketIndexExact /\ TokenInSession)'
  BY <1>16 DEF Erase, LockExclusive, NoReaders, EraseSocket, ErasePlayer
<1>17. ASSUME NEW c \in Conns, Close(c)
      PROVE (SocketIndexExact /\ TokenInSession)'
  BY <1>17 DEF Close
<1>18. ASSUME NEW k \in Timers, TimerBroadcast(k)
      PROVE (SocketIndexExact /\ TokenInSession)'
  BY <1>18 DEF TimerBroadcast
<1>19. ASSUME NEW th \in Threads, BroadcastLock(th)
      PROVE (SocketIndexExact /\ TokenInSession)'
  BY <1>19 DEF BroadcastLock, LockShared, Targets
<1>20. ASSUME NEW th \in Threads, NEW t \in Tokens, Send(th, t)
      PROVE (SocketIndexExact /\ TokenInSession)'
  BY <1>20 DEF Send
<1>21. ASSUME NEW th \in Threads, BroadcastDone(th)
      PROVE (SocketIndexExact /\ TokenInSession)'
  BY <1>21 DEF BroadcastDone, Unlock, After
<1>22. CASE UNCHANGED vars
  BY <1>22 DEF vars
<1> HIDE DEF TypeOK, Threads, Job, NoJob, Kinds, Steps, Session,
      PlayerStates, Goto, maps, mutex, IInv, JobOfStep, JoinTokensFresh,
      SocketIndexSound, Live, Broadcasting, SocketIndexExact, TokenInSession
<1> QED
  BY <1>1, <1>2, <1>3, <1>4, <1>5, <1>6, <1>7, <1>8, <1>9, <1>10, <1>11,
     <1>12, <1>13, <1>14, <1>15, <1>16, <1>17, <1>18, <1>19, <1>20, <1>21,
     <1>22 DEF Next, Handler, Broadcast

\* While no account is used by two connections at a time, every step keeps
\* the player index complete.
LEMMA NextOwn ==
  ASSUME "share" \notin Env, IInv, PlayerIndexComplete, JoinPlayersFresh,
         [Next]_vars
  PROVE  (PlayerIndexComplete /\ JoinPlayersFresh)'
<1> USE NoneAssumption, ThreadAssumption DEF TypeOK, Threads, Job, NoJob,
      Kinds, Steps, Session, PlayerStates, Goto, maps, mutex, IInv, JobOfStep,
      JoinTokensFresh, SocketIndexSound, Live, Broadcasting,
      PlayerIndexComplete, JoinPlayersFresh, Present, PlayerIndexSound
<1>1. ASSUME NEW c \in Conns, Accept(c)
      PROVE (PlayerIndexComplete /\ JoinPlayersFresh)'
  BY <1>1 DEF Accept
<1>2. ASSUME NEW c \in Conns, Enqueue(c)
      PROVE (PlayerIndexComplete /\ JoinPlayersFresh)'
  BY <1>2 DEF Enqueue
<1>3. ASSUME NEW c \in Conns, Insert(c)
      PROVE (PlayerIndexComplete /\ JoinPlayersFresh)'
  BY <1>3 DEF Insert, LockExclusive, NoReaders, StoreSession, IndexPlayer
<1>4. ASSUME NEW c \in Conns, NEW u \in Users, NEW t \in Tokens,
             LoginRequest(c, u, t)
      PROVE (PlayerIndexComplete /\ JoinPlayersFresh)'
  BY <1>4 DEF LoginRequest, InUse, Joining
<1>5. ASSUME NEW c \in Conns, ListRequest(c)
      PROVE (PlayerIndexComplete /\ JoinPlayersFresh)'
  BY <1>5 DEF ListRequest
<1>6. ASSUME NEW c \in Conns, ListResponse(c)
      PROVE (PlayerIndexComplete /\ JoinPlayersFresh)'
  BY <1>6 DEF ListResponse
<1>7. ASSUME NEW c \in Conns, NEW t \in Tokens, NEW state \in PlayerStates,
             ReadyRequest(c, t, state)
      PROVE (PlayerIndexComplete /\ JoinPlayersFresh)'
  BY <1>7 DEF ReadyRequest, LockShared
<1>8. ASSUME NEW c \in Conns, UnknownToken(c)
      PROVE (PlayerIndexComplete /\ JoinPlayersFresh)'
  BY <1>8 DEF UnknownToken
<1>9. ASSUME NEW c \in Conns, SkipScan(c)
      PROVE (PlayerIndexComplete /\ JoinPlayersFresh)'
  BY <1>9 DEF SkipScan
<1>10. ASSUME NEW c \in Conns, BeginScan(c)
      PROVE (PlayerIndexComplete /\ JoinPlayersFresh)'
  BY <1>10 DEF BeginScan, LockShared
<1>11. ASSUME NEW c \in Conns, EndScan(c)
      PROVE (PlayerIndexComplete /\ JoinPlayersFresh)'
  BY <1>11 DEF EndScan, Unlock
<1>12. ASSUME NEW c \in Conns, Return(c)
      PROVE (PlayerIndexComplete /\ JoinPlayersFresh)'
  BY <1>12 DEF Return
<1>13. ASSUME NEW c \in Conns, AnnounceStop(c)
      PROVE (PlayerIndexComplete /\ JoinPlayersFresh)'
  <2> DEFINE stop == [NoJob EXCEPT !.kind = "stop"]
  <2>1. stop \in Job /\ stop.kind = "stop"
    OBVIOUS
  <2>2. /\ pc[c] = "decide"
        /\ job' = [job EXCEPT ![c] = stop]
        /\ pc' = [pc EXCEPT ![c] = "bcast"]
        /\ UNCHANGED <<maps, mutex, todo, listed, issued, view>>
    BY <1>13 DEF AnnounceStop
  <2> HIDE DEF stop
  <2> QED
    BY <2>1, <2>2
<1>14. ASSUME NEW c \in Conns, Disconnect(c)
      PROVE (PlayerIndexComplete /\ JoinPlayersFresh)'
  BY <1>14 DEF Disconnect
<1>15. ASSUME NEW c \in Conns, Lookup(c)
      PROVE (PlayerIndexComplete /\ JoinPlayersFresh)'
  <2>1. CASE TokenBySocketMap[c] = None
    BY <1>15, <2>1 DEF Lookup
  <2>2. CASE TokenBySocketMap[c] # None
    <3> DEFINE leave == [kind |-> "leave", player |-> None,
                         token |-> TokenBySocketMap[c]]
    <3>1. /\ leave \in Job
          /\ leave.kind = "leave" /\ leave.token = TokenBySocketMap[c]
      BY <2>2
    <3>2. /\ pc[c] = "cleanup"
          /\ job' = [job EXCEPT ![c] = leave]
          /\ pc' = [pc EXCEPT ![c] = "erase"]
          /\ UNCHANGED <<maps, mutex, todo, listed, issued, view>>
      BY <1>15, <2>2 DEF Lookup
    <3> HIDE DEF leave
    <3> QED
      BY <2>2, <3>1, <3>2
  <2> QED
    BY <2>1, <2>2
<1>16. ASSUME NEW c \in Conns, Erase(c)
      PROVE (PlayerIndexComplete /\ JoinPlayersFresh)'
  BY <1>16 DEF Erase, LockExclusive, NoReaders, EraseSocket, ErasePlayer
<1>17. ASSUME NEW c \in Conns, Close(c)
      PROVE (PlayerIndexComplete /\ JoinPlayersFresh)'
  BY <1>17 DEF Close
<1>18. ASSUME NEW k \in Timers, TimerBroadcast(k)
      PROVE (PlayerIndexComplete /\ JoinPlayersFresh)'
  BY <1>18 DEF TimerBroadcast
<1>19. ASSUME NEW th \in Threads, BroadcastLock(th)
      PROVE (PlayerIndexComplete /\ JoinPlayersFresh)'
  BY <1>19 DEF BroadcastLock, LockShared, Targets
<1>20. ASSUME NEW th \in Threads, NEW t \in Tokens, Send(th, t)
      PROVE (PlayerIndexComplete /\ JoinPlayersFresh)'
  BY <1>20 DEF Send
<1>21. ASSUME NEW th \in Threads, BroadcastDone(th)
      PROVE (PlayerIndexComplete /\ JoinPlayersFresh)'
  BY <1>21 DEF BroadcastDone, Unlock, After
<1>22. CASE UNCHANGED vars
  BY <1>22 DEF vars
<1> HIDE DEF TypeOK, Threads, Job, NoJob, Kinds, Steps, Session,
      PlayerStates, Goto, maps, mutex, IInv, JobOfStep, JoinTokensFresh,
      SocketIndexSound, Live, Broadcasting, PlayerIndexComplete,
      JoinPlayersFresh, Present, PlayerIndexSound
<1> QED
  BY <1>1, <1>2, <1>3, <1>4, <1>5, <1>6, <1>7, <1>8, <1>9, <1>10, <1>11,
     <1>12, <1>13, <1>14, <1>15, <1>16, <1>17, <1>18, <1>19, <1>20, <1>21,
     <1>22 DEF Next, Handler, Broadcast

\* Who is present, and where, changes only with the tables.
LEMMA TablesFrame ==
  ASSUME PlayerSessionMap' = PlayerSessionMap
  PROVE  /\ Live' = Live
         /\ Present' = Present
         /\ \A s \in Conns : HasSession(s)' <=> HasSession(s)
  BY DEF Live, Present, HasSession

\* What the views show stays accounted for in a step that keeps the sessions'
\* sockets and players, the logins under way and the leaves to be broadcast,
\* and changes a view at most by emptying it.
LEMMA ViewsFrame ==
  ASSUME ViewsAccounted, todo \in [Threads -> SUBSET Tokens],
         \A t \in Tokens :
           /\ PlayerSessionMap'[t] = None <=> PlayerSessionMap[t] = None
           /\ PlayerSessionMap'[t].Socket = PlayerSessionMap[t].Socket
           /\ PlayerSessionMap'[t].DbId = PlayerSessionMap[t].DbId,
         \A s \in Conns : view'[s] \in {view[s], {}},
         \A c \in Conns :
           /\ pc'[c] # "listed"
           /\ job'[c].kind = "join" <=> job[c].kind = "join"
           /\ job[c].kind = "join" => job'[c].player = job[c].player
           /\ job[c].kind = "leave" /\ (pc[c] = "bcast" \/ todo[c] # {}) =>
                job'[c] = job[c] /\ pc'[c] = pc[c] /\ todo'[c] = todo[c]
  PROVE  ViewsAccounted'
<1>1. Live' = Live /\ Present' = Present
  BY DEF Live, Present
<1>2. \A s \in Conns : HasSession(s)' <=> HasSession(s)
  BY <1>1 DEF HasSession, Live
<1>3. \A u : Joining(u) => Joining(u)'
  BY DEF Joining
<1>4. ASSUME NEW u, NEW s \in Conns, Leaving(u, s) PROVE Leaving(u, s)'
  <2>1. PICK c \in Conns :
          /\ job[c].kind = "leave" /\ job[c].player = u
          /\ pc[c] = "bcast" \/ \E t \in todo[c] : PlayerSessionMap[t].Socket = s
    BY <1>4 DEF Leaving
  <2> QED
    BY <2>1 DEF Leaving, Threads
<1>5. QED
  BY <1>1, <1>2, <1>3, <1>4 DEF ViewsAccounted

\* While no one asks for the list, every step keeps the views accounted for.
LEMMA NextView ==
  ASSUME "list" \notin Env, IInv, ViewsAccounted, [Next]_vars PROVE ViewsAccounted'
<1> USE NoneAssumption, ThreadAssumption DEF TypeOK, Threads, Job, NoJob,
      Kinds, Steps, Session, PlayerStates, Goto, maps, mutex, IInv, JobOfStep,
      JoinTokensFresh, SocketIndexSound, TargetsLive, Broadcasting
<1>1. ASSUME NEW c \in Conns, Accept(c) PROVE ViewsAccounted'
  BY <1>1, ViewsFrame DEF Accept, ViewsAccounted
<1>2. ASSUME NEW c \in Conns, Enqueue(c) PROVE ViewsAccounted'
  BY <1>2, ViewsFrame DEF Enqueue, ViewsAccounted
<1>3. ASSUME NEW c \in Conns, Insert(c) PROVE ViewsAccounted'
  <2> DEFINE t == job[c].token
             u == job[c].player
  <2>1. /\ t \in Tokens /\ t \notin Live /\ u \in Users /\ job[c].kind = "join"
        /\ todo[c] = {}
    BY <1>3 DEF Insert, Live
  <2>2. /\ \A x \in Tokens : x # t => PlayerSessionMap'[x] = PlayerSessionMap[x]
        /\ PlayerSessionMap'[t] # None
        /\ PlayerSessionMap'[t].Socket = c /\ PlayerSessionMap'[t].DbId = u
    BY <1>3, <2>1 DEF Insert, StoreSession, Session
  <2>3. Live' = Live \cup {t}
    BY <2>1, <2>2 DEF Live
  <2>4. Present \subseteq Present' /\ u \in Present'
    <3>1. ASSUME NEW x \in Present PROVE x \in Present'
      <4>1. PICK y \in Live : x = PlayerSessionMap[y].DbId
        BY DEF Present
      <4>2. y \in Live' /\ PlayerSessionMap'[y] = PlayerSessionMap[y]
        BY <2>1, <2>2, <2>3 DEF Live
      <4> QED
        BY <4>1, <4>2 DEF Present
    <3>2. t \in Live' /\ PlayerSessionMap'[t].DbId = u
      BY <2>1, <2>2, <2>3
    <3>3. u \in Present'
      BY <3>2 DEF Present
    <3> QED
      BY <3>1, <3>3
  <2>5. \A s \in Conns : /\ HasSession(s) => HasSession(s)'
                         /\ HasSession(s)' => HasSession(s) \/ s = c
    <3>1. ASSUME NEW s \in Conns, HasSession(s) PROVE HasSession(s)'
      BY <2>1, <2>2, <2>3, <3>1 DEF HasSession
    <3>2. ASSUME NEW s \in Conns, HasSession(s)', s # c PROVE HasSession(s)
      <4>1. PICK y \in Live' : PlayerSessionMap'[y].Socket = s
        BY <3>2 DEF HasSession
      <4> QED
        BY <2>2, <2>3, <3>2, <4>1 DEF HasSession, Live
    <3> QED
      BY <3>1, <3>2
  <2>6. /\ job'[c].kind # "join" /\ pc'[c] = "recv"
        /\ \A d \in Conns : d # c => job'[d] = job[d] /\ pc'[d] = pc[d]
        /\ UNCHANGED <<todo, view>>
    BY <1>3 DEF Insert
  <2>7. \A x : Joining(x) => Joining(x)' \/ x = u
    BY <2>6 DEF Joining
  <2>8. ASSUME NEW x, NEW s \in Conns, Leaving(x, s) PROVE Leaving(x, s)'
    <3>1. PICK d \in Conns :
            /\ job[d].kind = "leave" /\ job[d].player = x
            /\ pc[d] = "bcast" \/ \E y \in todo[d] : PlayerSessionMap[y].Socket = s
      BY <2>8 DEF Leaving
    <3>2. \A y \in todo[d] : PlayerSessionMap'[y].Socket = PlayerSessionMap[y].Socket
      BY <2>1, <2>2 DEF TargetsLive, Live
    <3>3. d # c /\ job'[d] = job[d] /\ pc'[d] = pc[d] /\ todo'[d] = todo[d]
      BY <2>1, <2>6, <3>1
    <3> QED
      BY <3>1, <3>2, <3>3 DEF Leaving
  <2> QED
    BY <2>1, <2>5, <2>6, <2>7, <2>8, <2>4 DEF ViewsAccounted
<1>4. ASSUME NEW c \in Conns, NEW u \in Users, NEW t \in Tokens,
             LoginRequest(c, u, t)
      PROVE ViewsAccounted'
  <2>0. /\ pc[c] = "recv"
        /\ job' = [job EXCEPT ![c] = [kind |-> "join", player |-> u, token |-> t]]
        /\ view' = [view EXCEPT ![c] = {}]
        /\ pc' = [pc EXCEPT ![c] = "bcast"]
        /\ UNCHANGED <<maps, todo>>
    BY <1>4 DEF LoginRequest
  <2>1. /\ job[c].kind # "join" /\ pc[c] = "recv" /\ todo[c] = {}
        /\ job'[c].kind = "join" /\ view'[c] = {} /\ pc'[c] = "bcast"
        /\ \A d \in Conns :
             d # c => job'[d] = job[d] /\ pc'[d] = pc[d] /\ view'[d] = view[d]
        /\ UNCHANGED <<maps, todo>>
    BY <2>0
  <2>2. /\ Present' = Present
        /\ \A s \in Conns : HasSession(s)' <=> HasSession(s)
    BY <2>1, TablesFrame
  <2>3. \A x : Joining(x) => Joining(x)'
    BY <2>1 DEF Joining
  <2>4. \A x, s : Leaving(x, s) => Leaving(x, s)'
    BY <2>1 DEF Leaving
  <2> QED
    BY <2>1, <2>2, <2>3, <2>4 DEF ViewsAccounted
<1>5. ASSUME NEW c \in Conns, ListRequest(c) PROVE ViewsAccounted'
  BY <1>5 DEF ListRequest
<1>6. ASSUME NEW c \in Conns, ListResponse(c) PROVE ViewsAccounted'
  BY <1>6 DEF ListResponse, ViewsAccounted
<1>7. ASSUME NEW c \in Conns, NEW t \in Tokens, NEW state \in PlayerStates,
             ReadyRequest(c, t, state)
      PROVE ViewsAccounted'
  <2>1. \A x \in Tokens :
          /\ PlayerSessionMap'[x] = None <=> PlayerSessionMap[x] = None
          /\ PlayerSessionMap'[x].Socket = PlayerSessionMap[x].Socket
          /\ PlayerSessionMap'[x].DbId = PlayerSessionMap[x].DbId
    BY <1>7, StateWrite DEF ReadyRequest
  <2>2. /\ job'[c].kind # "join" /\ job[c].kind # "join"
        /\ \A d \in Conns : d # c => job'[d] = job[d] /\ pc'[d] = pc[d]
        /\ pc'[c] # "listed" /\ pc[c] = "recv" /\ todo[c] = {}
        /\ UNCHANGED <<todo, view>>
    BY <1>7 DEF ReadyRequest
  <2> QED
    BY <2>1, <2>2, ViewsFrame DEF ViewsAccounted
<1>8. ASSUME NEW c \in Conns, UnknownToken(c)
      PROVE ViewsAccounted'
  BY <1>8, ViewsFrame DEF UnknownToken, ViewsAccounted
<1>9. ASSUME NEW c \in Conns, SkipScan(c) PROVE ViewsAccounted'
  BY <1>9, ViewsFrame DEF SkipScan, ViewsAccounted
<1>10. ASSUME NEW c \in Conns, BeginScan(c) PROVE ViewsAccounted'
  BY <1>10, ViewsFrame DEF BeginScan, LockShared, ViewsAccounted
<1>11. ASSUME NEW c \in Conns, EndScan(c) PROVE ViewsAccounted'
  BY <1>11, ViewsFrame DEF EndScan, Unlock, ViewsAccounted
<1>12. ASSUME NEW c \in Conns, Return(c) PROVE ViewsAccounted'
  BY <1>12, ViewsFrame DEF Return, ViewsAccounted
<1>13. ASSUME NEW c \in Conns, AnnounceStop(c) PROVE ViewsAccounted'
  <2>1. /\ job'[c].kind # "join" /\ job[c].kind # "join"
        /\ \A d \in Conns : d # c => job'[d] = job[d] /\ pc'[d] = pc[d]
        /\ pc'[c] # "listed" /\ pc[c] = "decide" /\ todo[c] = {}
        /\ UNCHANGED <<maps, todo, view>>
    BY <1>13 DEF AnnounceStop
  <2> QED
    BY <2>1, ViewsFrame DEF ViewsAccounted
<1>14. ASSUME NEW c \in Conns, Disconnect(c) PROVE ViewsAccounted'
  BY <1>14, ViewsFrame DEF Disconnect, ViewsAccounted
<1>15. ASSUME NEW c \in Conns, Lookup(c) PROVE ViewsAccounted'
  <2>1. /\ job'[c].kind # "join" /\ job[c].kind # "join"
        /\ \A d \in Conns : d # c => job'[d] = job[d] /\ pc'[d] = pc[d]
        /\ pc'[c] # "listed" /\ pc[c] = "cleanup" /\ todo[c] = {}
        /\ UNCHANGED <<maps, todo, view>>
    BY <1>15 DEF Lookup
  <2> QED
    BY <2>1, ViewsFrame DEF ViewsAccounted
<1>16. ASSUME NEW c \in Conns, Erase(c) PROVE ViewsAccounted'
  <2> DEFINE t == job[c].token
             u == PlayerSessionMap[t].DbId
  <2>1. /\ t \in Live /\ PlayerSessionMap[t].Socket = c /\ u \in Users
        /\ job[c].kind = "leave" /\ pc[c] = "erase"
    BY <1>16 DEF Erase, Live
  <2>2. \A th \in Threads : todo[th] = {}
    <3>1. \A th \in Threads : readers[th] = 0
      BY <1>16 DEF Erase, LockExclusive, NoReaders
    <3>2. \A th \in Threads : pc[th] # "sending"
      BY <3>1 DEF ReadersExact
    <3> QED
      BY <3>2
  <2>3. /\ job'[c].kind = "leave" /\ job'[c].player = u /\ pc'[c] = "bcast"
        /\ \A d \in Conns : d # c => job'[d] = job[d] /\ pc'[d] = pc[d]
        /\ UNCHANGED <<todo, view>>
    BY <1>16 DEF Erase
  <2>4. \A x \in Tokens :
          PlayerSessionMap'[x] = IF x = t THEN None ELSE PlayerSessionMap[x]
    BY <1>16 DEF Erase
  <2>5. Live' = Live \ {t} /\ Present \subseteq Present' \cup {u}
    <3>1. Live' = Live \ {t}
      BY <2>1, <2>4 DEF Live
    <3>2. ASSUME NEW x \in Present, x # u PROVE x \in Present'
      <4>1. PICK y \in Live : x = PlayerSessionMap[y].DbId
        BY DEF Present
      <4>2. y \in Live' /\ PlayerSessionMap'[y] = PlayerSessionMap[y]
        BY <2>4, <3>1, <3>2, <4>1 DEF Live
      <4> QED
        BY <4>1, <4>2 DEF Present
    <3> QED
      BY <3>1, <3>2
  <2>6. \A s \in Conns : /\ HasSession(s)' => HasSession(s)
                         /\ s # c /\ HasSession(s) => HasSession(s)'
    BY <2>1, <2>4, <2>5 DEF HasSession, Live
  <2>7. \A x : Joining(x) => Joining(x)'
    BY <2>1, <2>3 DEF Joining
  <2>8. \A x, s : x = u => Leaving(x, s)'
    BY <2>3 DEF Leaving
  <2>9. ASSUME NEW x, NEW s, Leaving(x, s) PROVE Leaving(x, s)'
    <3>1. PICK d \in Conns :
            job[d].kind = "leave" /\ job[d].player = x /\ pc[d] = "bcast"
      BY <2>2, <2>9 DEF Leaving
    <3>2. job'[d] = job[d] /\ pc'[d] = pc[d]
      BY <2>1, <2>3, <3>1
    <3> QED
      BY <3>1, <3>2 DEF Leaving
  <2>10. ASSUME NEW s \in Conns, HasSession(s)', NEW x \in view'[s]
         PROVE  x \in Present' \/ Joining(x)' \/ Leaving(x, s)'
    BY <2>3, <2>5, <2>6, <2>7, <2>8, <2>9, <2>10 DEF ViewsAccounted
  <2> QED
    BY <2>1, <2>3, <2>6, <2>10 DEF ViewsAccounted
<1>17. ASSUME NEW c \in Conns, Close(c) PROVE ViewsAccounted'
  BY <1>17, ViewsFrame DEF Close, ViewsAccounted
<1>18. ASSUME NEW k \in Timers, TimerBroadcast(k) PROVE ViewsAccounted'
  BY <1>18, ViewsFrame DEF TimerBroadcast, ViewsAccounted
<1>19. ASSUME NEW th \in Threads, BroadcastLock(th) PROVE ViewsAccounted'
  <2>1. /\ todo'[th] = Live /\ pc[th] = "bcast" /\ pc'[th] = "sending"
        /\ \A d \in Conns : d # th => todo'[d] = todo[d] /\ pc'[d] = pc[d]
        /\ UNCHANGED <<maps, job, view>>
    BY <1>19 DEF BroadcastLock, Targets
  <2>2. /\ Present' = Present
        /\ \A s \in Conns : HasSession(s)' <=> HasSession(s)
        /\ \A x : Joining(x) <=> Joining(x)'
    BY <2>1 DEF Present, Live, HasSession, Joining
  <2>3. ASSUME NEW x, NEW s \in Conns, HasSession(s), Leaving(x, s)
        PROVE  Leaving(x, s)'
    BY <2>1, <2>3 DEF Leaving, HasSession
  <2> QED
    BY <2>1, <2>2, <2>3 DEF ViewsAccounted
<1>20. ASSUME NEW th \in Threads, NEW t \in Tokens, Send(th, t)
      PROVE ViewsAccounted'
  <2> DEFINE s0 == PlayerSessionMap[t].Socket
  <2>1. /\ pc[th] = "sending" /\ t \in todo[th] /\ t \in Live /\ s0 \in Conns
        /\ todo'[th] = todo[th] \ {t}
        /\ \A d \in Conns : d # th => todo'[d] = todo[d]
        /\ view'[s0] = Shown(view[s0], job[th])
        /\ \A s \in Conns : s # s0 => view'[s] = view[s]
        /\ UNCHANGED <<maps, pc, job>>
    BY <1>20 DEF Send, TargetsLive, Live
  <2>2. /\ Present' = Present
        /\ \A s \in Conns : HasSession(s)' <=> HasSession(s)
        /\ \A x : Joining(x) <=> Joining(x)'
        /\ HasSession(s0)
    BY <2>1 DEF Present, Live, HasSession, Joining
  <2>3. ASSUME NEW x, NEW s \in Conns, Leaving(x, s),
               s = s0 => ~(job[th].kind = "leave" /\ job[th].player = x)
        PROVE  Leaving(x, s)'
    <3>1. PICK d \in Conns :
            /\ job[d].kind = "leave" /\ job[d].player = x
            /\ pc[d] = "bcast" \/ \E y \in todo[d] : PlayerSessionMap[y].Socket = s
      BY <2>3 DEF Leaving
    <3> QED
      BY <2>1, <2>3, <3>1 DEF Leaving
  <2>4. ASSUME NEW x \in view'[s0]
        PROVE  \/ x \in view[s0] /\ ~(job[th].kind = "leave" /\ job[th].player = x)
               \/ Joining(x)
    <3>1. CASE job[th].kind = "join"
      BY <2>1, <3>1 DEF Shown, Joining
    <3>2. CASE job[th].kind = "leave"
      BY <2>1, <3>2 DEF Shown
    <3>3. CASE job[th].kind \notin {"join", "leave"}
      BY <2>1, <3>3 DEF Shown
    <3> QED
      BY <3>1, <3>2, <3>3
  <2> QED
    BY <2>1, <2>2, <2>3, <2>4 DEF ViewsAccounted
<1>21. ASSUME NEW th \in Threads, BroadcastDone(th) PROVE ViewsAccounted'
  BY <1>21, ViewsFrame DEF BroadcastDone, Unlock, After, ViewsAccounted
<1>22. CASE UNCHANGED vars
  BY <1>22, ViewsFrame DEF vars, ViewsAccounted
<1> HIDE DEF TypeOK, Threads, Job, NoJob, Kinds, Steps, Session,
      PlayerStates, Goto, maps, mutex, IInv, JobOfStep, JoinTokensFresh,
      SocketIndexSound, TargetsLive, Broadcasting
<1> QED
  BY <1>1, <1>2, <1>3, <1>4, <1>5, <1>6, <1>7, <1>8, <1>9, <1>10, <1>11,
     <1>12, <1>13, <1>14, <1>15, <1>16, <1>17, <1>18, <1>19, <1>20, <1>21,
     <1>22 DEF Next, Handler, Broadcast

\* In every behaviour all variables keep their types.
THEOREM TypeCorrect == Spec => []TypeOK
<1>1. IInv => TypeOK
  BY DEF IInv
<1> QED
  BY <1>1, InitIInv, NextIInv, PTL DEF Spec

\* Whatever the clients do, the player index leads to no session that is gone,
\* and a cleanup finds the session whose token it has looked up.
THEOREM IndexSound == Spec => [](PlayerIndexSound /\ CleanupFindsSession)
<1>1. IInv => PlayerIndexSound /\ CleanupFindsSession
  BY DEF IInv, JobOfStep, SocketIndexSound, CleanupFindsSession
<1> QED
  BY <1>1, InitIInv, NextIInv, PTL DEF Spec

\* OnceInv holds in the initial state.
LEMMA InitOnce == Init => OnceInv
  BY InitIInv, NoneAssumption
     DEF Init, OnceInv, SocketIndexExact, TokenInSession, Live

\* While no connection logs in twice, every step keeps OnceInv, and it holds in
\* every state.
LEMMA OnceInvariant ==
  ASSUME "relogin" \notin Env PROVE Spec => []OnceInv
<1>1. OnceInv /\ [Next]_vars => OnceInv'
  BY NextIInv, NextOnce DEF OnceInv
<1> QED
  BY <1>1, InitOnce, PTL DEF Spec

\* While no connection logs in twice, the socket index and the session table
\* name each other, no session outlives its handler, and no broadcast sends to
\* a socket that has been closed.
THEOREM SocketsExact ==
  ASSUME "relogin" \notin Env
  PROVE  Spec => [](SocketIndexExact /\ SessionHasHandler /\ BroadcastTargetsOpen)
<1>1. ASSUME OnceInv
      PROVE  SocketIndexExact /\ SessionHasHandler /\ BroadcastTargetsOpen
  <2>1. SocketIndexExact
    BY <1>1 DEF OnceInv
  <2>2. \A t \in Live : pc[PlayerSessionMap[t].Socket] # "closed"
    BY <1>1, NoneAssumption
       DEF OnceInv, IInv, TypeOK, Session, Live, SocketIndexExact,
           TokenInSession, Broadcasting
  <2>3. BroadcastTargetsOpen
    BY <1>1, <2>2 DEF OnceInv, IInv, TargetsLive, BroadcastTargetsOpen
  <2> QED
    BY <2>1, <2>2, <2>3 DEF SessionHasHandler
<1> QED
  BY <1>1, OnceInvariant, PTL

\* While no account is used by two connections at a time, every session is
\* found under its player's id.
THEOREM PlayersExact ==
  ASSUME "share" \notin Env PROVE Spec => []PlayerIndexComplete
<1>1. Init => OwnInv
  BY InitIInv, NoneAssumption
     DEF Init, OwnInv, PlayerIndexComplete, JoinPlayersFresh, Live, NoJob,
         Threads, Kinds
<1>2. OwnInv /\ [Next]_vars => OwnInv'
  BY NextIInv, NextOwn DEF OwnInv
<1>3. OwnInv => PlayerIndexComplete
  BY DEF OwnInv
<1> QED
  BY <1>1, <1>2, <1>3, PTL DEF Spec

\* While no one asks for the list, the joins and leaves that cross each other
\* leave no client showing a player who has left.
THEOREM ViewsTrue == ASSUME "list" \notin Env PROVE Spec => []NoPhantomPlayers
<1>1. Init => ViewInv
  BY InitIInv, NoneAssumption
     DEF Init, ViewInv, ViewsAccounted, HasSession, Live, NoJob, Threads, Kinds
<1>2. ViewInv /\ [Next]_vars => ViewInv'
  BY NextIInv, NextView DEF ViewInv
<1>3. ASSUME ViewInv, Quiet, NEW t \in Live
      PROVE  view[PlayerSessionMap[t].Socket] \subseteq Present
  <2>1. PlayerSessionMap[t].Socket \in Conns /\ HasSession(PlayerSessionMap[t].Socket)
    BY <1>3 DEF ViewInv, IInv, TypeOK, Session, Live, HasSession
  <2>2. \A u : ~Joining(u)
    BY <1>3 DEF Quiet, Joining, ViewInv, IInv, JobOfStep
  <2>3. \A u, s : ~Leaving(u, s)
    BY <1>3 DEF Quiet, Leaving, ViewInv, IInv, TargetsLive, Threads
  <2> QED
    BY <1>3, <2>1, <2>2, <2>3 DEF ViewInv, ViewsAccounted
<1>4. ViewInv => NoPhantomPlayers
  BY <1>3 DEF NoPhantomPlayers
<1> QED
  BY <1>1, <1>2, <1>4, PTL DEF Spec

------------------------------------------------------------------------------
(* The server.                                                              *)

\* The definitions, lemmas and theorems of Countdown, for the server's.
CP == INSTANCE CountdownProofs WITH
       Players <- Conns, Null <- None, pc <- step, Env <- {"unready", "move"},
       state <- [c \in Conns |-> State(c)],
       todo <- [c \in Conns |-> Sockets(unread[c])]

\* The server's initial states and steps are those of LobbySessions.
LEMMA StepOfSessions == ServerNext => [Next]_vars
<1> USE DEF Threads
<1>1. ASSUME NEW c \in Conns, SessionStep(c) PROVE Next
  BY <1>1 DEF SessionStep, Next, Handler
<1>2. ASSUME NEW c \in Conns, InsertStep(c) \/ EraseStep(c) PROVE Next
  BY <1>2 DEF InsertStep, EraseStep, Next, Handler
<1>3. ASSUME NEW c \in Conns, NEW isReady \in BOOLEAN, ReadyStep(c, isReady)
      PROVE  Next
  <2>1. CASE TokenBySocketMap[c] = None
    BY <1>3, <2>1 DEF ReadyStep, Next, Handler
  <2>2. CASE TokenBySocketMap[c] # None
    <3> DEFINE s == IF isReady THEN "Ready" ELSE "Lobby"
    <3>1. ReadyRequest(c, TokenBySocketMap[c], s)
      BY <1>3, <2>2 DEF ReadyStep
    <3>2. TokenBySocketMap[c] \in Tokens /\ s \in PlayerStates
      BY <3>1 DEF ReadyRequest, Live, PlayerStates
    <3> QED
      BY <3>1, <3>2 DEF Next, Handler
  <2> QED
    BY <2>1, <2>2
<1>4. ASSUME NEW c \in Conns, CheckFlagStep(c) \/ CountPlayers(c) \/ ScanDone(c)
      PROVE  [Next]_vars
  BY <1>4 DEF CheckFlagStep, CountPlayers, ScanDone, Next, Handler
<1>5. ASSUME NEW c \in Conns, NEW t \in Tokens, ScanOne(c, t) PROVE UNCHANGED vars
  BY <1>5 DEF ScanOne
<1>6. ASSUME NEW c \in Conns, DecideStep(c) \/ StopStep(c) PROVE [Next]_vars
  BY <1>6 DEF DecideStep, StopStep, Next, Handler
<1>7. ASSUME NEW k \in Timers, TimerStep(k) \/ TimerSays(k) PROVE [Next]_vars
  BY <1>7 DEF TimerStep, TimerSays, Next
<1>8. ASSUME NEW th \in Threads, BroadcastStep(th) PROVE Next
  BY <1>8 DEF BroadcastStep, Next, Broadcast
<1>9. ASSUME NEW th \in Threads, NEW t \in Tokens, SendStep(th, t) PROVE Next
  BY <1>9 DEF SendStep, Next, Broadcast
<1> QED
  BY <1>1, <1>2, <1>3, <1>4, <1>5, <1>6, <1>7, <1>8, <1>9 DEF ServerNext, HandlerStep

\* The server is a session table of LobbySessions, whatever the countdown does.
THEOREM SessionsRefined == ServerSpec => Spec
<1>1. ServerInit => Init
  BY DEF ServerInit
<1>2. [ServerNext]_serverVars => [Next]_vars
  BY StepOfSessions DEF serverVars
<1> QED
  BY <1>1, <1>2, PTL DEF ServerSpec, Spec

\* A step that leaves the table and the scans alone leaves what Countdown sees
\* of them alone.
LEMMA TableKept ==
  ASSUME UNCHANGED <<maps, unread>>
  PROVE  UNCHANGED << [c \in Conns |-> State(c)],
                      [c \in Conns |-> Sockets(unread[c])] >>
  BY DEF maps, State, Sockets

\* The players that Countdown sees are those whose connection has a token.
LEMMA PresentConns ==
  ASSUME IInv
  PROVE  /\ C!Present = {c \in Conns : TokenBySocketMap[c] # None}
         /\ C!Present = Sockets(Live)
         /\ \A c \in Conns : State(c) \in {"absent", "Lobby", "Ready"}
<1>1. ASSUME NEW c \in Conns, TokenBySocketMap[c] # None
      PROVE  TokenBySocketMap[c] \in Live /\ State(c) \in PlayerStates
  BY <1>1 DEF IInv, TypeOK, SocketIndexSound, State, Live, Session
<1>2. \A c \in Conns : State(c) # "absent" <=> TokenBySocketMap[c] # None
  BY <1>1 DEF State, PlayerStates
<1>3. \A c \in Conns : TokenBySocketMap[c] # None <=> TokenBySocketMap[c] \in Live
  BY <1>1, NoneAssumption DEF Live
<1> QED
  BY <1>1, <1>2, <1>3 DEF C!Present, Sockets, State, PlayerStates

\* A session enters the table where Countdown lets a player join.
LEMMA InsertJoins ==
  ASSUME ServerInv, NEW c \in Conns, InsertStep(c)
  PROVE  C!Join(c)
<1> USE DEF ServerInv, OnceInv, IInv, TypeOK
<1> DEFINE t == job[c].token
<1>1. /\ pc[c] = "insert" /\ job[c].kind = "join" /\ ~crashed
      /\ NoReaders
      /\ PlayerSessionMap' = [PlayerSessionMap EXCEPT ![t] =
           [DbId |-> job[c].player, Socket |-> c, CurrentState |-> "Lobby"]]
      /\ TokenBySocketMap' = [TokenBySocketMap EXCEPT ![c] = t]
      /\ UNCHANGED countdown
  BY DEF InsertStep, Insert, LockExclusive, StoreSession, JobOfStep
<1>2. t \in Tokens \ Live
  BY <1>1 DEF JoinTokensFresh
<1>3. step[c] = "recv"
  BY <1>1 DEF StepsMatch, InStep, OwnState, Broadcasting
<1>4. \A d \in Conns : pc[d] # "scan" /\ step[d] # "scan"
  <2>1. ASSUME NEW d \in Conns PROVE pc[d] # "scan"
    BY <1>1 DEF NoReaders, ReadersExact, Threads
  <2>2. ASSUME NEW d \in Conns PROVE step[d] # "scan"
    <3>1. InStep(d)
      BY DEF StepsMatch
    <3> QED
      BY <2>1, <3>1 DEF InStep, OwnState, DecideSteps, StopSteps
  <2> QED
    BY <2>1, <2>2
<1>5. TokenBySocketMap[c] = None
  BY <1>1 DEF TokenInSession, Broadcasting
<1>6. /\ State(c) = "absent"
      /\ State(c)' = "Lobby"
      /\ \A d \in Conns : d # c => State(d)' = State(d)
  <2>1. /\ TokenBySocketMap'[c] = t /\ t # None
        /\ PlayerSessionMap'[t].CurrentState = "Lobby"
    BY <1>1, <1>2, NoneAssumption
  <2>2. ASSUME NEW d \in Conns, d # c PROVE State(d)' = State(d)
    <3>1. TokenBySocketMap'[d] = TokenBySocketMap[d]
      BY <1>1, <2>2
    <3>2. TokenBySocketMap[d] # None =>
            PlayerSessionMap'[TokenBySocketMap[d]]
              = PlayerSessionMap[TokenBySocketMap[d]]
      BY <1>1, <1>2 DEF SocketIndexSound, Live
    <3> QED
      BY <3>1, <3>2 DEF State
  <2> QED
    BY <1>5, <2>1, <2>2 DEF State
<1>7. \A d \in Conns : Sockets(unread[d])' = Sockets(unread[d])
  BY <1>1, <1>4 DEF ScansLive, Sockets, countdown
<1> HIDE DEF t
<1>8. /\ [d \in Conns |-> State(d)]'
           = [[d \in Conns |-> State(d)] EXCEPT ![c] = "Lobby"]
      /\ UNCHANGED [d \in Conns |-> Sockets(unread[d])]
  BY <1>6, <1>7
<1> QED
  BY <1>1, <1>3, <1>4, <1>6, <1>8
     DEF C!Join, C!From, C!NoScan, C!local, C!thread, countdown, handles, locals

\* A session leaves the table where Countdown lets a player leave.
LEMMA EraseLeaves ==
  ASSUME ServerInv, NEW c \in Conns, EraseStep(c)
  PROVE  C!Leave(c)
<1> USE DEF ServerInv, OnceInv, IInv, TypeOK
<1> DEFINE t == job[c].token
<1>1. /\ pc[c] = "erase" /\ ~crashed
      /\ NoReaders
      /\ PlayerSessionMap' = [PlayerSessionMap EXCEPT ![t] = None]
      /\ TokenBySocketMap' = [TokenBySocketMap EXCEPT ![c] = None]
      /\ UNCHANGED countdown
  BY DEF EraseStep, Erase, LockExclusive, EraseSocket
<1>2. t = TokenBySocketMap[c] /\ t # None
  BY <1>1 DEF JobOfStep
<1>3. step[c] = "recv"
  BY <1>1 DEF StepsMatch, InStep, OwnState, Broadcasting
<1>4. \A d \in Conns : pc[d] # "scan" /\ step[d] # "scan"
  <2>1. ASSUME NEW d \in Conns PROVE pc[d] # "scan"
    BY <1>1 DEF NoReaders, ReadersExact, Threads
  <2>2. ASSUME NEW d \in Conns PROVE step[d] # "scan"
    <3>1. InStep(d)
      BY DEF StepsMatch
    <3> QED
      BY <2>1, <3>1 DEF InStep, OwnState, DecideSteps, StopSteps
  <2> QED
    BY <2>1, <2>2
<1>5. State(c) # "absent"
  BY <1>2 DEF State, SocketIndexSound, Live, Session, PlayerStates
<1>6. /\ State(c)' = "absent"
      /\ \A d \in Conns : d # c => State(d)' = State(d)
  <2>1. ASSUME NEW d \in Conns, d # c PROVE State(d)' = State(d)
    <3>1. TokenBySocketMap'[d] = TokenBySocketMap[d]
      BY <1>1, <2>1
    <3>2. TokenBySocketMap[d] # None => TokenBySocketMap[d] # t
      BY <1>2, <2>1 DEF SocketIndexSound
    <3>3. TokenBySocketMap[d] # None =>
            PlayerSessionMap'[TokenBySocketMap[d]]
              = PlayerSessionMap[TokenBySocketMap[d]]
      BY <1>1, <3>2
    <3> QED
      BY <3>1, <3>3 DEF State
  <2> QED
    BY <1>1, <2>1 DEF State
<1>7. \A d \in Conns : Sockets(unread[d])' = Sockets(unread[d])
  BY <1>1, <1>4 DEF ScansLive, Sockets, countdown
<1> HIDE DEF t
<1>8. /\ [d \in Conns |-> State(d)]'
           = [[d \in Conns |-> State(d)] EXCEPT ![c] = "absent"]
      /\ UNCHANGED [d \in Conns |-> Sockets(unread[d])]
  BY <1>6, <1>7
<1> QED
  BY <1>1, <1>3, <1>4, <1>5, <1>8
     DEF C!Leave, C!From, C!NoScan, C!local, C!thread, countdown, handles, locals

\* A ready request writes the state of the player that it comes from.
LEMMA ReadyWrites ==
  ASSUME ServerInv, NEW c \in Conns, NEW isReady \in BOOLEAN,
         ReadyStep(c, isReady)
  PROVE  C!ReadyRequest(c, isReady)
<1> USE DEF ServerInv, OnceInv, IInv, TypeOK
<1> DEFINE t == TokenBySocketMap[c]
           s == IF isReady THEN "Ready" ELSE "Lobby"
<1>1. /\ pc[c] = "recv" /\ ~crashed
      /\ UNCHANGED <<TokenBySocketMap, unread>>
      /\ t = None => UNCHANGED PlayerSessionMap
      /\ t # None =>
           PlayerSessionMap' = [PlayerSessionMap EXCEPT ![t].CurrentState = s]
  BY DEF ReadyStep, ReadyRequest, UnknownToken, maps
<1>2. step[c] = "recv"
  BY <1>1 DEF StepsMatch, InStep, OwnState, Broadcasting
<1>3. /\ t = None => State(c) = "absent" /\ State(c)' = "absent"
      /\ t # None => State(c) # "absent" /\ State(c)' = s
  <2>1. CASE t = None
    BY <1>1, <2>1 DEF State
  <2>2. CASE t # None
    <3>1. PlayerSessionMap[t] \in Session
      BY <2>2 DEF SocketIndexSound, Live
    <3> QED
      BY <1>1, <2>2, <3>1 DEF State, Session, PlayerStates
  <2> QED
    BY <2>1, <2>2
<1>4. ASSUME NEW d \in Conns, d # c PROVE State(d)' = State(d)
  <2>1. TokenBySocketMap'[d] = TokenBySocketMap[d]
    BY <1>1
  <2>2. TokenBySocketMap[d] # None => TokenBySocketMap[d] # t
    BY <1>4 DEF SocketIndexSound
  <2>3. TokenBySocketMap[d] # None =>
          PlayerSessionMap'[TokenBySocketMap[d]]
            = PlayerSessionMap[TokenBySocketMap[d]]
    BY <1>1, <2>2
  <2> QED
    BY <2>1, <2>3 DEF State
<1>5. UNCHANGED [d \in Conns |-> Sockets(unread[d])]
  BY <1>1 DEF Sockets
<1> HIDE DEF t
<1>6. [d \in Conns |-> State(d)]' =
        IF State(c) = "absent" THEN [d \in Conns |-> State(d)]
        ELSE [[d \in Conns |-> State(d)] EXCEPT ![c] = s]
  BY <1>3, <1>4
<1> QED
  BY <1>1, <1>2, <1>5, <1>6
     DEF C!ReadyRequest, C!From, C!Goto, C!thread, ReadyStep, handles

\* The scan of the table is the scan of the players.
LEMMA CountCounts ==
  ASSUME ServerInv, NEW c \in Conns, CountPlayers(c)
  PROVE  C!CountPlayers(c)
<1> USE DEF ServerInv, OnceInv
<1>1. C!TooFew(Live) <=> C!TooFew(C!Present)
  <2>1. ASSUME NEW x \in Live, NEW y \in Live, x # y PROVE ~C!TooFew(C!Present)
    <3> DEFINE p == PlayerSessionMap[x].Socket
               q == PlayerSessionMap[y].Socket
    <3>1. x \in Tokens /\ y \in Tokens /\ p \in Conns /\ q \in Conns
      BY DEF Live, IInv, TypeOK, Session
    <3>2. TokenBySocketMap[p] = x /\ TokenBySocketMap[q] = y
      BY <3>1 DEF SocketIndexExact
    <3>3. x # None /\ y # None
      BY <3>1, NoneAssumption
    <3>4. p # q /\ p \in C!Present /\ q \in C!Present
      BY <2>1, <3>1, <3>2, <3>3, PresentConns
    <3> QED
      BY <3>4 DEF C!TooFew
  <2>2. ASSUME NEW p \in C!Present, NEW q \in C!Present, p # q PROVE ~C!TooFew(Live)
    <3>1. /\ p \in Conns /\ q \in Conns
          /\ TokenBySocketMap[p] # None /\ TokenBySocketMap[q] # None
      BY PresentConns
    <3>2. /\ TokenBySocketMap[p] \in Live /\ TokenBySocketMap[q] \in Live
          /\ TokenBySocketMap[p] # TokenBySocketMap[q]
      BY <2>2, <3>1 DEF IInv, SocketIndexSound
    <3> QED
      BY <3>2 DEF C!TooFew
  <2> QED
    BY <2>1, <2>2 DEF C!TooFew
<1>2. UNCHANGED [d \in Conns |-> State(d)]
  BY DEF CountPlayers, SkipScan, BeginScan, maps, State
<1>3. CASE C!TooFew(Live)
  <2>1. UNCHANGED [d \in Conns |-> Sockets(unread[d])]
    BY <1>3 DEF CountPlayers, SkipScan, maps, Sockets
  <2> QED
    BY <1>1, <1>2, <1>3, <2>1
       DEF CountPlayers, handles, C!CountPlayers, C!From, C!Goto, C!thread
<1>4. CASE ~C!TooFew(Live)
  <2>1. UNCHANGED TokenBySocketMap /\ unread' = [unread EXCEPT ![c] = Live]
    BY <1>4 DEF CountPlayers, BeginScan, maps
  <2>2. C!Present = Sockets(Live)
    BY PresentConns
  <2>3. unread \in [Conns -> SUBSET Live]
    BY DEF ScansLive
  <2>4. [d \in Conns |-> Sockets(unread[d])]' =
          [[d \in Conns |-> Sockets(unread[d])] EXCEPT ![c] = C!Present]
    BY <2>1, <2>2, <2>3 DEF Sockets
  <2> QED
    BY <1>1, <1>2, <1>4, <2>4
       DEF CountPlayers, handles, C!CountPlayers, C!From, C!Goto, C!thread
<1> QED
  BY <1>3, <1>4

\* The state it reads is the one of the player whose session it is.
LEMMA ScanOneScans ==
  ASSUME ServerInv, NEW c \in Conns, NEW t \in Tokens, ScanOne(c, t)
  PROVE  \E p \in Conns : C!ScanOne(c, p)
<1> USE DEF ServerInv, OnceInv
<1> DEFINE p == PlayerSessionMap[t].Socket
<1>1. t \in unread[c] /\ t \in Live /\ t # None
  BY NoneAssumption DEF ScanOne, ScansLive
<1>2. p \in Conns /\ TokenBySocketMap[p] = t
  BY <1>1 DEF Live, IInv, TypeOK, Session, SocketIndexExact
<1>3. State(p) = PlayerSessionMap[t].CurrentState
  BY <1>1, <1>2 DEF State
<1>4. p \in Sockets(unread[c])
  BY <1>1, <1>2 DEF Sockets
<1>5. /\ UNCHANGED TokenBySocketMap /\ unread \in [Conns -> SUBSET Live]
      /\ unread' = [unread EXCEPT ![c] = @ \ {t}]
  BY DEF ScanOne, vars, maps, ScansLive
<1>6. \A d \in Conns : TokenBySocketMap[d] = t <=> d = p
  BY <1>1, <1>2 DEF IInv, SocketIndexSound
<1>7. Sockets(unread[c] \ {t}) = Sockets(unread[c]) \ {p}
  BY <1>6 DEF Sockets
<1> HIDE DEF p
<1>8. [d \in Conns |-> Sockets(unread[d])]' =
        [[d \in Conns |-> Sockets(unread[d])] EXCEPT ![c] = @ \ {p}]
  BY <1>5, <1>7 DEF Sockets
<1>9. UNCHANGED [d \in Conns |-> State(d)]
  BY DEF ScanOne, vars, maps, State
<1> QED
  BY <1>2, <1>3, <1>4, <1>8, <1>9
     DEF ScanOne, handles, C!ScanOne, C!From, C!IsReady, C!thread

\* When no session is left to read no player is.
LEMMA ScanDoneEnds ==
  ASSUME NEW c \in Conns, ScanDone(c)
  PROVE  C!ScanDone(c)
<1>1. unread[c] = {} /\ UNCHANGED <<maps, unread>>
  BY DEF ScanDone, EndScan
<1>2. Sockets(unread[c]) = {}
  BY <1>1 DEF Sockets
<1> QED
  BY <1>1, <1>2, TableKept
     DEF ScanDone, handles, C!ScanDone, C!From, C!Goto, C!thread

\* Every step of the server is a step of Countdown or one that it does not see.
LEMMA StepOfCountdown ==
  ASSUME ServerInv, [ServerNext]_serverVars PROVE [C!Next]_C!vars
<1> USE DEF C!vars, C!local, C!thread, countdown, handles, locals
<1>1. ASSUME NEW c \in Conns, SessionStep(c) PROVE UNCHANGED C!vars
  <2>1. UNCHANGED maps
    BY <1>1 DEF SessionStep, Accept, Enqueue, LoginRequest, ListRequest,
       ListResponse, Disconnect, Lookup, Close
  <2> QED
    BY <1>1, <2>1, TableKept DEF SessionStep
<1>2. ASSUME NEW c \in Conns, InsertStep(c) \/ EraseStep(c) PROVE C!Next
  BY <1>2, InsertJoins, EraseLeaves DEF C!Next
<1>3. ASSUME NEW c \in Conns, NEW isReady \in BOOLEAN, ReadyStep(c, isReady)
      PROVE  C!Next
  BY <1>3, ReadyWrites DEF C!Next
<1>4. ASSUME NEW c \in Conns, CheckFlagStep(c) PROVE C!Next
  BY <1>4 DEF CheckFlagStep, C!Next, C!Handler
<1>5. ASSUME NEW c \in Conns, CountPlayers(c) \/ ScanDone(c) PROVE C!Next
  BY <1>5, CountCounts, ScanDoneEnds DEF C!Next, C!Handler
<1>6. ASSUME NEW c \in Conns, NEW t \in Tokens, ScanOne(c, t) PROVE C!Next
  BY <1>6, ScanOneScans DEF C!Next, C!Handler
<1>7. ASSUME NEW c \in Conns, DecideStep(c) PROVE C!Next
  BY <1>7 DEF DecideStep, StartOrStop, C!Next, C!Handler
<1>8. ASSUME NEW c \in Conns, StopStep(c) PROVE C!Next
  BY <1>8 DEF StopStep, C!Next, C!Handler
<1>9. ASSUME NEW k \in Timers, TimerStep(k) \/ TimerSays(k) PROVE C!Next
  BY <1>9 DEF TimerStep, TimerSays, C!Next, C!Timer
<1>10. ASSUME NEW th \in Threads, BroadcastStep(th) PROVE UNCHANGED C!vars
  BY <1>10, TableKept DEF BroadcastStep, BroadcastLock, BroadcastDone
<1>11. ASSUME NEW th \in Threads, NEW t \in Tokens, SendStep(th, t)
       PROVE  UNCHANGED C!vars
  BY <1>11, TableKept DEF SendStep, Send
<1>12. CASE UNCHANGED serverVars
  BY <1>12, TableKept DEF serverVars, vars
<1> QED
  BY <1>1, <1>2, <1>3, <1>4, <1>5, <1>6, <1>7, <1>8, <1>9, <1>10, <1>11, <1>12
     DEF ServerNext, HandlerStep

\* The scans stay among the sessions of the table.
LEMMA ScansStep ==
  ASSUME ServerInv, [ServerNext]_serverVars PROVE ScansLive'
<1> USE DEF ServerInv, OnceInv, IInv, TypeOK, ScansLive, Threads, Goto
<1>0. ASSUME UNCHANGED unread, Live \subseteq Live',
             \A c \in Conns : pc[c] = "scan" => pc'[c] = "scan"
      PROVE  ScansLive'
  BY <1>0
<1>1. ASSUME NEW c \in Conns, SessionStep(c) PROVE ScansLive'
  <2>1. UNCHANGED <<maps, unread>>
    BY <1>1 DEF SessionStep, Accept, Enqueue, LoginRequest, ListRequest,
       ListResponse, Disconnect, Lookup, Close, countdown
  <2>2. \A d \in Conns : pc[d] = "scan" => pc'[d] = "scan"
    BY <1>1 DEF SessionStep, Accept, Enqueue, LoginRequest, ListRequest,
       ListResponse, Disconnect, Lookup, Close
  <2> QED
    BY <1>0, <2>1, <2>2 DEF maps, Live
<1>2. ASSUME NEW c \in Conns, InsertStep(c) PROVE ScansLive'
  <2>1. Live \subseteq Live'
    BY <1>2, NoneAssumption
       DEF InsertStep, Insert, StoreSession, Live, JobOfStep, Session, PlayerStates
  <2>2. \A d \in Conns : pc[d] = "scan" => pc'[d] = "scan"
    BY <1>2 DEF InsertStep, Insert
  <2> QED
    BY <1>0, <1>2, <2>1, <2>2 DEF InsertStep, countdown
<1>3. ASSUME NEW c \in Conns, EraseStep(c) PROVE ScansLive'
  <2>1. \A d \in Conns : pc[d] # "scan"
    BY <1>3 DEF EraseStep, Erase, LockExclusive, NoReaders, ReadersExact
  <2>2. UNCHANGED unread
    BY <1>3 DEF EraseStep, countdown
  <2> QED
    BY <2>1, <2>2
<1>4. ASSUME NEW c \in Conns, NEW isReady \in BOOLEAN, ReadyStep(c, isReady)
      PROVE  ScansLive'
  <2>1. UNCHANGED unread /\ pc[c] = "recv"
    BY <1>4 DEF ReadyStep, ReadyRequest, UnknownToken
  <2>2. Live' = Live
    <3>1. CASE TokenBySocketMap[c] = None
      BY <1>4, <3>1 DEF ReadyStep, UnknownToken, maps, Live
    <3>2. CASE TokenBySocketMap[c] # None
      <4> DEFINE s == IF isReady THEN "Ready" ELSE "Lobby"
      <4>1. ReadyRequest(c, TokenBySocketMap[c], s) /\ s \in PlayerStates
        BY <1>4, <3>2 DEF ReadyStep, PlayerStates
      <4> HIDE DEF s
      <4> QED
        BY <4>1, StateWrite DEF ReadyRequest
    <3> QED
      BY <3>1, <3>2
  <2>3. \A d \in Conns : pc[d] = "scan" => pc'[d] = "scan"
    BY <1>4, <2>1 DEF ReadyStep, ReadyRequest, UnknownToken
  <2> QED
    BY <1>0, <2>1, <2>2, <2>3
<1>5. ASSUME NEW c \in Conns, CheckFlagStep(c) \/ DecideStep(c) \/ StopStep(c)
      PROVE  ScansLive'
  <2>1. UNCHANGED <<maps, unread>>
    BY <1>5 DEF CheckFlagStep, DecideStep, StopStep, SkipScan, vars
  <2>2. \A d \in Conns : pc[d] = "scan" => pc'[d] = "scan"
    BY <1>5 DEF CheckFlagStep, DecideStep, StopStep, SkipScan, Return,
       AnnounceStop, vars
  <2> QED
    BY <1>0, <2>1, <2>2 DEF maps, Live
<1>6. ASSUME NEW c \in Conns, CountPlayers(c) PROVE ScansLive'
  <2>1. UNCHANGED maps
    BY <1>6 DEF CountPlayers, SkipScan, BeginScan
  <2>2. \A d \in Conns : pc[d] = "scan" => pc'[d] = "scan"
    BY <1>6 DEF CountPlayers, SkipScan, BeginScan
  <2>3. CASE UNCHANGED unread
    BY <1>0, <2>1, <2>2, <2>3 DEF maps, Live
  <2>4. CASE unread' = [unread EXCEPT ![c] = Live] /\ BeginScan(c)
    BY <2>1, <2>4 DEF maps, Live, BeginScan
  <2> QED
    BY <1>6, <2>3, <2>4 DEF CountPlayers
<1>7. ASSUME NEW c \in Conns, NEW t \in Tokens, ScanOne(c, t) PROVE ScansLive'
  BY <1>7 DEF ScanOne, vars, maps, Live
<1>8. ASSUME NEW c \in Conns, ScanDone(c) PROVE ScansLive'
  BY <1>8 DEF ScanDone, EndScan, maps, Live
<1>9. ASSUME NEW k \in Timers, TimerStep(k) \/ TimerSays(k) PROVE ScansLive'
  BY <1>9, ThreadAssumption
     DEF TimerStep, TimerSays, TimerBroadcast, vars, maps, Live
<1>10. ASSUME NEW th \in Threads,
              BroadcastStep(th) \/ \E t \in Tokens : SendStep(th, t)
       PROVE  ScansLive'
  BY <1>10 DEF BroadcastStep, BroadcastLock, BroadcastDone, SendStep, Send,
     countdown, maps, Live
<1>11. CASE UNCHANGED serverVars
  BY <1>11 DEF serverVars, countdown, vars, maps, Live
<1> HIDE DEF ServerInv, OnceInv, IInv, TypeOK, ScansLive, Threads, Goto
<1> QED
  BY <1>1, <1>2, <1>3, <1>4, <1>5, <1>6, <1>7, <1>8, <1>9, <1>10, <1>11
     DEF ServerNext, HandlerStep

\* A decision to start or to stop goes on, and may start one countdown thread.
LEMMA DecideMoves ==
  ASSUME C!TypeOK, NEW c \in Conns, StartOrStop(c)
  PROVE  /\ step' \in [Threads -> C!HandlerSteps \cup C!TimerSteps]
         /\ step'[c] \in {step[c], "recv"} \cup DecideSteps
         /\ \A th \in Threads \ {c} : step'[th] \in {step[th], "loop"}
         /\ \A d \in Conns \ {c} : step'[d] = step[d]
<1> USE ThreadAssumption DEF C!TypeOK, C!HandlerSteps, C!TimerSteps, C!From,
      C!Goto, C!Misuse, C!thread, Threads, DecideSteps, StopSteps
<1>1. CASE C!ConsiderStop(c) \/ C!CompareExchange(c) \/ C!TestOld(c) \/ C!DetachOld(c)
  BY <1>1 DEF C!ConsiderStop, C!CompareExchange, C!TestOld, C!DetachOld
<1>2. CASE C!Detach(c) \/ C!ReadFlag(c) \/ C!ClearFlag(c) \/ C!TestJoinable(c)
  BY <1>2 DEF C!Detach, C!ReadFlag, C!ClearFlag, C!TestJoinable
<1>3. CASE C!CallJoin(c) \/ C!JoinReturns(c) \/ C!ResetHandle(c)
  BY <1>3 DEF C!CallJoin, C!JoinReturns, C!ResetHandle
<1>4. CASE C!Assign(c)
  BY <1>4 DEF C!Assign
<1>5. ASSUME NEW k \in Timers, C!Create(c, k)
      PROVE  /\ step' \in [Threads -> C!HandlerSteps \cup C!TimerSteps]
             /\ step'[c] \in {step[c], "assign"}
             /\ \A th \in Threads \ {c} : step'[th] \in {step[th], "loop"}
             /\ \A d \in Conns \ {c} : step'[d] = step[d]
  BY <1>5 DEF C!Create
<1> QED
  BY <1>1, <1>2, <1>3, <1>4, <1>5 DEF StartOrStop

\* What a thread that stays where it is has to do with the countdown stays so.
LEMMA MatchFrame ==
  ASSUME StepsMatch,
         \A c \in Conns :
           \/ InStep(c)'
           \/ /\ step'[c] = step[c] /\ pc'[c] = pc[c] /\ job'[c] = job[c],
         \A k \in Timers :
           \/ step'[k] # "free"
           \/ ~Broadcasting(k)'
           \/ step'[k] = step[k] /\ (Broadcasting(k)' => Broadcasting(k))
  PROVE  StepsMatch'
  BY DEF StepsMatch, InStep, OwnState, Broadcasting

\* Every step of the server keeps the threads' two places together.
LEMMA MatchStep ==
  ASSUME ServerInv, C!TypeOK, [ServerNext]_serverVars PROVE StepsMatch'
<1> USE ThreadAssumption DEF ServerInv, OnceInv, IInv, TypeOK, C!TypeOK, Threads,
      Goto, C!Goto, C!From, NoJob
<1>1. ASSUME NEW c \in Conns, SessionStep(c) PROVE StepsMatch'
  <2>1. UNCHANGED step
    BY <1>1 DEF SessionStep, countdown
  <2>2. \A d \in Conns \ {c} : pc'[d] = pc[d] /\ job'[d] = job[d]
    BY <1>1 DEF SessionStep, Accept, Enqueue, LoginRequest, ListRequest,
       ListResponse, Disconnect, Lookup, Close
  <2>3. \A k \in Timers : pc'[k] = pc[k]
    BY <1>1 DEF SessionStep, Accept, Enqueue, LoginRequest, ListRequest,
       ListResponse, Disconnect, Lookup, Close
  <2>4. /\ pc[c] \notin {"check", "scan", "decide", "bcast", "sending"}
        /\ \/ pc'[c] \notin {"check", "scan", "decide", "bcast", "sending"}
           \/ pc'[c] = "bcast" /\ job'[c].kind = "join"
    BY <1>1 DEF SessionStep, Accept, Enqueue, LoginRequest, ListRequest,
       ListResponse, Disconnect, Lookup, Close
  <2>5. step[c] = "recv"
    BY <2>4 DEF StepsMatch, InStep, OwnState, Broadcasting
  <2>6. InStep(c)'
    BY <2>1, <2>4, <2>5 DEF InStep, OwnState, Broadcasting
  <2> QED
    BY <2>1, <2>2, <2>3, <2>6, MatchFrame DEF Broadcasting
<1>2. ASSUME NEW c \in Conns, InsertStep(c) \/ EraseStep(c) PROVE StepsMatch'
  <2>1. /\ UNCHANGED step
        /\ \A th \in Threads \ {c} : pc'[th] = pc[th] /\ job'[th] = job[th]
        /\ pc[c] \in {"insert", "erase"}
        /\ \/ pc'[c] = "recv"
           \/ pc'[c] = "bcast" /\ job'[c].kind = "leave"
    <3>1. CASE InsertStep(c)
      BY <3>1 DEF InsertStep, Insert, countdown
    <3>2. CASE EraseStep(c)
      <4>1. job[c].kind = "leave" /\ job[c] \in Job
        BY <3>2 DEF EraseStep, Erase, JobOfStep
      <4>2. \E u : job' = [job EXCEPT ![c].player = u]
        BY <3>2 DEF EraseStep, Erase
      <4>3. job'[c].kind = "leave"
        BY <4>1, <4>2 DEF Job
      <4> QED
        BY <3>2, <4>3 DEF EraseStep, Erase, countdown
    <3> QED
      BY <1>2, <3>1, <3>2
  <2>2. step[c] = "recv"
    BY <2>1 DEF StepsMatch, InStep, OwnState, Broadcasting
  <2>3. InStep(c)'
    BY <2>1, <2>2 DEF InStep, OwnState, Broadcasting
  <2> QED
    BY <2>1, <2>3, MatchFrame DEF Broadcasting
<1>3. ASSUME NEW c \in Conns, NEW isReady \in BOOLEAN, ReadyStep(c, isReady)
      PROVE  StepsMatch'
  <2>1. /\ step' = [step EXCEPT ![c] = "check"]
        /\ \A th \in Threads \ {c} : pc'[th] = pc[th] /\ job'[th] = job[th]
        /\ \/ pc'[c] = "check"
           \/ pc'[c] = "bcast" /\ job'[c].kind = "state"
    BY <1>3 DEF ReadyStep, ReadyRequest, UnknownToken
  <2>2. step'[c] = "check" /\ \A th \in Threads \ {c} : step'[th] = step[th]
    BY <2>1
  <2>3. InStep(c)'
    BY <2>1, <2>2 DEF InStep, OwnState, Broadcasting
  <2> QED
    BY <2>1, <2>2, <2>3, MatchFrame DEF Broadcasting
<1>4. ASSUME NEW c \in Conns, CheckFlagStep(c) \/ CountPlayers(c) \/ ScanDone(c)
      PROVE  StepsMatch'
  <2>1. \A th \in Threads \ {c} :
          step'[th] = step[th] /\ pc'[th] = pc[th] /\ job'[th] = job[th]
    BY <1>4 DEF CheckFlagStep, C!CheckFlag, CountPlayers, ScanDone, SkipScan,
       BeginScan, EndScan, vars
  <2>2. \/ pc'[c] = "check" /\ step'[c] = "lock"
        \/ pc'[c] = "scan" /\ step'[c] = "scan"
        \/ pc'[c] = "decide" /\ step'[c] \in {"cannot", "cas"}
    BY <1>4 DEF CheckFlagStep, C!CheckFlag, CountPlayers, ScanDone, SkipScan,
       BeginScan, EndScan, vars
  <2>3. InStep(c)'
    <3>1. CASE pc'[c] = "check" /\ step'[c] = "lock"
      BY <3>1 DEF InStep
    <3>2. CASE pc'[c] = "scan" /\ step'[c] = "scan"
      BY <3>2 DEF InStep
    <3>3. CASE pc'[c] = "decide" /\ step'[c] \in {"cannot", "cas"}
      BY <3>3 DEF InStep, OwnState, DecideSteps
    <3> QED
      BY <2>2, <3>1, <3>2, <3>3
  <2> QED
    BY <2>1, <2>3, MatchFrame DEF Broadcasting
<1>5. ASSUME NEW c \in Conns, DecideStep(c) PROVE StepsMatch'
  <2>0. pc[c] = "decide"
    BY <1>5 DEF DecideStep
  <2>1. step[c] \in DecideSteps
    <3>1. InStep(c)
      BY DEF StepsMatch
    <3> QED
      BY <2>0, <3>1 DEF InStep, OwnState, Broadcasting
  <2>2. /\ step'[c] \in {step[c], "recv"} \cup DecideSteps
        /\ \A th \in Threads \ {c} : step'[th] \in {step[th], "loop"}
        /\ \A d \in Conns \ {c} : step'[d] = step[d]
    BY <1>5, DecideMoves DEF DecideStep
  <2>3. /\ \A th \in Threads \ {c} : pc'[th] = pc[th] /\ job'[th] = job[th]
        /\ pc'[c] = IF step'[c] = "recv" THEN "recv" ELSE "decide"
    BY <1>5, <2>0 DEF DecideStep, Return, vars
  <2>4. InStep(c)'
    BY <2>1, <2>2, <2>3 DEF InStep, OwnState, Broadcasting
  <2> QED
    BY <2>2, <2>3, <2>4, MatchFrame DEF Broadcasting
<1>6. ASSUME NEW c \in Conns, StopStep(c) PROVE StepsMatch'
  <2>1. /\ step' = [step EXCEPT ![c] = "recv"]
        /\ \A th \in Threads \ {c} : pc'[th] = pc[th] /\ job'[th] = job[th]
        /\ \/ pc'[c] = "recv"
           \/ pc'[c] = "bcast" /\ job'[c].kind = "stop"
    BY <1>6 DEF StopStep, C!BroadcastStop, AnnounceStop, Return
  <2>2. step'[c] = "recv" /\ \A th \in Threads \ {c} : step'[th] = step[th]
    BY <2>1
  <2>3. InStep(c)'
    BY <2>1, <2>2 DEF InStep, OwnState, Broadcasting
  <2> QED
    BY <2>1, <2>2, <2>3, MatchFrame DEF Broadcasting
<1>7. ASSUME NEW k \in Timers, TimerStep(k) PROVE StepsMatch'
  <2>1. UNCHANGED <<pc, job>> /\ pc[k] = "closed"
    BY <1>7 DEF TimerStep, vars
  <2>2. \A th \in Threads \ {k} : step'[th] = step[th]
    BY <1>7 DEF TimerStep, C!Loop, C!Sleep, C!Final, C!FlagReset
  <2> QED
    BY <2>1, <2>2, MatchFrame DEF Broadcasting
<1>8. ASSUME NEW k \in Timers, TimerSays(k) PROVE StepsMatch'
  <2>1. \A th \in Threads \ {k} : pc'[th] = pc[th] /\ job'[th] = job[th]
    BY <1>8 DEF TimerSays, TimerBroadcast
  <2>2. /\ step'[k] \in {"sleep", "flagReset"}
        /\ \A th \in Threads \ {k} : step'[th] = step[th]
    BY <1>8 DEF TimerSays, C!BroadcastTick, C!BroadcastStartGame
  <2> QED
    BY <2>1, <2>2, MatchFrame DEF Broadcasting
<1>9. ASSUME NEW th \in Threads, BroadcastStep(th) PROVE StepsMatch'
  <2>1. UNCHANGED step
    BY <1>9 DEF BroadcastStep, countdown
  <2>2. /\ Broadcasting(th)
        /\ \A x \in Threads \ {th} : pc'[x] = pc[x] /\ job'[x] = job[x]
        /\ \/ pc'[th] = "sending" /\ job'[th] = job[th]
           \/ pc'[th] = After(job[th].kind)
    BY <1>9 DEF BroadcastStep, BroadcastLock, BroadcastDone, Broadcasting
  <2>3. ASSUME th \in Conns PROVE InStep(th)'
    <3>1. job[th].kind \in {"join", "leave", "state", "stop"}
      BY <2>2, <2>3 DEF JobOfStep
    <3>2. step[th] = IF job[th].kind = "state" THEN "check" ELSE "recv"
      BY <2>2, <2>3 DEF StepsMatch, InStep, OwnState, Broadcasting
    <3>3. CASE pc'[th] = "sending" /\ job'[th] = job[th]
      BY <2>1, <3>2, <3>3 DEF InStep, OwnState, Broadcasting
    <3>4. CASE pc'[th] = After(job[th].kind)
      BY <2>1, <3>1, <3>2, <3>4 DEF InStep, OwnState, Broadcasting, After
    <3> QED
      BY <2>2, <3>3, <3>4
  <2>4. \A k \in Timers : step[k] = step'[k] /\ (Broadcasting(k)' => Broadcasting(k))
    BY <2>1, <2>2 DEF Broadcasting
  <2>5. \A c \in Conns : InStep(c)' \/
          (step'[c] = step[c] /\ pc'[c] = pc[c] /\ job'[c] = job[c])
    BY <2>1, <2>2, <2>3
  <2> QED
    BY <2>4, <2>5, MatchFrame
<1>10. ASSUME NEW th \in Threads, NEW t \in Tokens, SendStep(th, t) PROVE StepsMatch'
  BY <1>10, MatchFrame DEF SendStep, Send, countdown, Broadcasting
<1>11. ASSUME NEW c \in Conns, NEW t \in Tokens, ScanOne(c, t) PROVE StepsMatch'
  BY <1>11, MatchFrame DEF ScanOne, vars, Broadcasting
<1>12. CASE UNCHANGED serverVars
  BY <1>12, MatchFrame DEF serverVars, countdown, vars, Broadcasting
<1> HIDE DEF ServerInv, OnceInv, IInv, TypeOK, C!TypeOK, Threads, Goto, C!Goto,
      C!From, NoJob
<1> QED
  BY <1>1, <1>2, <1>3, <1>4, <1>5, <1>6, <1>7, <1>8, <1>9, <1>10, <1>11, <1>12
     DEF ServerNext, HandlerStep

\* Countdown is here twice, as C for the server and as CP for its proofs: the
\* two have the same initial states,
LEMMA SameInit == C!Init <=> CP!Init
  BY DEF C!Init, CP!Init, C!Other, CP!Other

\* the same types
LEMMA SameType == C!TypeOK <=> CP!TypeOK
  BY DEF C!TypeOK, CP!TypeOK, C!Message, CP!Message, C!HandlerSteps,
     CP!HandlerSteps, C!TimerSteps, CP!TimerSteps

\* and the same steps.
LEMMA SameNext == C!Next <=> CP!Next
<1>1. C!Present = CP!Present
  BY DEF C!Present, CP!Present
<1> QED
  BY <1>1
     DEF C!Next, CP!Next, C!Handler, CP!Handler, C!Timer, CP!Timer, C!Join,
         C!Leave, C!ReadyRequest, C!CheckFlag, C!CountPlayers, C!ScanOne,
         C!ScanDone, C!ConsiderStop, C!CompareExchange, C!TestOld, C!DetachOld,
         C!Create, C!Assign, C!Detach, C!ReadFlag, C!ClearFlag, C!TestJoinable, C!CallJoin,
         C!JoinReturns, C!ResetHandle, C!BroadcastStop, C!Loop,
         C!BroadcastTick, C!Sleep, C!Final, C!BroadcastStartGame, C!FlagReset,
         C!From, C!Goto, C!NoScan, C!Misuse, C!TooFew, C!IsReady, C!LoopGoesOn,
         C!SecondShown, C!Elapsed, C!Tick, C!Other, C!local, C!thread, CP!Join,
         CP!Leave, CP!ReadyRequest, CP!CheckFlag, CP!CountPlayers, CP!ScanOne,
         CP!ScanDone, CP!ConsiderStop, CP!CompareExchange, CP!TestOld,
         CP!DetachOld, CP!Create, CP!Assign, CP!Detach, CP!ReadFlag, CP!ClearFlag, CP!TestJoinable,
         CP!CallJoin, CP!JoinReturns, CP!ResetHandle, CP!BroadcastStop,
         CP!Loop, CP!BroadcastTick, CP!Sleep, CP!Final, CP!BroadcastStartGame,
         CP!FlagReset, CP!From, CP!Goto, CP!NoScan, CP!Misuse, CP!TooFew,
         CP!IsReady, CP!LoopGoesOn, CP!SecondShown, CP!Elapsed, CP!Tick,
         CP!Other, CP!local, CP!thread

\* What Countdown assumes of its constants is so.
LEMMA CountdownAssumed ==
  /\ {"unready", "move"} \subseteq {"unready", "move"}
  /\ CountdownSeconds \in Nat \ {0}
  /\ Conns \cap Timers = {} /\ None \notin Timers
  BY SecondsAssumption, ThreadAssumption, NoThreadAssumption

\* ServerInv and the invariant of Countdown hold at the start.
LEMMA InitServer == ServerInit => ServerInv /\ CP!SteadyInv
<1> SUFFICES ASSUME ServerInit PROVE ServerInv /\ CP!SteadyInv
  OBVIOUS
<1>1. OnceInv
  BY InitOnce DEF ServerInit
<1>2. StepsMatch
  BY ThreadAssumption
     DEF ServerInit, Init, C!Init, StepsMatch, InStep, OwnState, Broadcasting,
         Threads
<1>3. ScansLive
  BY DEF ServerInit, ScansLive
<1>4. CP!SteadyInv
  BY SameInit, CP!InitSteady, CountdownAssumed DEF ServerInit
<1> QED
  BY <1>1, <1>2, <1>3, <1>4 DEF ServerInv

\* While no connection logs in twice, each keeps the other: the table is what the
\* countdown takes it to be, and the countdown leaves the table alone.
LEMMA NextServer ==
  ASSUME "relogin" \notin Env, ServerInv, CP!SteadyInv, [ServerNext]_serverVars
  PROVE  (ServerInv /\ CP!SteadyInv)'
<1>1. [Next]_vars
  BY StepOfSessions DEF serverVars
<1>2. OnceInv'
  BY <1>1, NextIInv, NextOnce DEF ServerInv, OnceInv
<1>3. C!TypeOK
  BY SameType DEF CP!SteadyInv, CP!IInv
<1>4. StepsMatch'
  BY <1>3, MatchStep
<1>5. ScansLive'
  BY ScansStep
<1>6. [CP!Next]_(CP!vars)
  BY StepOfCountdown, SameNext
     DEF C!vars, CP!vars, C!local, CP!local, C!thread, CP!thread
<1>7. CP!SteadyInv'
  BY <1>6, CP!NextSteady, CountdownAssumed
<1> QED
  BY <1>2, <1>4, <1>5, <1>7 DEF ServerInv

\* They hold in every state.
LEMMA ServerInvariant ==
  ASSUME "relogin" \notin Env
  PROVE  ServerSpec => [](ServerInv /\ CP!SteadyInv)
<1>1. ServerInv /\ CP!SteadyInv /\ [ServerNext]_serverVars
        => (ServerInv /\ CP!SteadyInv)'
  BY NextServer
<1> QED
  BY <1>1, InitServer, PTL DEF ServerSpec

\* The countdown of the server is the one of Countdown.
THEOREM CountdownRefined ==
  ASSUME "relogin" \notin Env PROVE ServerSpec => CountdownSpec
<1>1. ServerInit => C!Init
  BY DEF ServerInit
<1>2. ServerInv /\ [ServerNext]_serverVars => [C!Next]_C!vars
  BY StepOfCountdown
<1> QED
  BY <1>1, <1>2, ServerInvariant, PTL DEF ServerSpec, CountdownSpec, C!Spec

------------------------------------------------------------------------------
(* What the clients are sent.                                               *)

\* The variables of the messages about the countdown.
NewsTypeOK ==
  /\ said \in [Threads -> C!Message]
  /\ told \in [Conns -> C!Message]
  /\ crossed \in BOOLEAN

\* What is said and told is a message of the countdown.
LEMMA NewsTypeStep ==
  ASSUME NewsTypeOK, C!TypeOK, C!TypeOK', [ServerNext]_serverVars
  PROVE  NewsTypeOK'
<1> USE DEF NewsTypeOK, news
<1>1. shown \in C!Message /\ shown' \in C!Message /\ C!Other("none") \in C!Message
  BY SecondsAssumption DEF C!TypeOK, C!Message, C!Other
<1> HIDE DEF C!TypeOK
<1>2. ASSUME NEW c \in Conns, SessionStep(c) PROVE NewsTypeOK'
  BY <1>2 DEF SessionStep
<1>3. ASSUME NEW c \in Conns, InsertStep(c) \/ EraseStep(c) PROVE NewsTypeOK'
  BY <1>1, <1>3 DEF InsertStep, EraseStep
<1>4. ASSUME NEW c \in Conns, NEW isReady \in BOOLEAN, ReadyStep(c, isReady)
      PROVE  NewsTypeOK'
  BY <1>4 DEF ReadyStep
<1>5. ASSUME NEW c \in Conns, CheckFlagStep(c) \/ CountPlayers(c) \/ ScanDone(c)
      PROVE  NewsTypeOK'
  BY <1>5 DEF CheckFlagStep, CountPlayers, ScanDone
<1>6. ASSUME NEW c \in Conns, NEW t \in Tokens, ScanOne(c, t) PROVE NewsTypeOK'
  BY <1>6 DEF ScanOne
<1>7. ASSUME NEW c \in Conns, DecideStep(c) PROVE NewsTypeOK'
  BY <1>7 DEF DecideStep
<1>8. ASSUME NEW c \in Conns, StopStep(c) PROVE NewsTypeOK'
  BY <1>1, <1>8 DEF StopStep, Announce
<1>9. ASSUME NEW k \in Timers, TimerStep(k) \/ TimerSays(k) PROVE NewsTypeOK'
  BY <1>1, <1>9 DEF TimerStep, TimerSays, Announce
<1>10. ASSUME NEW th \in Threads, BroadcastStep(th) PROVE NewsTypeOK'
  BY <1>1, <1>10 DEF BroadcastStep
<1>11. ASSUME NEW th \in Threads, NEW t \in Tokens, SendStep(th, t)
       PROVE  NewsTypeOK'
  BY <1>11 DEF SendStep
<1>12. CASE UNCHANGED serverVars
  BY <1>12 DEF serverVars
<1> QED
  BY <1>2, <1>3, <1>4, <1>5, <1>6, <1>7, <1>8, <1>9, <1>10, <1>11, <1>12
     DEF ServerNext, HandlerStep

\* Nothing is announced and whoever was told keeps up.
LEMMA NewsFrame ==
  ASSUME NewsInv, UNCHANGED <<shown, crossed>>, steady' => steady,
         \A x \in Threads :
           Announcing(x)' => Announcing(x) /\ said'[x] = said[x],
         \A t \in Live' :
           \/ told'[PlayerSessionMap'[t].Socket] = shown
           \/ /\ t \in Live
              /\ told'[PlayerSessionMap'[t].Socket]
                   = told[PlayerSessionMap[t].Socket]
              /\ \A x \in Threads : OnItsWay(x, t) => OnItsWay(x, t)'
  PROVE  NewsInv'
<1>1. OneAnnounces'
  BY DEF NewsInv, OneAnnounces, Threads
<1>2. steady' => ~crossed'
  BY DEF NewsInv, ClientsFollow
<1>3. ASSUME ~crossed, NEW t \in Live' PROVE Follows(t)'
  <2>1. CASE told'[PlayerSessionMap'[t].Socket] = shown
    BY <2>1 DEF Follows
  <2>2. CASE told'[PlayerSessionMap'[t].Socket] # shown
    <3>1. /\ t \in Live
          /\ told'[PlayerSessionMap'[t].Socket] = told[PlayerSessionMap[t].Socket]
          /\ \A x \in Threads : OnItsWay(x, t) => OnItsWay(x, t)'
      BY <2>2
    <3>2. Follows(t)
      BY <1>3, <3>1 DEF NewsInv, ClientsFollow
    <3> QED
      BY <2>2, <3>1, <3>2 DEF Follows, C!Descends, C!Tick, C!Other
  <2> QED
    BY <2>1, <2>2
<1> QED
  BY <1>1, <1>2, <1>3 DEF NewsInv, ClientsFollow

\* A thread that is not announcing anything does something else.
LEMMA NewsKept ==
  ASSUME NewsInv, UNCHANGED <<news, shown>>, steady' => steady,
         Live' = Live,
         \A t \in Live : PlayerSessionMap'[t].Socket = PlayerSessionMap[t].Socket,
         \A x \in Threads :
           \/ ~Announcing(x) /\ ~Announcing(x)'
           \/ pc'[x] = pc[x] /\ job'[x] = job[x] /\ todo'[x] = todo[x]
  PROVE  NewsInv'
<1>1. \A x \in Threads : Announcing(x)' => Announcing(x) /\ said'[x] = said[x]
  BY DEF Announcing, Broadcasting, news
<1>2. \A t \in Live, x \in Threads : OnItsWay(x, t) => OnItsWay(x, t)'
  BY DEF OnItsWay, Announcing, Broadcasting, news
<1> QED
  BY <1>1, <1>2, NewsFrame DEF news

\* Someone announces what is shown next, while no one else was announcing.
LEMMA NewsAnnounced ==
  ASSUME NewsInv, NewsTypeOK, NEW x \in Threads, Announce(x),
         Announcing(x)', pc'[x] = "bcast", ~Announcing(x),
         UNCHANGED <<maps, told, steady>>,
         \A y \in Threads : Announcing(y)' => y = x \/ Announcing(y),
         steady => /\ x \in Timers
                   /\ \A y \in Threads : ~Announcing(y)
                   /\ shown' # shown => C!Descends(shown, shown')
  PROVE  NewsInv'
<1>1. ASSUME ~crossed'
      PROVE  /\ ~crossed
             /\ \A y \in Threads : ~Announcing(y)
             /\ said'[x] = shown'
  BY <1>1 DEF Announce, NewsTypeOK
<1>2. ASSUME ~crossed', NEW t \in Live' PROVE Follows(t)'
  <2>1. t \in Live /\ PlayerSessionMap' = PlayerSessionMap
    BY <1>2 DEF Live, maps
  <2>2. \A y \in Threads : ~OnItsWay(y, t)
    BY <1>1, <1>2 DEF OnItsWay
  <2>3. told[PlayerSessionMap[t].Socket] = shown
    BY <1>1, <1>2, <2>1, <2>2 DEF NewsInv, ClientsFollow, Follows
  <2>4. OnItsWay(x, t)'
    BY <1>1, <1>2 DEF OnItsWay
  <2> QED
    BY <2>1, <2>3, <2>4 DEF Follows, C!Descends, C!Tick, C!Other
<1>3. steady' => ~crossed'
  BY DEF NewsInv, ClientsFollow, Announce
<1>4. OneAnnounces'
  BY <1>1, ThreadAssumption DEF OneAnnounces, NewsInv, Threads
<1> QED
  BY <1>2, <1>3, <1>4 DEF NewsInv, ClientsFollow

\* A session enters or leaves the table, and its client knows as much as it
\* should.
LEMMA NewsOfTable ==
  ASSUME ServerInv, NewsTypeOK, NewsInv, NEW c \in Conns,
         InsertStep(c) \/ EraseStep(c)
  PROVE  NewsInv'
<1> USE NoneAssumption DEF ServerInv, OnceInv, IInv, TypeOK, Live
<1>1. /\ UNCHANGED <<shown, crossed, steady, said>>
      /\ \A x \in Threads : Announcing(x)' => Announcing(x)
      /\ \A x \in Threads : pc[x] # "sending"
      /\ \A x \in Threads \ {c} : pc'[x] = pc[x] /\ job'[x] = job[x]
      /\ pc[c] \in {"insert", "erase"}
  <2>1. /\ \A x \in Threads \ {c} : pc'[x] = pc[x] /\ job'[x] = job[x]
        /\ pc[c] \in {"insert", "erase"}
        /\ NoReaders
    BY DEF InsertStep, Insert, EraseStep, Erase, Goto, LockExclusive
  <2>2. ~Announcing(c)'
    <3>1. CASE InsertStep(c)
      BY <3>1 DEF InsertStep, Insert, Goto, Announcing, Broadcasting, Threads
    <3>2. CASE EraseStep(c)
      <4>1. job[c].kind = "leave"
        BY <3>2 DEF EraseStep, Erase, JobOfStep
      <4>2. job[c] \in Job /\ \E u : job' = [job EXCEPT ![c].player = u]
        BY <3>2 DEF EraseStep, Erase, Threads
      <4> QED
        BY <4>1, <4>2 DEF Announcing, Job, Threads
    <3> QED
      BY <3>1, <3>2
  <2>3. \A x \in Threads : pc[x] # "sending"
    BY <2>1 DEF NoReaders, ReadersExact, Job, Kinds
  <2> QED
    BY <2>1, <2>2, <2>3
       DEF InsertStep, EraseStep, countdown, Announcing, Broadcasting
<1>2. ASSUME NEW x \in Threads, NEW t, OnItsWay(x, t) PROVE OnItsWay(x, t)'
  <2>1. x # c /\ pc'[x] = pc[x] /\ job'[x] = job[x] /\ pc[x] # "sending"
    BY <1>1, <1>2 DEF OnItsWay, Announcing, Broadcasting
  <2> QED
    BY <1>1, <1>2, <2>1 DEF OnItsWay, Announcing, Broadcasting
<1>3. CASE InsertStep(c)
  <2> DEFINE n == job[c].token
  <2>1. /\ pc[c] = "insert"
        /\ PlayerSessionMap' = [PlayerSessionMap EXCEPT ![n] =
             [DbId |-> job[c].player, Socket |-> c, CurrentState |-> "Lobby"]]
        /\ told' = [told EXCEPT ![c] = shown]
    BY <1>3 DEF InsertStep, Insert, StoreSession
  <2>2. n \in Tokens
    BY <2>1 DEF JobOfStep, JoinTokensFresh
  <2>3. TokenBySocketMap[c] = None
    BY <2>1 DEF TokenInSession, Broadcasting
  <2>4. ASSUME NEW t \in Live', t # n
        PROVE  /\ t \in Live
               /\ PlayerSessionMap'[t].Socket = PlayerSessionMap[t].Socket
               /\ PlayerSessionMap[t].Socket \in Conns \ {c}
    <3>1. t \in Live /\ PlayerSessionMap'[t] = PlayerSessionMap[t]
      BY <2>1, <2>2, <2>4
    <3>2. TokenBySocketMap[c] # t
      BY <2>3, <3>1
    <3> QED
      BY <3>1, <3>2 DEF SocketIndexExact, Session
  <2>5. PlayerSessionMap'[n].Socket = c /\ told'[c] = shown
    BY <2>1, <2>2 DEF NewsTypeOK
  <2>6. \A t \in Live' : t # n =>
          told'[PlayerSessionMap'[t].Socket] = told[PlayerSessionMap[t].Socket]
    BY <2>1, <2>4 DEF NewsTypeOK
  <2> HIDE DEF n, Live, ServerInv, OnceInv, IInv, TypeOK
  <2> QED
    BY <1>1, <1>2, <2>4, <2>5, <2>6, NewsFrame
<1>4. CASE EraseStep(c)
  <2> DEFINE o == job[c].token
  <2>1. /\ pc[c] = "erase"
        /\ PlayerSessionMap' = [PlayerSessionMap EXCEPT ![o] = None]
        /\ told' = [told EXCEPT ![c] = C!Other("none")]
    BY <1>4 DEF EraseStep, Erase
  <2>2. o = TokenBySocketMap[c]
    BY <2>1 DEF JobOfStep
  <2>3. ASSUME NEW t \in Live'
        PROVE  /\ t \in Live
               /\ PlayerSessionMap'[t].Socket = PlayerSessionMap[t].Socket
               /\ PlayerSessionMap[t].Socket \in Conns \ {c}
    <3>1. t \in Live /\ t # o /\ PlayerSessionMap'[t] = PlayerSessionMap[t]
      BY <2>1, <2>3
    <3> QED
      BY <2>2, <3>1 DEF SocketIndexExact, Session
  <2>4. \A t \in Live' :
          told'[PlayerSessionMap'[t].Socket] = told[PlayerSessionMap[t].Socket]
    BY <2>1, <2>3 DEF NewsTypeOK
  <2> HIDE DEF o, Live, ServerInv, OnceInv, IInv, TypeOK
  <2> QED
    BY <1>1, <1>2, <2>3, <2>4, NewsFrame
<1> QED
  BY <1>3, <1>4

\* A broadcast begins, ends, or reaches a client.
LEMMA NewsOfBroadcast ==
  ASSUME ServerInv, NewsTypeOK, NewsInv, NEW th \in Threads,
         BroadcastStep(th) \/ \E t \in Tokens : SendStep(th, t)
  PROVE  NewsInv'
<1> USE DEF ServerInv, OnceInv, IInv, TypeOK
<1>1. UNCHANGED <<maps, shown, crossed, steady>>
  BY DEF BroadcastStep, BroadcastLock, BroadcastDone, SendStep, Send, countdown
<1>2. Live' = Live /\ PlayerSessionMap' = PlayerSessionMap
  BY <1>1 DEF maps, Live
<1>3. CASE BroadcastStep(th) /\ BroadcastLock(th)
  <2>1. /\ UNCHANGED <<said, told, job>>
        /\ pc[th] = "bcast" /\ pc' = [pc EXCEPT ![th] = "sending"]
        /\ todo' = [todo EXCEPT ![th] = Live]
    BY <1>3 DEF BroadcastStep, BroadcastLock, BroadcastDone, Goto, Targets
  <2>2. \A x \in Threads : Announcing(x)' => Announcing(x)
    BY <2>1 DEF Announcing, Broadcasting
  <2>3. \A x \in Threads, t \in Live : OnItsWay(x, t) => OnItsWay(x, t)'
    BY <1>1, <2>1 DEF OnItsWay, Announcing, Broadcasting
  <2> HIDE DEF ServerInv, OnceInv, IInv, TypeOK
  <2> QED
    BY <1>1, <1>2, <2>1, <2>2, <2>3, NewsFrame
<1>4. CASE BroadcastStep(th) /\ BroadcastDone(th)
  <2>1. /\ UNCHANGED <<told, todo>>
        /\ pc[th] = "sending" /\ todo[th] = {}
        /\ pc' = [pc EXCEPT ![th] = After(job[th].kind)]
        /\ \A x \in Threads \ {th} : job'[x] = job[x] /\ said'[x] = said[x]
    BY <1>4 DEF BroadcastStep, BroadcastLock, BroadcastDone, Goto, NewsTypeOK
  <2>2. job[th].kind \in {"join", "leave", "state", "stop", "tick"}
    BY <2>1 DEF JobOfStep, Broadcasting, Threads
  <2>3. \A x \in Threads : Announcing(x)' => x # th /\ Announcing(x)
    BY <2>1, <2>2 DEF Announcing, Broadcasting, After
  <2>4. \A x \in Threads, t \in Live : OnItsWay(x, t) => OnItsWay(x, t)'
    BY <1>1, <2>1 DEF OnItsWay, Announcing, Broadcasting
  <2> HIDE DEF ServerInv, OnceInv, IInv, TypeOK
  <2> QED
    BY <1>1, <1>2, <2>1, <2>3, <2>4, NewsFrame
<1>5. ASSUME NEW t \in Tokens, SendStep(th, t) PROVE NewsInv'
  <2> DEFINE s == PlayerSessionMap[t].Socket
  <2>1. /\ UNCHANGED <<said, pc, job>>
        /\ pc[th] = "sending" /\ t \in todo[th]
        /\ todo' = [todo EXCEPT ![th] = @ \ {t}]
        /\ told' = IF Announcing(th) THEN [told EXCEPT ![s] = said[th]] ELSE told
    BY <1>5 DEF SendStep, Send, Announcing, Broadcasting
  <2>2. \A x \in Threads : Announcing(x)' <=> Announcing(x)
    BY <2>1 DEF Announcing, Broadcasting
  <2>3. t \in Live /\ s \in Conns
    BY <2>1 DEF TargetsLive, Live, Session
  <2>4. \A x \in Threads, u \in Live \ {t} : OnItsWay(x, u) => OnItsWay(x, u)'
    BY <1>1, <2>1 DEF OnItsWay, Announcing, Broadcasting
  <2>5. \A u \in Live \ {t} : PlayerSessionMap[u].Socket # s
    BY <2>3 DEF SocketIndexExact, Live
  <2>6. CASE ~Announcing(th)
    <3>1. \A x \in Threads, u \in Live : OnItsWay(x, u) => OnItsWay(x, u)'
      BY <1>1, <2>1, <2>6 DEF OnItsWay, Announcing, Broadcasting
    <3> HIDE DEF ServerInv, OnceInv, IInv, TypeOK
    <3> QED
      BY <1>1, <1>2, <2>1, <2>2, <2>6, <3>1, NewsFrame
  <2>7. CASE Announcing(th) /\ ~crossed
    <3>1. told'[s] = shown
      BY <2>1, <2>3, <2>7 DEF NewsInv, OneAnnounces, NewsTypeOK
    <3>2. \A u \in Live \ {t} :
            told'[PlayerSessionMap[u].Socket] = told[PlayerSessionMap[u].Socket]
      BY <2>1, <2>5, <2>7 DEF NewsTypeOK
    <3> HIDE DEF s, ServerInv, OnceInv, IInv, TypeOK
    <3>3. \A u \in Live' :
            \/ told'[PlayerSessionMap'[u].Socket] = shown
            \/ /\ u \in Live
               /\ told'[PlayerSessionMap'[u].Socket]
                    = told[PlayerSessionMap[u].Socket]
               /\ \A x \in Threads : OnItsWay(x, u) => OnItsWay(x, u)'
      BY <1>2, <2>4, <3>1, <3>2 DEF s
    <3> QED
      BY <1>1, <2>1, <2>2, <3>3, NewsFrame
  <2>8. CASE crossed
    BY <1>1, <2>1, <2>2, <2>8
       DEF NewsInv, ClientsFollow, OneAnnounces, Threads
  <2> QED
    BY <2>6, <2>7, <2>8
<1> QED
  BY <1>3, <1>4, <1>5 DEF BroadcastStep

\* Every step of the server keeps NewsInv.
LEMMA NewsStep ==
  ASSUME ServerInv, CP!SteadyInv, NewsTypeOK, NewsInv, [ServerNext]_serverVars
  PROVE  NewsInv'
<1>1. ASSUME NEW c \in Conns, SessionStep(c) PROVE NewsInv'
  <2>1. /\ UNCHANGED <<maps, news, shown, steady>>
        /\ \A x \in Threads \ {c} :
             pc'[x] = pc[x] /\ job'[x] = job[x] /\ todo'[x] = todo[x]
        /\ ~Announcing(c) /\ ~Announcing(c)'
    BY <1>1 DEF SessionStep, Accept, Enqueue, LoginRequest, ListRequest,
       ListResponse, Disconnect, Lookup, Close, countdown, Goto, Announcing,
       Broadcasting, ServerInv, OnceInv, IInv, TypeOK, Threads
  <2>2. Live' = Live /\ PlayerSessionMap' = PlayerSessionMap
    BY <2>1 DEF maps, Live
  <2> QED
    BY <2>1, <2>2, NewsKept
<1>2. ASSUME NEW c \in Conns, NEW isReady \in BOOLEAN, ReadyStep(c, isReady)
      PROVE  NewsInv'
  <2>1. /\ UNCHANGED <<news, shown>> /\ steady' = (steady /\ isReady)
        /\ \A x \in Threads \ {c} :
             pc'[x] = pc[x] /\ job'[x] = job[x] /\ todo'[x] = todo[x]
        /\ ~Announcing(c) /\ ~Announcing(c)'
    BY <1>2 DEF ReadyStep, ReadyRequest, UnknownToken, Goto, Announcing,
       Broadcasting, ServerInv, OnceInv, IInv, TypeOK, Threads
  <2>2. /\ Live' = Live
        /\ \A t \in Live :
             PlayerSessionMap'[t].Socket = PlayerSessionMap[t].Socket
    <3>1. CASE TokenBySocketMap[c] = None
      BY <1>2, <3>1 DEF ReadyStep, UnknownToken, maps, Live
    <3>2. CASE TokenBySocketMap[c] # None
      <4> DEFINE s == IF isReady THEN "Ready" ELSE "Lobby"
      <4>1. ReadyRequest(c, TokenBySocketMap[c], s) /\ s \in PlayerStates
        BY <1>2, <3>2 DEF ReadyStep, PlayerStates
      <4> HIDE DEF s
      <4>2. Live' = Live
        BY <4>1, StateWrite DEF ReadyRequest, ServerInv, OnceInv, IInv, TypeOK
      <4>3. \A t \in Live : PlayerSessionMap'[t].Socket = PlayerSessionMap[t].Socket
        BY <4>1 DEF ReadyRequest, ServerInv, OnceInv, IInv, TypeOK, Live, Session
      <4> QED
        BY <4>2, <4>3
    <3> QED
      BY <3>1, <3>2
  <2> QED
    BY <2>1, <2>2, NewsKept
<1>3. ASSUME NEW c \in Conns, CheckFlagStep(c) \/ CountPlayers(c) \/ ScanDone(c)
      PROVE  NewsInv'
  <2>1. /\ UNCHANGED <<maps, news, shown, steady>>
        /\ \A x \in Threads \ {c} :
             pc'[x] = pc[x] /\ job'[x] = job[x] /\ todo'[x] = todo[x]
        /\ ~Announcing(c) /\ ~Announcing(c)'
    BY <1>3 DEF CheckFlagStep, C!CheckFlag, CountPlayers, ScanDone, SkipScan,
       BeginScan, EndScan, vars, Goto, Announcing, Broadcasting, ServerInv,
       OnceInv, IInv, TypeOK, Threads
  <2>2. Live' = Live /\ PlayerSessionMap' = PlayerSessionMap
    BY <2>1 DEF maps, Live
  <2> QED
    BY <2>1, <2>2, NewsKept
<1>4. ASSUME NEW c \in Conns, NEW t \in Tokens, ScanOne(c, t) PROVE NewsInv'
  BY <1>4, NewsKept DEF ScanOne, vars, maps, Live
<1>5. ASSUME NEW c \in Conns, DecideStep(c) PROVE NewsInv'
  <2>1. UNCHANGED <<maps, news>> /\ (Return(c) \/ UNCHANGED vars) /\ pc[c] = "decide"
    BY <1>5 DEF DecideStep
  <2>2. UNCHANGED <<shown, steady>>
    BY <1>5 DEF DecideStep, StartOrStop, C!ConsiderStop, C!CompareExchange,
       C!TestOld, C!DetachOld, C!Create, C!Assign, C!Detach, C!ReadFlag, C!ClearFlag,
       C!TestJoinable, C!CallJoin, C!JoinReturns, C!ResetHandle
  <2>3. /\ \A x \in Threads \ {c} :
             pc'[x] = pc[x] /\ job'[x] = job[x] /\ todo'[x] = todo[x]
        /\ ~Announcing(c) /\ ~Announcing(c)'
    BY <2>1 DEF Return, vars, Goto, Announcing, Broadcasting, ServerInv,
       OnceInv, IInv, TypeOK, Threads
  <2>4. Live' = Live /\ PlayerSessionMap' = PlayerSessionMap
    BY <2>1 DEF maps, Live
  <2> QED
    BY <2>1, <2>2, <2>3, <2>4, NewsKept
<1>6. ASSUME NEW c \in Conns, StopStep(c) PROVE NewsInv'
  <2>1. UNCHANGED <<maps, told, steady>> /\ step[c] = "tell"
    BY <1>6 DEF StopStep, C!BroadcastStop, C!From
  <2>2. ~steady
    BY <2>1 DEF CP!SteadyInv, CP!Calm, CP!OnlyStarts
  <2>3. CASE stopped[c]
    <3>1. AnnounceStop(c) /\ Announce(c)
      BY <1>6, <2>3 DEF StopStep
    <3>2. /\ pc'[c] = "bcast" /\ Announcing(c)' /\ ~Announcing(c)
          /\ \A x \in Threads \ {c} : pc'[x] = pc[x] /\ job'[x] = job[x]
      BY <3>1 DEF AnnounceStop, Goto, Announcing, Broadcasting, ServerInv,
         OnceInv, IInv, TypeOK, Threads, Job, NoJob
    <3>3. \A y \in Threads : Announcing(y)' => y = c \/ Announcing(y)
      BY <3>2 DEF Announcing, Broadcasting
    <3> QED
      BY <2>1, <2>2, <3>1, <3>2, <3>3, NewsAnnounced DEF Threads
  <2>4. CASE ~stopped[c]
    <3>1. Return(c) /\ UNCHANGED <<said, crossed>>
      BY <1>6, <2>4 DEF StopStep
    <3>2. UNCHANGED shown
      BY <1>6, <2>4 DEF StopStep, C!BroadcastStop
    <3>3. /\ \A x \in Threads \ {c} :
             pc'[x] = pc[x] /\ job'[x] = job[x] /\ todo'[x] = todo[x]
          /\ ~Announcing(c) /\ ~Announcing(c)'
      BY <3>1 DEF Return, Goto, Announcing, Broadcasting, ServerInv, OnceInv,
         IInv, TypeOK, Threads
    <3>4. Live' = Live /\ PlayerSessionMap' = PlayerSessionMap
      BY <2>1 DEF maps, Live
    <3> QED
      BY <2>1, <3>1, <3>2, <3>3, <3>4, NewsKept DEF news
  <2> QED
    BY <2>3, <2>4
<1>7. ASSUME NEW k \in Timers, TimerStep(k) PROVE NewsInv'
  <2>1. UNCHANGED <<vars, news>>
    BY <1>7 DEF TimerStep
  <2>2. UNCHANGED <<shown, steady>>
    BY <1>7 DEF TimerStep, C!Loop, C!Sleep, C!Final, C!FlagReset
  <2> QED
    BY <2>1, <2>2, NewsKept DEF vars, maps, Live
<1>8. ASSUME NEW k \in Timers, TimerSays(k) PROVE NewsInv'
  <2>1. /\ UNCHANGED <<maps, told>> /\ Announce(k) /\ pc[k] = "closed"
        /\ TimerBroadcast(k)
    BY <1>8 DEF TimerSays, TimerBroadcast
  <2>2. UNCHANGED steady /\ step[k] \in {"tick", "startGame"}
    BY <1>8 DEF TimerSays, C!BroadcastTick, C!BroadcastStartGame, C!From
  <2>3. /\ pc'[k] = "bcast" /\ Announcing(k)' /\ ~Announcing(k)
        /\ \A x \in Threads \ {k} : pc'[x] = pc[x] /\ job'[x] = job[x]
    BY <2>1 DEF TimerBroadcast, Goto, Announcing, Broadcasting, ServerInv,
       OnceInv, IInv, TypeOK, Threads, Job, NoJob
  <2>4. \A y \in Threads : Announcing(y)' => y = k \/ Announcing(y)
    BY <2>3 DEF Announcing, Broadcasting
  <2>5. ASSUME steady, NEW y \in Threads PROVE ~Announcing(y)
    <3>1. CASE y \in Conns
      BY <2>5, <3>1 DEF NewsInv, OneAnnounces
    <3>2. ASSUME y \in Timers, Announcing(y) PROVE FALSE
      <4>1. step[y] # "free" /\ step[k] # "free"
        BY <2>2, <3>2 DEF ServerInv, StepsMatch, Announcing
      <4>2. y = k
        BY <2>5, <3>2, <4>1
           DEF CP!SteadyInv, CP!Calm, CP!OneCountdown, CP!OneThread, CP!Counting
      <4> QED
        BY <2>3, <3>2, <4>2
    <3> QED
      BY <3>1, <3>2 DEF Threads
  <2>6. ASSUME steady, shown' # shown PROVE C!Descends(shown, shown')
    <3>1. C!Next
      BY <1>8 DEF TimerSays, C!Next, C!Timer
    <3>2. CP!Descends(shown, shown')
      BY <2>6, <3>1, SameNext, CP!NextShown, CountdownAssumed
    <3> QED
      BY <3>2 DEF C!Descends, C!Tick, C!Other, CP!Descends, CP!Tick, CP!Other
  <2> QED
    BY <2>1, <2>2, <2>3, <2>4, <2>5, <2>6, NewsAnnounced DEF Threads
<1>9. CASE UNCHANGED serverVars
  BY <1>9, NewsKept
     DEF serverVars, countdown, vars, maps, Live, Announcing, Broadcasting
<1> QED
  BY <1>1, <1>2, <1>3, <1>4, <1>5, <1>6, <1>7, <1>8, <1>9, NewsOfTable,
     NewsOfBroadcast DEF ServerNext, HandlerStep

\* At the start no one has been told anything.
LEMMA InitNews == ServerInit => NewsTypeOK /\ NewsInv
<1> SUFFICES ASSUME ServerInit PROVE NewsTypeOK /\ NewsInv
  OBVIOUS
<1>1. NewsTypeOK
  <2>1. C!Other("none") \in C!Message
    BY SecondsAssumption DEF C!Message, C!Other
  <2> QED
    BY <2>1 DEF ServerInit, NewsTypeOK
<1>2. Live = {} /\ ~crossed
  BY DEF ServerInit, Init, Live
<1>3. \A x \in Threads : ~Announcing(x)
  BY DEF ServerInit, Init, Announcing, Broadcasting
<1> QED
  BY <1>1, <1>2, <1>3 DEF NewsInv, ClientsFollow, OneAnnounces, Threads

\* And so does what the clients are told.
LEMMA NewsInvariant ==
  ASSUME "relogin" \notin Env
  PROVE  ServerSpec => [](ServerInv /\ CP!SteadyInv /\ NewsTypeOK /\ NewsInv)
<1>1. ASSUME ServerInv, CP!SteadyInv, NewsTypeOK, NewsInv, [ServerNext]_serverVars
      PROVE  (ServerInv /\ CP!SteadyInv /\ NewsTypeOK /\ NewsInv)'
  <2>1. ServerInv' /\ CP!SteadyInv'
    BY <1>1, NextServer
  <2>2. C!TypeOK /\ C!TypeOK'
    BY <1>1, <2>1 DEF CP!SteadyInv, CP!IInv, C!TypeOK, CP!TypeOK, C!Message,
       CP!Message, C!HandlerSteps, CP!HandlerSteps, C!TimerSteps, CP!TimerSteps
  <2> QED
    BY <1>1, <2>1, <2>2, NewsTypeStep, NewsStep
<1> QED
  BY <1>1, InitServer, InitNews, PTL DEF ServerSpec

\* In every behaviour of the server all variables keep their types.
THEOREM ServerTypeCorrect ==
  ASSUME "relogin" \notin Env PROVE ServerSpec => []ServerTypeOK
<1>1. ASSUME ServerInv, CP!SteadyInv, NewsTypeOK PROVE ServerTypeOK
  <2>1. C!TypeOK
    BY <1>1, SameType DEF CP!SteadyInv, CP!IInv
  <2>2. unread \in [Conns -> SUBSET Tokens]
    BY <1>1 DEF ServerInv, ScansLive, Live
  <2> QED
    BY <1>1, <2>1, <2>2
       DEF ServerTypeOK, NewsTypeOK, ServerInv, OnceInv, IInv
<1> QED
  BY <1>1, NewsInvariant, PTL

\* As long as announcements do not cross, and before someone takes readiness
\* back they do not, whoever is in the table has been sent all of them.
THEOREM ClientsFollowed ==
  ASSUME "relogin" \notin Env PROVE ServerSpec => []ClientsFollow
<1>1. NewsInv => ClientsFollow
  BY DEF NewsInv
<1> QED
  BY <1>1, NewsInvariant, PTL

\* The guarantees of the countdown hold of the server: the flag is not left set
\* by no one, and until someone takes readiness back there is one countdown at a
\* time, and all of it is shown in order.
THEOREM ServerCountsDown ==
  ASSUME "relogin" \notin Env
  PROVE  ServerSpec => /\ [](C!FlagOwned /\ C!AtMostOneCountdown)
                       /\ C!ShownDescends
<1>1. ASSUME CP!SteadyInv PROVE C!FlagOwned /\ C!AtMostOneCountdown
  BY <1>1 DEF CP!SteadyInv, CP!IInv, CP!Calm, CP!FlagOwned, C!FlagOwned,
     C!AtMostOneCountdown, CP!OneCountdown, C!OneCountdown, CP!OneThread,
     C!OneThread, CP!Starting,
     C!Starting, CP!Counting, C!Counting
<1>2. ASSUME ServerInv, CP!SteadyInv, [ServerNext]_serverVars
      PROVE  [steady /\ shown' # shown => C!Descends(shown, shown')]_C!vars
  <2>1. [CP!Next]_(CP!vars)
    BY <1>2, StepOfCountdown, SameNext
       DEF C!vars, CP!vars, C!local, CP!local, C!thread, CP!thread
  <2>2. steady /\ shown' # shown => CP!Descends(shown, shown')
    BY <1>2, <2>1, CP!NextShown, CountdownAssumed
  <2> QED
    BY <2>2 DEF C!Descends, C!Tick, C!Other, CP!Descends, CP!Tick, CP!Other
<1> QED
  BY <1>1, <1>2, ServerInvariant, PTL DEF ServerSpec, C!ShownDescends

\* And so do those of the session table: whatever clients do, the player index
\* leads to no session that is gone and a cleanup finds its session.
THEOREM ServerIndexSound ==
  ServerSpec => [](PlayerIndexSound /\ CleanupFindsSession)
  BY SessionsRefined, IndexSound, PTL

\* While no connection logs in twice, the socket index and the session table
\* name each other, and no broadcast of the server, the countdown's included,
\* sends to a socket that has been closed.
THEOREM ServerSocketsExact ==
  ASSUME "relogin" \notin Env
  PROVE  ServerSpec =>
           [](SocketIndexExact /\ SessionHasHandler /\ BroadcastTargetsOpen)
  BY SessionsRefined, SocketsExact, PTL

\* While no account is used by two connections at a time, every session of the
\* server is found under its player's id.
THEOREM ServerPlayersExact ==
  ASSUME "share" \notin Env PROVE ServerSpec => []PlayerIndexComplete
  BY SessionsRefined, PlayersExact, PTL

\* While no one asks for the list, no client of the server is left showing a
\* player who has left.
THEOREM ServerViewsTrue ==
  ASSUME "list" \notin Env PROVE ServerSpec => []NoPhantomPlayers
  BY SessionsRefined, ViewsTrue, PTL
==============================================================================
