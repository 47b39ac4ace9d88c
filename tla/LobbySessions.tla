---------------------------- MODULE LobbySessions ----------------------------
(***************************************************************************)
(* The session table of the login server (TCPLoginServer/server.cpp) and   *)
(* the threads that use it: one HandleClient thread per accepted socket,   *)
(* and the countdown threads, which only broadcast.  The three maps are    *)
(* guarded by SessionMutex, a std::shared_mutex.                           *)
(*                                                                         *)
(* A step is what a thread does between two points at which another thread *)
(* can observe or change shared state: acquiring the mutex, one send()     *)
(* while holding it, releasing it.  An exclusive section is one step, as   *)
(* everything it touches is only read under the mutex.                     *)
(*                                                                         *)
(* When a countdown starts and stops is the subject of module Countdown;   *)
(* here a scan may be skipped, a stop may be announced and TimerBroadcast  *)
(* may occur at any time; LobbyServer puts the two together.               *)
(* SignUp touches neither the maps nor the mutex.                          *)
(*                                                                         *)
(* A definition whose name begins with Bad is its successor with a mistake *)
(* in it; no specification uses it.                                        *)
(***************************************************************************)
EXTENDS Naturals

CONSTANTS
  Conns,    \* socket handles accept() may return; a closed one may come again
  Timers,   \* countdown threads
  Users,    \* accounts: a row of the users table, with its id and user id
  Tokens,   \* session tokens
  None,     \* no entry in a map, no value in a local variable
  Env       \* what the surroundings may do besides logging in and leaving

(***************************************************************************)
(* "list"     clients send C2S_PlayerListRequest                           *)
(* "ready"    clients send C2S_GameReadyRequest                            *)
(* "relogin"  a client logs in again on a connection that has logged in    *)
(* "share"    one account is used by several connections at a time         *)
(***************************************************************************)
ASSUME EnvAssumption == Env \subseteq {"list", "ready", "relogin", "share"}

\* The states a ready request assigns.  PlayerState::InGame is never assigned.
PlayerStates == {"Lobby", "Ready"}

\* A PlayerSession; DbId and UserId name the same account.
Session == [DbId : Users, Socket : Conns, CurrentState : PlayerStates]

Threads == Conns \cup Timers

(***************************************************************************)
(* What a thread is broadcasting, or None.  player and token are the       *)
(* handler's locals JoinPlayer or LeavePlayer and SessionToken.            *)
(***************************************************************************)
Kinds == {"join", "leave", "state", "stop", "tick"}
ASSUME NoneAssumption == None \notin Tokens \cup Users \cup Session \cup Kinds
ASSUME ThreadAssumption == Conns \cap Timers = {}

Job == [kind : Kinds \cup {None}, player : Users \cup {None},
        token : Tokens \cup {None}]
NoJob == [kind |-> None, player |-> None, token |-> None]

VARIABLES
  PlayerSessionMap,    \* token -> session or None
  TokenByPlayerIdMap,  \* account -> token or None
  TokenBySocketMap,    \* socket -> token or None
  readers,  \* thread -> number of shared locks on SessionMutex it holds
  waiting,  \* threads queued for SessionMutex in exclusive mode
  pc,       \* thread -> the step it is at
  job,      \* thread -> Job
  todo,     \* thread -> tokens BroadcastPacket's loop has still to visit
  listed,   \* connection -> the players ProcessPlayerListRequest collected
  issued,   \* tokens UuidCreate has returned so far
  view      \* connection -> players its client has been told are in the lobby

maps == <<PlayerSessionMap, TokenByPlayerIdMap, TokenBySocketMap>>
mutex == <<readers, waiting>>
vars == <<maps, mutex, pc, job, todo, listed, issued, view>>

Steps == {"closed", "recv", "bcast", "sending", "insert", "listed", "check",
          "scan", "decide", "cleanup", "erase", "close"}

TypeOK ==
  /\ PlayerSessionMap \in [Tokens -> Session \cup {None}]
  /\ TokenByPlayerIdMap \in [Users -> Tokens \cup {None}]
  /\ TokenBySocketMap \in [Conns -> Tokens \cup {None}]
  /\ readers \in [Threads -> 0..2]
  /\ waiting \subseteq Conns
  /\ pc \in [Threads -> Steps]
  /\ job \in [Threads -> Job]
  /\ todo \in [Threads -> SUBSET Tokens]
  /\ listed \in [Conns -> SUBSET Users]
  /\ issued \subseteq Tokens
  /\ view \in [Conns -> SUBSET Users]

Init ==
  /\ PlayerSessionMap = [t \in Tokens |-> None]
  /\ TokenByPlayerIdMap = [u \in Users |-> None]
  /\ TokenBySocketMap = [c \in Conns |-> None]
  /\ readers = [th \in Threads |-> 0]
  /\ waiting = {}
  /\ pc = [th \in Threads |-> "closed"]
  /\ job = [th \in Threads |-> NoJob]
  /\ todo = [th \in Threads |-> {}]
  /\ listed = [c \in Conns |-> {}]
  /\ issued = {}
  /\ view = [c \in Conns |-> {}]

------------------------------------------------------------------------------
(* SessionMutex.  The server is built with MSVC (v143), whose shared_mutex  *)
(* is a Windows SRWLOCK: a shared request is granted unless the lock is     *)
(* held while an exclusive request is queued, so it may overtake a queued   *)
(* writer only at a moment when nobody holds the lock.  Recursion is not    *)
(* recognised: a thread's second shared request is a request like another.  *)

NoReaders == \A th \in Threads : readers[th] = 0
CanShare == NoReaders \/ waiting = {}

LockShared(th) == /\ CanShare
                  /\ readers' = [readers EXCEPT ![th] = @ + 1]

BadLockExclusive(c) == waiting' = waiting \ {c}

LockExclusive(c) == /\ NoReaders
                    /\ waiting' = waiting \ {c}

BadUnlock(th) == readers' = [readers EXCEPT ![th] = @ - 1]

\* The shared lock goes, and with a state change the outer one of
\* ProcessGameReadyRequest as well.
Unlock(th) == readers' = [readers EXCEPT ![th] = 0]

\* std::unique_lock finds the mutex held and queues.
Enqueue(c) ==
  /\ pc[c] \in {"insert", "erase"}
  /\ ~NoReaders
  /\ c \notin waiting
  /\ waiting' = waiting \cup {c}
  /\ UNCHANGED <<maps, readers, pc, job, todo, listed, issued, view>>

------------------------------------------------------------------------------
Live == {t \in Tokens : PlayerSessionMap[t] # None}
Present == {PlayerSessionMap[t].DbId : t \in Live}

Goto(th, step) == pc' = [pc EXCEPT ![th] = step]

\* Accept a connection and start its HandleClient thread.  One that gets no
\* database connection closes the socket at once, which changes nothing here.
Accept(c) ==
  /\ pc[c] = "closed"
  /\ Goto(c, "recv")
  /\ view' = [view EXCEPT ![c] = {}]
  /\ UNCHANGED <<maps, mutex, job, todo, listed, issued>>

------------------------------------------------------------------------------
(* ProcessLoginRequest.                                                     *)

\* Some connection is logged in as u or is about to be.
Joining(u) == \E c \in Conns : job[c].kind = "join" /\ job[c].player = u
InUse(u) == u \in Present \/ Joining(u)

\* DbManager.Login succeeds, a token is made and the response sent.  (A login
\* that fails only sends a response.)  A client's picture of the lobby starts
\* with its login.
LoginRequest(c, u, t) ==
  /\ pc[c] = "recv"
  /\ "relogin" \in Env \/ TokenBySocketMap[c] = None
  /\ "share" \in Env \/ ~InUse(u)
  /\ t \notin issued
  /\ issued' = issued \cup {t}
  /\ job' = [job EXCEPT ![c] = [kind |-> "join", player |-> u, token |-> t]]
  /\ view' = [view EXCEPT ![c] = {}]
  /\ Goto(c, "bcast")
  /\ UNCHANGED <<maps, mutex, todo, listed>>

\* The account's earlier session, if any, is dropped from the table.
BadStoreSession(c, u, t) ==
  PlayerSessionMap' = [x \in Tokens |->
    CASE x = t -> [DbId |-> u, Socket |-> c, CurrentState |-> "Lobby"]
      [] x = TokenByPlayerIdMap[u] -> None
      [] OTHER -> PlayerSessionMap[x]]

StoreSession(c, u, t) ==
  PlayerSessionMap' = [PlayerSessionMap EXCEPT ![t] =
    [DbId |-> u, Socket |-> c, CurrentState |-> "Lobby"]]

BadIndexPlayer(u, t) == UNCHANGED TokenByPlayerIdMap
IndexPlayer(u, t) == TokenByPlayerIdMap' = [TokenByPlayerIdMap EXCEPT ![u] = t]

\* The exclusive section at the end of ProcessLoginRequest.
Insert(c) ==
  /\ pc[c] = "insert"
  /\ LockExclusive(c)
  /\ StoreSession(c, job[c].player, job[c].token)
  /\ IndexPlayer(job[c].player, job[c].token)
  /\ TokenBySocketMap' = [TokenBySocketMap EXCEPT ![c] = job[c].token]
  /\ job' = [job EXCEPT ![c] = NoJob]
  /\ Goto(c, "recv")
  /\ UNCHANGED <<readers, todo, listed, issued, view>>

------------------------------------------------------------------------------
(* BroadcastPacket, under a shared lock.                                    *)

BadTargets == {t \in Live : PlayerSessionMap[t].CurrentState = "Lobby"}
Targets == Live

BroadcastLock(th) ==
  /\ pc[th] = "bcast"
  /\ LockShared(th)
  /\ todo' = [todo EXCEPT ![th] = Targets]
  /\ Goto(th, "sending")
  /\ UNCHANGED <<maps, waiting, job, listed, issued, view>>

\* BroadcastPlayerLeave sends is_join = true.
BadShown(lobby, j) ==
  IF j.kind \in {"join", "leave"} THEN lobby \cup {j.player} ELSE lobby

\* What the packet changes in the lobby its receiver shows.
Shown(lobby, j) ==
  CASE j.kind = "join"  -> lobby \cup {j.player}
    [] j.kind = "leave" -> lobby \ {j.player}
    [] OTHER            -> lobby

Send(th, t) ==
  LET s == PlayerSessionMap[t].Socket
  IN  /\ pc[th] = "sending"
      /\ t \in todo[th]
      /\ todo' = [todo EXCEPT ![th] = @ \ {t}]
      /\ view' = [view EXCEPT ![s] = Shown(@, job[th])]
      /\ UNCHANGED <<maps, mutex, pc, job, listed, issued>>

\* Where the caller of the Broadcast function goes on.
After(kind) ==
  CASE kind = "join"  -> "insert"
    [] kind = "leave" -> "close"
    [] kind = "state" -> "check"
    [] kind = "stop"  -> "recv"
    [] kind = "tick"  -> "closed"

\* The loop of BroadcastPacket is over.
BroadcastDone(th) ==
  /\ pc[th] = "sending"
  /\ todo[th] = {}
  /\ Unlock(th)
  /\ job' = IF job[th].kind = "join" THEN job ELSE [job EXCEPT ![th] = NoJob]
  /\ Goto(th, After(job[th].kind))
  /\ UNCHANGED <<maps, waiting, todo, listed, issued, view>>

\* A countdown thread announces a second, or the start of the game.
TimerBroadcast(k) ==
  /\ pc[k] = "closed"
  /\ job' = [job EXCEPT ![k] = [NoJob EXCEPT !.kind = "tick"]]
  /\ Goto(k, "bcast")
  /\ UNCHANGED <<maps, mutex, todo, listed, issued, view>>

------------------------------------------------------------------------------
(* ProcessPlayerListRequest: the players are collected under a shared lock, *)
(* and the response is sent after its release.                              *)

ListRequest(c) ==
  /\ "list" \in Env
  /\ pc[c] = "recv"
  /\ CanShare
  /\ listed' = [listed EXCEPT ![c] = Present]
  /\ Goto(c, "listed")
  /\ UNCHANGED <<maps, mutex, job, todo, issued, view>>

ListResponse(c) ==
  /\ pc[c] = "listed"
  /\ view' = [view EXCEPT ![c] = listed[c]]
  /\ listed' = [listed EXCEPT ![c] = {}]
  /\ Goto(c, "recv")
  /\ UNCHANGED <<maps, mutex, job, todo, issued>>

------------------------------------------------------------------------------
(* ProcessGameReadyRequest.  The session is found by the token alone.       *)

\* Under a shared lock the state is written; BroadcastPlayerChangeState is
\* then called with that lock still held.
ReadyRequest(c, t, state) ==
  /\ "ready" \in Env
  /\ pc[c] = "recv"
  /\ t \in Live
  /\ LockShared(c)
  /\ PlayerSessionMap' = [PlayerSessionMap EXCEPT ![t].CurrentState = state]
  /\ job' = [job EXCEPT ![c] =
       [kind |-> "state", player |-> PlayerSessionMap[t].DbId, token |-> t]]
  /\ Goto(c, "bcast")
  /\ UNCHANGED <<TokenByPlayerIdMap, TokenBySocketMap, waiting, todo, listed,
                 issued, view>>

\* <Bad Request>: the token is one that no session has.
UnknownToken(c) ==
  /\ "ready" \in Env
  /\ pc[c] = "recv"
  /\ CanShare
  /\ Goto(c, "check")
  /\ UNCHANGED <<maps, mutex, job, todo, listed, issued, view>>

\* IsCanStartCountdown returns at once: a countdown runs, or too few are there.
SkipScan(c) ==
  /\ pc[c] = "check"
  /\ Goto(c, "decide")
  /\ UNCHANGED <<maps, mutex, job, todo, listed, issued, view>>

\* IsCanStartCountdown goes through the sessions under a shared lock.
BeginScan(c) ==
  /\ pc[c] = "check"
  /\ LockShared(c)
  /\ Goto(c, "scan")
  /\ UNCHANGED <<maps, waiting, job, todo, listed, issued, view>>

EndScan(c) ==
  /\ pc[c] = "scan"
  /\ Unlock(c)
  /\ Goto(c, "decide")
  /\ UNCHANGED <<maps, waiting, job, todo, listed, issued, view>>

\* The countdown is started or left alone, and the request is done.
Return(c) ==
  /\ pc[c] = "decide"
  /\ Goto(c, "recv")
  /\ UNCHANGED <<maps, mutex, job, todo, listed, issued, view>>

\* StopCountdown has stopped it, which is broadcast.
AnnounceStop(c) ==
  /\ pc[c] = "decide"
  /\ job' = [job EXCEPT ![c] = [NoJob EXCEPT !.kind = "stop"]]
  /\ Goto(c, "bcast")
  /\ UNCHANGED <<maps, mutex, todo, listed, issued, view>>

------------------------------------------------------------------------------
(* The end of HandleClient: CleanUpClientSession, then closesocket.         *)

\* The socket is closed without the cleanup.
BadDisconnect(c) ==
  /\ pc[c] = "recv"
  /\ Goto(c, "close")
  /\ UNCHANGED <<maps, mutex, job, todo, listed, issued, view>>

\* ReceiveFlatBufferMessage or the verifier fails: the client has gone.
Disconnect(c) ==
  /\ pc[c] = "recv"
  /\ Goto(c, "cleanup")
  /\ UNCHANGED <<maps, mutex, job, todo, listed, issued, view>>

\* The shared lock is still held when the exclusive one is requested.
BadLookup(c) ==
  /\ pc[c] = "cleanup"
  /\ IF TokenBySocketMap[c] = None
       THEN CanShare /\ Goto(c, "close") /\ UNCHANGED <<readers, job>>
       ELSE /\ LockShared(c)
            /\ job' = [job EXCEPT ![c] =
                 [kind |-> "leave", player |-> None, token |-> TokenBySocketMap[c]]]
            /\ Goto(c, "erase")
  /\ UNCHANGED <<maps, waiting, todo, listed, issued, view>>

\* The token is looked up under a shared lock; without one there is nothing
\* to clean up.
Lookup(c) ==
  /\ pc[c] = "cleanup"
  /\ CanShare
  /\ IF TokenBySocketMap[c] = None
       THEN Goto(c, "close") /\ UNCHANGED job
       ELSE /\ job' = [job EXCEPT ![c] =
                 [kind |-> "leave", player |-> None, token |-> TokenBySocketMap[c]]]
            /\ Goto(c, "erase")
  /\ UNCHANGED <<maps, mutex, todo, listed, issued, view>>

BadEraseSocket(c) == UNCHANGED TokenBySocketMap
EraseSocket(c) == TokenBySocketMap' = [TokenBySocketMap EXCEPT ![c] = None]

BadErasePlayer(u) == UNCHANGED TokenByPlayerIdMap
ErasePlayer(u) == TokenByPlayerIdMap' = [TokenByPlayerIdMap EXCEPT ![u] = None]

\* The exclusive section of CleanUpClientSession.
Erase(c) ==
  LET t == job[c].token
      u == PlayerSessionMap[t].DbId
  IN  /\ pc[c] = "erase"
      /\ LockExclusive(c)
      /\ job' = [job EXCEPT ![c].player = u]
      /\ EraseSocket(c)
      /\ ErasePlayer(u)
      /\ PlayerSessionMap' = [PlayerSessionMap EXCEPT ![t] = None]
      /\ Goto(c, "bcast")
      /\ UNCHANGED <<readers, todo, listed, issued, view>>

Close(c) ==
  /\ pc[c] = "close"
  /\ Goto(c, "closed")
  /\ UNCHANGED <<maps, mutex, job, todo, listed, issued, view>>

------------------------------------------------------------------------------
Handler(c) ==
  \/ Accept(c) \/ Enqueue(c) \/ Insert(c)
  \/ \E u \in Users, t \in Tokens : LoginRequest(c, u, t)
  \/ ListRequest(c) \/ ListResponse(c)
  \/ \E t \in Tokens, state \in PlayerStates : ReadyRequest(c, t, state)
  \/ UnknownToken(c)
  \/ SkipScan(c) \/ BeginScan(c) \/ EndScan(c) \/ Return(c) \/ AnnounceStop(c)
  \/ Disconnect(c) \/ Lookup(c) \/ Erase(c) \/ Close(c)

Broadcast(th) ==
  \/ BroadcastLock(th) \/ BroadcastDone(th)
  \/ \E t \in Tokens : Send(th, t)

Next ==
  \/ \E c \in Conns : Handler(c)
  \/ \E k \in Timers : TimerBroadcast(k)
  \/ \E th \in Threads : Broadcast(th)

Spec == Init /\ [][Next]_vars

------------------------------------------------------------------------------
(* Safety.                                                                  *)

\* The socket index and the session table name each other: a socket has a
\* token exactly when a session with that token has the socket.  Holds while
\* no connection logs in twice; broken, a session is lost to cleanup.
SocketIndexExact ==
  \A c \in Conns, t \in Tokens :
    TokenBySocketMap[c] = t <=> t \in Live /\ PlayerSessionMap[t].Socket = c

\* TokenByPlayerIdMap never leads to a session that is gone or is another
\* player's, whichever connections share an account and in whatever order
\* they leave.
PlayerIndexSound ==
  \A u \in Users : TokenByPlayerIdMap[u] # None =>
    /\ TokenByPlayerIdMap[u] \in Live
    /\ PlayerSessionMap[TokenByPlayerIdMap[u]].DbId = u

\* Every session is found under its player's id.
PlayerIndexComplete ==
  \A t \in Live : TokenByPlayerIdMap[PlayerSessionMap[t].DbId] = t

\* A session never outlives the handler of its socket: when closesocket has
\* run, and the handle may be given to another client, no session holds it.
SessionHasHandler == \A t \in Live : pc[PlayerSessionMap[t].Socket] # "closed"

\* What BroadcastPacket has still to visit stays valid until it is done: the
\* map entries exist and their sockets are open, whatever other handlers
\* insert, erase and close in the meantime.
BroadcastTargetsOpen ==
  \A th \in Threads : pc[th] = "sending" =>
    \A t \in todo[th] : t \in Live /\ pc[PlayerSessionMap[t].Socket] # "closed"

\* Between the lookup of the token under a shared lock and the exclusive
\* section that erases it the session has not gone: PlayerSessionMap[token]
\* finds it and does not insert an empty one.
CleanupFindsSession ==
  \A c \in Conns : pc[c] = "erase" =>
    job[c].token \in Live /\ PlayerSessionMap[job[c].token].Socket = c

\* When every handler is back in its receive loop, no client that is logged
\* in shows a player who has left: of the joins and leaves that crossed each
\* other, every leave has had the last word.
Quiet == \A c \in Conns : pc[c] \in {"closed", "recv"}
NoPhantomPlayers ==
  Quiet => \A t \in Live : view[PlayerSessionMap[t].Socket] \subseteq Present

------------------------------------------------------------------------------
(* The inductive invariants behind these properties: IInv holds for any     *)
(* Env, OnceInv when connections log in once, OwnInv when accounts are used *)
(* by one connection at a time, ViewInv when no one asks for the list.      *)

Broadcasting(th) == pc[th] \in {"bcast", "sending"}

\* The shared locks a thread holds follow from where it is.
ReadersExact ==
  \A th \in Threads :
    LET outer == IF job[th].kind = "state" THEN 1 ELSE 0
    IN  readers[th] = CASE pc[th] = "bcast"   -> outer
                        [] pc[th] = "sending" -> outer + 1
                        [] pc[th] = "scan"    -> 1
                        [] OTHER              -> 0

\* What a thread is broadcasting, and for whom, follows from where it is.
JobOfStep ==
  /\ \A k \in Timers :
       \/ pc[k] = "closed"
       \/ Broadcasting(k) /\ job[k].kind = "tick"
  /\ \A c \in Conns :
       /\ Broadcasting(c) => job[c].kind \in {"join", "leave", "state", "stop"}
       /\ pc[c] = "insert" => job[c].kind = "join"
       /\ pc[c] = "erase" => /\ job[c].kind = "leave"
                             /\ TokenBySocketMap[c] # None
                             /\ job[c].token = TokenBySocketMap[c]
       /\ job[c].kind = "join" => /\ pc[c] \in {"bcast", "sending", "insert"}
                                  /\ job[c].player \in Users

\* A token on its way into the table is new, and no one else's.
JoinTokensFresh ==
  /\ Live \subseteq issued
  /\ \A c \in Conns : job[c].kind = "join" => job[c].token \in issued \ Live
  /\ \A c, d \in Conns :
       /\ job[c].kind = "join" /\ job[d].kind = "join"
       /\ job[c].token = job[d].token
       => c = d

\* A socket's token leads to a session that has the socket.
SocketIndexSound ==
  \A c \in Conns : TokenBySocketMap[c] # None =>
    /\ TokenBySocketMap[c] \in Live
    /\ PlayerSessionMap[TokenBySocketMap[c]].Socket = c

\* Only a broadcast under way has sessions left to visit, and they exist.
TargetsLive ==
  \A th \in Threads : /\ todo[th] \subseteq Live
                      /\ pc[th] # "sending" => todo[th] = {}

IInv ==
  /\ TypeOK
  /\ ReadersExact
  /\ JobOfStep
  /\ JoinTokensFresh
  /\ SocketIndexSound
  /\ PlayerIndexSound
  /\ TargetsLive

\* A connection that has a token is in its receive loop or in a handler that
\* the loop called, or at the start of its cleanup.
TokenInSession ==
  \A c \in Conns : TokenBySocketMap[c] # None =>
    \/ pc[c] \in {"recv", "listed", "check", "scan", "decide", "cleanup", "erase"}
    \/ Broadcasting(c) /\ job[c].kind \in {"state", "stop"}

OnceInv == IInv /\ SocketIndexExact /\ TokenInSession

\* An account that is being logged in has no session, and no one else is
\* logging in with it.
JoinPlayersFresh ==
  /\ \A c \in Conns : job[c].kind = "join" => job[c].player \notin Present
  /\ \A c, d \in Conns :
       /\ job[c].kind = "join" /\ job[d].kind = "join"
       /\ job[c].player = job[d].player
       => c = d

OwnInv == IInv /\ PlayerIndexComplete /\ JoinPlayersFresh

\* Whoever a logged-in client shows is present, or is about to be, or is
\* leaving in a broadcast that has yet to reach the client.
HasSession(s) == \E t \in Live : PlayerSessionMap[t].Socket = s
Leaving(u, s) ==
  \E c \in Conns :
    /\ job[c].kind = "leave" /\ job[c].player = u
    /\ \/ pc[c] = "bcast"
       \/ \E t \in todo[c] : PlayerSessionMap[t].Socket = s

ViewsAccounted ==
  \A s \in Conns :
    /\ HasSession(s) =>
         \A u \in view[s] : u \in Present \/ Joining(u) \/ Leaving(u, s)
    /\ job[s].kind = "join" => HasSession(s) \/ view[s] = {}
    /\ pc[s] # "listed"

ViewInv == IInv /\ ViewsAccounted

------------------------------------------------------------------------------
(* Liveness.  Threads are scheduled; a client reads what it is sent, so     *)
(* send() returns; SessionMutex, which is neither fair nor first-come, does *)
(* not pass over for ever a request it could grant again and again.         *)

MutexFairness(th) == SF_vars(BroadcastLock(th))
HandlerFairness(c) ==
  /\ SF_vars(Lookup(c)) /\ SF_vars(Insert(c)) /\ SF_vars(Erase(c))
  /\ WF_vars(Enqueue(c)) /\ WF_vars(ListResponse(c)) /\ WF_vars(Close(c))
  /\ SF_vars(BeginScan(c)) /\ WF_vars(EndScan(c))

LiveSpec ==
  /\ Spec
  /\ \A th \in Threads :
       /\ MutexFairness(th)
       /\ WF_vars(BroadcastDone(th) \/ \E t \in Tokens : Send(th, t))
  /\ \A c \in Conns : HandlerFairness(c)

\* A login that was answered with a token ends in a session, and a connection
\* whose client has gone is cleaned up and its socket closed, however the others
\* contend for the lock.
HandlersComplete ==
  \A c \in Conns :
    /\ job[c].kind = "join" ~> TokenBySocketMap[c] # None
    /\ pc[c] = "cleanup" ~> pc[c] = "closed"

\* A ready request that found its session reaches the countdown check.
ReadyReachesCheck == \A c \in Conns : job[c].kind = "state" ~> pc[c] = "check"
==============================================================================
