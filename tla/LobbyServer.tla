----------------------------- MODULE LobbyServer -----------------------------
(***************************************************************************)
(* The lobby of the login server (TCPLoginServer/server.cpp): the session  *)
(* table with its lock and broadcasts (LobbySessions) and the countdown to *)
(* the game (Countdown) in one.  A ready request writes the state in the   *)
(* table, IsCanStartCountdown reads the real table under the real lock,    *)
(* and what the countdown announces goes through BroadcastPacket to the    *)
(* clients whose sessions are in the table by then.                        *)
(*                                                                         *)
(* A handler is at pc in the sense of LobbySessions, and while it is at    *)
(* "check", "scan" or "decide" at step in the sense of Countdown; so is a  *)
(* countdown thread while it is not broadcasting.                          *)
(*                                                                         *)
(* A definition whose name begins with Bad is its successor with a mistake *)
(* in it; no specification uses it.                                        *)
(***************************************************************************)
EXTENDS LobbySessions

CONSTANT
  CountdownSeconds   \* what the countdown starts from; 10 in server.h

ASSUME SecondsAssumption == CountdownSeconds \in Nat \ {0}
ASSUME NoThreadAssumption == None \notin Timers

VARIABLES
  flag, handle, joinable, step, want, ready, stopped, held, remaining, shown,
  steady, crashed,  \* of Countdown; step is its pc
  unread,   \* handler -> sessions that IsCanStartCountdown has still to count
  said,     \* thread -> the countdown message it broadcasts, if any
  told,     \* session's connection -> the last countdown message its client was
            \* sent, or that was announced before the session was in the table
  crossed   \* an announcement has been made while another was on its way; for
            \* the properties

\* Every thread's part in the countdown, and the messages about it.
handles == <<handle, joinable>>
locals == <<want, ready, stopped, held>>
countdown == <<flag, handles, step, locals, remaining, shown, steady, crashed,
               unread>>
news == <<said, told, crossed>>
serverVars == <<vars, countdown, news>>

\* The states and the scans of Countdown are those of the sessions that
\* connections have in the table.
State(c) == IF TokenBySocketMap[c] = None THEN "absent"
            ELSE PlayerSessionMap[TokenBySocketMap[c]].CurrentState
Sockets(tokens) == {c \in Conns : TokenBySocketMap[c] \in tokens}

C == INSTANCE Countdown WITH
       Players <- Conns, Null <- None, pc <- step, Env <- {"unready", "move"},
       state <- [c \in Conns |-> State(c)],
       todo <- [c \in Conns |-> Sockets(unread[c])]

ServerTypeOK ==
  /\ TypeOK
  /\ C!TypeOK
  /\ unread \in [Conns -> SUBSET Tokens]
  /\ said \in [Threads -> C!Message]
  /\ told \in [Conns -> C!Message]
  /\ crossed \in BOOLEAN

ServerInit ==
  /\ Init
  /\ unread = [c \in Conns |-> {}]
  /\ C!Init
  /\ said = [th \in Threads |-> C!Other("none")]
  /\ told = [c \in Conns |-> C!Other("none")]
  /\ crossed = FALSE

------------------------------------------------------------------------------
(* What the countdown has no part in.                                       *)

SessionStep(c) ==
  /\ ~crashed
  /\ \/ Accept(c) \/ Enqueue(c)
     \/ \E u \in Users, t \in Tokens : LoginRequest(c, u, t)
     \/ ListRequest(c) \/ ListResponse(c)
     \/ Disconnect(c) \/ Lookup(c) \/ Close(c)
  /\ UNCHANGED <<countdown, news>>

\* A client that enters the table has missed nothing that is not in shown:
\* what comes later is sent to it.
InsertStep(c) ==
  /\ ~crashed
  /\ Insert(c)
  /\ told' = [told EXCEPT ![c] = shown]
  /\ UNCHANGED <<countdown, said, crossed>>

EraseStep(c) ==
  /\ ~crashed
  /\ Erase(c)
  /\ told' = [told EXCEPT ![c] = C!Other("none")]
  /\ UNCHANGED <<countdown, said, crossed>>

BroadcastStep(th) ==
  /\ ~crashed
  /\ \/ BroadcastLock(th) /\ UNCHANGED said
     \/ BroadcastDone(th) /\ said' = [said EXCEPT ![th] = C!Other("none")]
  /\ UNCHANGED <<countdown, told, crossed>>

\* The packet is a countdown message, or one that says nothing of it.
SendStep(th, t) ==
  /\ ~crashed
  /\ Send(th, t)
  /\ told' = IF job[th].kind \in {"tick", "stop"}
               THEN [told EXCEPT ![PlayerSessionMap[t].Socket] = said[th]]
               ELSE told
  /\ UNCHANGED <<countdown, said, crossed>>

------------------------------------------------------------------------------
(* ProcessGameReadyRequest.  Clients send the token they were given.        *)

ReadyStep(c, isReady) ==
  /\ ~crashed
  /\ IF TokenBySocketMap[c] = None
       THEN UnknownToken(c)
       ELSE ReadyRequest(c, TokenBySocketMap[c],
                         IF isReady THEN "Ready" ELSE "Lobby")
  /\ want' = [want EXCEPT ![c] = isReady]
  /\ step' = [step EXCEPT ![c] = "check"]
  /\ steady' = (steady /\ isReady)
  /\ UNCHANGED <<flag, handles, ready, stopped, held, remaining, shown,
                 crashed, unread, news>>

------------------------------------------------------------------------------
(* IsCanStartCountdown.                                                     *)

CheckFlagStep(c) ==
  /\ pc[c] = "check"
  /\ IF flag THEN SkipScan(c) ELSE UNCHANGED vars
  /\ UNCHANGED <<unread, news>>
  /\ C!CheckFlag(c)

\* The players are counted before the lock is acquired.
BadCountPlayers(c) ==
  /\ ~crashed
  /\ pc[c] = "check" /\ step[c] = "lock"
  /\ UNCHANGED vars
  /\ IF C!TooFew(Live)
       THEN step' = [step EXCEPT ![c] = "cannot"] /\ UNCHANGED <<unread, ready>>
       ELSE /\ unread' = [unread EXCEPT ![c] = Live]
            /\ ready' = [ready EXCEPT ![c] = TRUE]
            /\ step' = [step EXCEPT ![c] = "scan"]
  /\ UNCHANGED <<flag, handles, want, stopped, held, remaining, shown, steady,
                 crashed, news>>

CountPlayers(c) ==
  /\ ~crashed
  /\ pc[c] = "check" /\ step[c] = "lock"
  /\ IF C!TooFew(Live)
       THEN /\ CanShare /\ SkipScan(c)
            /\ step' = [step EXCEPT ![c] = "cannot"]
            /\ UNCHANGED <<unread, ready>>
       ELSE /\ BeginScan(c)
            /\ unread' = [unread EXCEPT ![c] = Live]
            /\ ready' = [ready EXCEPT ![c] = TRUE]
            /\ step' = [step EXCEPT ![c] = "scan"]
  /\ UNCHANGED <<flag, handles, want, stopped, held, remaining, shown, steady,
                 crashed, news>>

ScanOne(c, t) ==
  /\ ~crashed
  /\ step[c] = "scan"
  /\ t \in unread[c]
  /\ unread' = [unread EXCEPT ![c] = @ \ {t}]
  /\ ready' = [ready EXCEPT ![c] = @ /\ PlayerSessionMap[t].CurrentState = "Ready"]
  /\ UNCHANGED <<vars, flag, handles, step, want, stopped, held, remaining,
                 shown, steady, crashed, news>>

ScanDone(c) ==
  /\ ~crashed
  /\ step[c] = "scan"
  /\ unread[c] = {}
  /\ EndScan(c)
  /\ step' = [step EXCEPT ![c] = IF ready[c] THEN "cas" ELSE "cannot"]
  /\ ready' = [ready EXCEPT ![c] = FALSE]
  /\ UNCHANGED <<flag, handles, want, stopped, held, remaining, shown, steady,
                 crashed, unread, news>>

------------------------------------------------------------------------------
(* StartCountdown and StopCountdown, step by step as in Countdown.          *)

StartOrStop(c) ==
  \/ C!ConsiderStop(c)
  \/ C!CompareExchange(c) \/ C!TestOld(c) \/ C!DetachOld(c)
  \/ C!Assign(c) \/ C!Detach(c)
  \/ \E k \in Timers : C!Create(c, k)
  \/ C!ReadFlag(c) \/ C!ClearFlag(c) \/ C!TestJoinable(c) \/ C!CallJoin(c)
  \/ C!JoinReturns(c) \/ C!ResetHandle(c)

DecideStep(c) ==
  /\ pc[c] = "decide"
  /\ UNCHANGED <<maps, unread, news>>
  /\ StartOrStop(c)
  /\ IF step'[c] = "recv" THEN Return(c) ELSE UNCHANGED vars

\* What a thread is broadcasting about the countdown is on its way.
Announcing(th) == Broadcasting(th) /\ job[th].kind \in {"tick", "stop"}
Announce(th) ==
  /\ said' = [said EXCEPT ![th] = shown']
  /\ crossed' = (crossed \/ \E x \in Threads : Announcing(x))

StopStep(c) ==
  /\ UNCHANGED <<maps, unread, told>>
  /\ C!BroadcastStop(c)
  /\ IF stopped[c]
       THEN AnnounceStop(c) /\ Announce(c)
       ELSE Return(c) /\ UNCHANGED <<said, crossed>>

------------------------------------------------------------------------------
(* The countdown thread, which goes on when its broadcast is over.          *)

TimerStep(k) ==
  /\ pc[k] = "closed"
  /\ UNCHANGED <<vars, unread, news>>
  /\ C!Loop(k) \/ C!Sleep(k) \/ C!Final(k) \/ C!FlagReset(k)

TimerSays(k) ==
  /\ TimerBroadcast(k)
  /\ UNCHANGED <<unread, told>>
  /\ C!BroadcastTick(k) \/ C!BroadcastStartGame(k)
  /\ Announce(k)

------------------------------------------------------------------------------
HandlerStep(c) ==
  \/ SessionStep(c) \/ InsertStep(c) \/ EraseStep(c)
  \/ \E isReady \in BOOLEAN : ReadyStep(c, isReady)
  \/ CheckFlagStep(c) \/ CountPlayers(c) \/ ScanDone(c)
  \/ \E t \in Tokens : ScanOne(c, t)
  \/ DecideStep(c) \/ StopStep(c)

ServerNext ==
  \/ \E c \in Conns : HandlerStep(c)
  \/ \E k \in Timers : TimerStep(k) \/ TimerSays(k)
  \/ \E th \in Threads : BroadcastStep(th) \/ \E t \in Tokens : SendStep(th, t)

ServerSpec == ServerInit /\ [][ServerNext]_serverVars

------------------------------------------------------------------------------
\* The server's countdown is the one of Countdown: the table under its lock is
\* as calm during a scan as Countdown takes it to be, and a ready request and
\* the scan see the session of each connection.
CountdownSpec == C!Spec

\* As long as no two announcements about the countdown cross each other, which
\* they do not before someone takes readiness back, whoever is in the table has
\* been sent all that was announced, in order: a client is at most one message
\* behind, and only while the broadcast is on its way to it.
OnItsWay(th, t) ==
  Announcing(th) /\ said[th] = shown /\ (pc[th] = "sending" => t \in todo[th])
Follows(t) ==
  LET last == told[PlayerSessionMap[t].Socket]
  IN  last = shown \/ /\ \E th \in Threads : OnItsWay(th, t)
                      /\ steady => C!Descends(last, shown)
ClientsFollow ==
  /\ steady => ~crossed
  /\ ~crossed => \A t \in Live : Follows(t)

------------------------------------------------------------------------------
(* The inductive invariants behind these properties, while connections log  *)
(* in once: ServerInv for what makes the countdown the one of Countdown,    *)
(* with NewsInv for what the clients are sent.                              *)

\* Where a thread is in the countdown goes with where it is in the session
\* table.
StopSteps == {"stop", "clear", "testJoin", "join", "await", "reset", "tell"}
DecideSteps == {"cannot", "cas", "testOld", "detachOld", "create", "assign", "detach"}
                 \cup StopSteps
OwnState(c) == Broadcasting(c) /\ job[c].kind = "state"
InStep(c) ==
  \/ pc[c] = "check" /\ step[c] \in {"check", "lock"}
  \/ pc[c] = "scan" /\ step[c] = "scan"
  \/ pc[c] = "decide" /\ step[c] \in DecideSteps
  \/ OwnState(c) /\ step[c] = "check"
  \/ /\ pc[c] \notin {"check", "scan", "decide"} /\ ~OwnState(c)
     /\ step[c] = "recv"
StepsMatch ==
  /\ \A c \in Conns : InStep(c)
  /\ \A k \in Timers : Broadcasting(k) => step[k] # "free"

\* Only a scan under way has sessions left to count, and they exist.
ScansLive ==
  /\ unread \in [Conns -> SUBSET Live]
  /\ \A c \in Conns : pc[c] # "scan" => unread[c] = {}

ServerInv == OnceInv /\ StepsMatch /\ ScansLive

\* Until announcements cross, at most one is on its way, and it is the last one;
\* until someone takes readiness back, none says that the countdown stops.
OneAnnounces ==
  /\ steady => \A c \in Conns : ~Announcing(c)
  /\ ~crossed => /\ \A x, y \in Threads : Announcing(x) /\ Announcing(y) => x = y
                 /\ \A x \in Threads : Announcing(x) => said[x] = shown

NewsInv == ClientsFollow /\ OneAnnounces
==============================================================================
