------------------------------ MODULE Countdown ------------------------------
(***************************************************************************)
(* The countdown to the start of the game (TCPLoginServer/server.cpp):     *)
(* each handler that serves a ready request decides whether to start or to *)
(* stop it, and a detached thread counts down and broadcasts.              *)
(*                                                                         *)
(* They share bIsCountdownRunning, an atomic, and CountdownThread, a       *)
(* shared_ptr<std::thread> that nothing guards.  A step reads or writes    *)
(* one of them once.  CountdownThread may be torn by its data races; it is *)
(* modelled as if each member call were atomic, so that what goes wrong    *)
(* here goes wrong in the kindest build.                                   *)
(*                                                                         *)
(* A local variable that is out of scope has its initial value.            *)
(*                                                                         *)
(* Who is in the table and the lock on it are the subject of LobbySessions *)
(* and appear here as far as the scan of IsCanStartCountdown needs them.   *)
(* A definition whose name begins with Bad is its successor with a mistake *)
(* in it; no specification uses it.                                        *)
(***************************************************************************)
EXTENDS Naturals

CONSTANTS
  Players,           \* connections, with the session each may have
  Timers,            \* countdown threads that may exist at a time
  CountdownSeconds,  \* what the countdown starts from; 10 in server.h
  Null,              \* an empty CountdownThread
  Env                \* what the clients may do besides asking for a start

\* "unready"  clients take their readiness back
\* "move"     players log in and leave
ASSUME EnvAssumption == Env \subseteq {"unready", "move"}
ASSUME SecondsAssumption == CountdownSeconds \in Nat \ {0}
ASSUME ThreadAssumption == Players \cap Timers = {} /\ Null \notin Timers

VARIABLES
  state,    \* player -> CurrentState of the session, or "absent"
  flag,     \* bIsCountdownRunning
  handle,   \* CountdownThread: the thread of its std::thread, or Null
  joinable, \* threads whose std::thread is neither detached nor joined
  pc,       \* thread -> the step it is at
  want,     \* handler -> bIsReady of the request it serves
  todo,     \* handler -> sessions its scan has still to count
  ready,    \* handler -> every session counted so far was Ready
  stopped,  \* handler -> bBroadcastStop of StopCountdown
  held,     \* handler -> the thread it has made, or waits for in join()
  remaining,\* countdown thread -> Remaining
  shown,    \* the last countdown message broadcast
  steady,   \* no request has taken readiness back so far; for the properties
  crashed   \* a std::thread was misused: std::terminate or worse

local == <<want, todo, ready, stopped, held>>
thread == <<handle, joinable>>
vars == <<state, flag, thread, pc, local, remaining, shown, steady, crashed>>

HandlerSteps == {"recv", "check", "lock", "scan", "cannot", "cas", "testOld",
                 "detachOld", "create", "assign", "detach", "stop", "clear",
                 "testJoin", "join", "await", "reset", "tell"}
TimerSteps == {"free", "loop", "tick", "sleep", "final", "startGame", "flagReset"}

\* S2C_CountdownStartGame with is_start, or without, and S2C_StartGame.
Message == [kind : {"none", "tick", "stop", "game"}, left : 0 .. CountdownSeconds]
Tick(n) == [kind |-> "tick", left |-> n]
Other(kind) == [kind |-> kind, left |-> 0]

TypeOK ==
  /\ state \in [Players -> {"absent", "Lobby", "Ready"}]
  /\ flag \in BOOLEAN
  /\ handle \in Timers \cup {Null}
  /\ joinable \subseteq Timers
  /\ pc \in [Players \cup Timers -> HandlerSteps \cup TimerSteps]
  /\ \A h \in Players : pc[h] \in HandlerSteps
  /\ \A k \in Timers : pc[k] \in TimerSteps
  /\ want \in [Players -> BOOLEAN]
  /\ todo \in [Players -> SUBSET Players]
  /\ ready \in [Players -> BOOLEAN]
  /\ stopped \in [Players -> BOOLEAN]
  /\ held \in [Players -> Timers \cup {Null}]
  /\ remaining \in [Timers -> 0 .. CountdownSeconds]
  /\ shown \in Message
  /\ steady \in BOOLEAN
  /\ crashed \in BOOLEAN

\* A server whose clients have logged in, or that nobody has joined yet.
Init ==
  /\ state \in {[p \in Players |-> "Lobby"], [p \in Players |-> "absent"]}
  /\ flag = FALSE
  /\ handle = Null
  /\ joinable = {}
  /\ pc = [th \in Players \cup Timers |-> IF th \in Timers THEN "free" ELSE "recv"]
  /\ want = [h \in Players |-> FALSE]
  /\ todo = [h \in Players |-> {}]
  /\ ready = [h \in Players |-> FALSE]
  /\ stopped = [h \in Players |-> FALSE]
  /\ held = [h \in Players |-> Null]
  /\ remaining = [k \in Timers |-> 0]
  /\ shown = Other("none")
  /\ steady = TRUE
  /\ crashed = FALSE

Present == {p \in Players : state[p] # "absent"}

\* The step of a thread; a process that has crashed takes none.
From(th, step) == ~crashed /\ pc[th] = step
Goto(th, step) == pc' = [pc EXCEPT ![th] = step]

\* A member function is called on no std::thread, or on one in the wrong state.
Misuse == crashed' = TRUE /\ UNCHANGED <<thread, pc>>

------------------------------------------------------------------------------
(* Sessions come and go under the exclusive lock: not during a scan.        *)

NoScan == \A h \in Players : pc[h] # "scan"

Join(p) ==
  /\ "move" \in Env
  /\ From(p, "recv")
  /\ NoScan
  /\ state[p] = "absent"
  /\ state' = [state EXCEPT ![p] = "Lobby"]
  /\ UNCHANGED <<flag, thread, pc, local, remaining, shown, crashed, steady>>

Leave(p) ==
  /\ "move" \in Env
  /\ From(p, "recv")
  /\ NoScan
  /\ state[p] # "absent"
  /\ state' = [state EXCEPT ![p] = "absent"]
  /\ UNCHANGED <<flag, thread, pc, local, remaining, shown, crashed, steady>>

------------------------------------------------------------------------------
(* ProcessGameReadyRequest.  The state is written under a shared lock, which *)
(* does not keep other handlers from writing theirs or from scanning.        *)
(* Clients send the token they were given, not another's.                    *)

ReadyRequest(h, isReady) ==
  /\ From(h, "recv")
  /\ isReady \/ "unready" \in Env
  /\ want' = [want EXCEPT ![h] = isReady]
  /\ state' = IF state[h] = "absent" THEN state
              ELSE [state EXCEPT ![h] = IF isReady THEN "Ready" ELSE "Lobby"]
  /\ steady' = (steady /\ isReady)
  /\ Goto(h, "check")
  /\ UNCHANGED <<flag, thread, todo, ready, stopped, held, remaining, shown,
                 crashed>>

------------------------------------------------------------------------------
(* IsCanStartCountdown: the flag, then the sessions under a shared lock.    *)

CheckFlag(h) ==
  /\ From(h, "check")
  /\ Goto(h, IF flag THEN "cannot" ELSE "lock")
  /\ UNCHANGED <<state, flag, thread, local, remaining, shown, crashed, steady>>

\* There are fewer than two.
TooFew(sessions) == \A x, y \in sessions : x = y

CountPlayers(h) ==
  /\ From(h, "lock")
  /\ IF TooFew(Present)
       THEN Goto(h, "cannot") /\ UNCHANGED <<todo, ready>>
       ELSE /\ todo' = [todo EXCEPT ![h] = Present]
            /\ ready' = [ready EXCEPT ![h] = TRUE]
            /\ Goto(h, "scan")
  /\ UNCHANGED <<state, flag, thread, want, stopped, held, remaining, shown,
                 crashed, steady>>

BadIsReady(h, p) == p # h /\ state[p] = "Ready"
IsReady(h, p) == state[p] = "Ready"

ScanOne(h, p) ==
  /\ From(h, "scan")
  /\ p \in todo[h]
  /\ todo' = [todo EXCEPT ![h] = @ \ {p}]
  /\ ready' = [ready EXCEPT ![h] = @ /\ IsReady(h, p)]
  /\ UNCHANGED <<state, flag, thread, pc, want, stopped, held, remaining,
                 shown, crashed, steady>>

ScanDone(h) ==
  /\ From(h, "scan")
  /\ todo[h] = {}
  /\ Goto(h, IF ready[h] THEN "cas" ELSE "cannot")
  /\ ready' = [ready EXCEPT ![h] = FALSE]
  /\ UNCHANGED <<state, flag, thread, want, todo, stopped, held, remaining,
                 shown, crashed, steady>>

\* The countdown cannot start: a request that takes readiness back stops one.
ConsiderStop(h) ==
  /\ From(h, "cannot")
  /\ Goto(h, IF ~want[h] /\ flag THEN "stop" ELSE "recv")
  /\ want' = [want EXCEPT ![h] = FALSE]
  /\ UNCHANGED <<state, flag, thread, todo, ready, stopped, held, remaining,
                 shown, crashed, steady>>

------------------------------------------------------------------------------
(* StartCountdown.                                                          *)

\* The flag is set without looking at it.
BadCompareExchange(h) ==
  /\ From(h, "cas")
  /\ flag' = TRUE
  /\ Goto(h, "testOld")
  /\ want' = [want EXCEPT ![h] = FALSE]
  /\ UNCHANGED <<state, thread, todo, ready, stopped, held, remaining,
                 shown, crashed, steady>>

CompareExchange(h) ==
  /\ From(h, "cas")
  /\ flag' = TRUE
  /\ Goto(h, IF flag THEN "recv" ELSE "testOld")
  /\ want' = [want EXCEPT ![h] = FALSE]
  /\ UNCHANGED <<state, thread, todo, ready, stopped, held, remaining,
                 shown, crashed, steady>>

TestOld(h) ==
  /\ From(h, "testOld")
  /\ Goto(h, IF handle \in joinable THEN "detachOld" ELSE "create")
  /\ UNCHANGED <<state, flag, thread, local, remaining, shown, crashed, steady>>

DetachOld(h) ==
  /\ From(h, "detachOld")
  /\ IF handle \notin joinable
       THEN Misuse
       ELSE /\ joinable' = joinable \ {handle}
            /\ Goto(h, "create")
            /\ UNCHANGED <<handle, crashed>>
  /\ UNCHANGED <<state, flag, local, remaining, shown, steady>>

\* The new thread runs from here on.  It has a name that no handler and no
\* std::thread refers to.
Create(h, k) ==
  /\ From(h, "create")
  /\ pc[k] = "free" /\ k \notin joinable
  /\ \A g \in Players : held[g] # k
  /\ held' = [held EXCEPT ![h] = k]
  /\ remaining' = [remaining EXCEPT ![k] = CountdownSeconds]
  /\ pc' = [pc EXCEPT ![h] = "assign", ![k] = "loop"]
  /\ UNCHANGED <<state, flag, thread, want, todo, ready, stopped, shown,
                 crashed, steady>>

\* Its std::thread replaces the one there, which must not be joinable.
Assign(h) ==
  /\ From(h, "assign")
  /\ IF handle \in joinable
       THEN Misuse /\ UNCHANGED held
       ELSE /\ handle' = held[h]
            /\ joinable' = joinable \cup {held[h]}
            /\ held' = [held EXCEPT ![h] = Null]
            /\ Goto(h, "detach")
            /\ UNCHANGED crashed
  /\ UNCHANGED <<state, flag, want, todo, ready, stopped, remaining, shown, steady>>

Detach(h) ==
  /\ From(h, "detach")
  /\ IF handle \notin joinable
       THEN Misuse
       ELSE /\ joinable' = joinable \ {handle}
            /\ Goto(h, "recv")
            /\ UNCHANGED <<handle, crashed>>
  /\ UNCHANGED <<state, flag, local, remaining, shown, steady>>

------------------------------------------------------------------------------
(* The countdown thread.                                                    *)

LoopGoesOn(k) == remaining[k] > 0 /\ flag

Loop(k) ==
  /\ From(k, "loop")
  /\ Goto(k, IF LoopGoesOn(k) THEN "tick" ELSE "final")
  /\ UNCHANGED <<state, flag, thread, local, remaining, shown, crashed, steady>>

BadSecondShown(n) == n
SecondShown(n) == n - 1

BroadcastTick(k) ==
  /\ From(k, "tick")
  /\ shown' = Tick(SecondShown(remaining[k]))
  /\ Goto(k, "sleep")
  /\ UNCHANGED <<state, flag, thread, local, remaining, crashed, steady>>

BadElapsed(n) == n
Elapsed(n) == n - 1

Sleep(k) ==
  /\ From(k, "sleep")
  /\ remaining' = [remaining EXCEPT ![k] = Elapsed(@)]
  /\ Goto(k, "loop")
  /\ UNCHANGED <<state, flag, thread, local, shown, crashed, steady>>

Final(k) ==
  /\ From(k, "final")
  /\ Goto(k, IF flag THEN "startGame" ELSE "flagReset")
  /\ UNCHANGED <<state, flag, thread, local, remaining, shown, crashed, steady>>

BroadcastStartGame(k) ==
  /\ From(k, "startGame")
  /\ shown' = Other("game")
  /\ Goto(k, "flagReset")
  /\ UNCHANGED <<state, flag, thread, local, remaining, crashed, steady>>

\* The thread returns with the flag as it is.
BadFlagReset(k) ==
  /\ From(k, "flagReset")
  /\ Goto(k, "free")
  /\ remaining' = [remaining EXCEPT ![k] = 0]
  /\ UNCHANGED <<state, flag, thread, local, shown, crashed, steady>>

FlagReset(k) ==
  /\ From(k, "flagReset")
  /\ flag' = FALSE
  /\ Goto(k, "free")
  /\ remaining' = [remaining EXCEPT ![k] = 0]
  /\ UNCHANGED <<state, thread, local, shown, crashed, steady>>

------------------------------------------------------------------------------
(* StopCountdown.                                                           *)

ReadFlag(h) ==
  /\ From(h, "stop")
  /\ stopped' = [stopped EXCEPT ![h] = flag]
  /\ Goto(h, "clear")
  /\ UNCHANGED <<state, flag, thread, want, todo, ready, held, remaining,
                 shown, crashed, steady>>

ClearFlag(h) ==
  /\ From(h, "clear")
  /\ flag' = FALSE
  /\ Goto(h, "testJoin")
  /\ UNCHANGED <<state, thread, local, remaining, shown, crashed, steady>>

TestJoinable(h) ==
  /\ From(h, "testJoin")
  /\ Goto(h, IF handle \in joinable THEN "join" ELSE "reset")
  /\ UNCHANGED <<state, flag, thread, local, remaining, shown, crashed, steady>>

CallJoin(h) ==
  /\ From(h, "join")
  /\ IF handle \notin joinable
       THEN Misuse /\ UNCHANGED held
       ELSE /\ held' = [held EXCEPT ![h] = handle]
            /\ Goto(h, "await")
            /\ UNCHANGED <<thread, crashed>>
  /\ UNCHANGED <<state, flag, want, todo, ready, stopped, remaining, shown, steady>>

\* The thread has ended.  Its std::thread may be gone by now.
JoinReturns(h) ==
  /\ From(h, "await")
  /\ pc[held[h]] = "free"
  /\ IF handle # held[h]
       THEN Misuse /\ UNCHANGED held
       ELSE /\ joinable' = joinable \ {held[h]}
            /\ held' = [held EXCEPT ![h] = Null]
            /\ Goto(h, "reset")
            /\ UNCHANGED <<handle, crashed>>
  /\ UNCHANGED <<state, flag, want, todo, ready, stopped, remaining, shown, steady>>

ResetHandle(h) ==
  /\ From(h, "reset")
  /\ IF handle \in joinable
       THEN Misuse
       ELSE /\ handle' = Null
            /\ Goto(h, "tell")
            /\ UNCHANGED <<joinable, crashed>>
  /\ UNCHANGED <<state, flag, local, remaining, shown, steady>>

BroadcastStop(h) ==
  /\ From(h, "tell")
  /\ shown' = IF stopped[h] THEN Other("stop") ELSE shown
  /\ stopped' = [stopped EXCEPT ![h] = FALSE]
  /\ Goto(h, "recv")
  /\ UNCHANGED <<state, flag, thread, want, todo, ready, held, remaining,
                 crashed, steady>>

------------------------------------------------------------------------------
Handler(h) ==
  \/ CheckFlag(h) \/ CountPlayers(h) \/ ScanDone(h) \/ ConsiderStop(h)
  \/ \E p \in Players : ScanOne(h, p)
  \/ CompareExchange(h) \/ TestOld(h) \/ DetachOld(h)
  \/ Assign(h) \/ Detach(h)
  \/ \E k \in Timers : Create(h, k)
  \/ ReadFlag(h) \/ ClearFlag(h) \/ TestJoinable(h) \/ CallJoin(h)
  \/ JoinReturns(h) \/ ResetHandle(h) \/ BroadcastStop(h)

Timer(k) ==
  \/ Loop(k) \/ BroadcastTick(k) \/ Sleep(k) \/ Final(k)
  \/ BroadcastStartGame(k) \/ FlagReset(k)

Next ==
  \/ \E h \in Players :
       Join(h) \/ Leave(h) \/ Handler(h) \/ \E b \in BOOLEAN : ReadyRequest(h, b)
  \/ \E k \in Timers : Timer(k)

Spec == Init /\ [][Next]_vars

------------------------------------------------------------------------------
(* Safety.                                                                  *)

\* A countdown thread that has yet to reset the flag.
Counting(k) == pc[k] # "free"
Starting(h) == pc[h] \in {"testOld", "detachOld", "create"}

\* The flag is never left set by no one: whoever finds a countdown running
\* and does not start another can rely on a thread that will reset the flag.
FlagOwned ==
  flag => (\E h \in Players : Starting(h)) \/ (\E k \in Timers : Counting(k))

\* A countdown is not started while one is running.
OneThread == \A j, k \in Timers : Counting(j) /\ Counting(k) => j = k

\* bIsCountdownRunning admits one countdown at a time, until someone takes
\* readiness back.
OneCountdown ==
  /\ OneThread
  /\ \A g, h \in Players : Starting(g) /\ Starting(h) => g = h
  /\ \A h \in Players, k \in Timers : ~(Starting(h) /\ Counting(k))
AtMostOneCountdown == steady => OneCountdown

\* The game starts only when its countdown has run down.
StartsAtZero == \A k \in Timers : pc[k] = "startGame" => remaining[k] = 0

\* What the clients are shown until someone takes readiness back is one
\* countdown after the other, each without a gap: CountdownSeconds - 1 down to
\* 0, then the game.
Descends(old, new) ==
  \/ old.kind # "tick" /\ new = Tick(CountdownSeconds - 1)
  \/ old.kind = "tick" /\ old.left > 0 /\ new = Tick(old.left - 1)
  \/ old = Tick(0) /\ new = Other("game")
ShownDescends == [][steady /\ shown' # shown => Descends(shown, shown')]_vars

------------------------------------------------------------------------------
(* The inductive invariants behind these properties: IInv for any clients,  *)
(* SteadyInv for what holds until someone takes readiness back.             *)

\* Within its loop a countdown thread has seconds left.
SecondsLeft == \A k \in Timers : pc[k] \in {"tick", "sleep"} => remaining[k] > 0

\* A handler that has made a thread, or waits for one, knows which.
Holds == \A h \in Players : pc[h] \in {"assign", "await"} => held[h] \in Timers

IInv == TypeOK /\ SecondsLeft /\ Holds /\ FlagOwned

\* Every request asks for a start, and no handler stops anything.
OnlyStarts ==
  \A h \in Players :
    /\ pc[h] \in {"recv", "check", "lock", "scan", "cannot", "cas", "testOld",
                  "detachOld", "create", "assign", "detach"}
    /\ pc[h] \in {"check", "lock", "scan", "cannot"} => want[h]

\* Whoever starts or counts has the flag.
OwnersFlagged ==
  (\E h \in Players : Starting(h)) \/ (\E k \in Timers : Counting(k)) => flag

\* What is shown goes with the place the one countdown is at.
BeforeTick(n) == IF n = CountdownSeconds THEN shown.kind # "tick" ELSE shown = Tick(n)
ShownExact ==
  /\ \A k \in Timers :
       /\ pc[k] \in {"loop", "tick"} => BeforeTick(remaining[k])
       /\ pc[k] = "sleep" => shown = Tick(remaining[k] - 1)
       /\ pc[k] \in {"final", "startGame"} => remaining[k] = 0 /\ shown = Tick(0)
       /\ pc[k] = "flagReset" => shown.kind = "game"
  /\ (\A k \in Timers : ~Counting(k)) => shown.kind # "tick"

Calm == OnlyStarts /\ OwnersFlagged /\ OneCountdown /\ ShownExact
SteadyInv == IInv /\ (steady => Calm)

------------------------------------------------------------------------------
(* Liveness.  Threads are scheduled, a second passes, and send() returns.   *)

LiveSpec ==
  /\ Spec
  /\ \A h \in Players : WF_vars(Handler(h))
  /\ \A k \in Timers : WF_vars(Timer(k))

\* A countdown that runs comes to an end.
CountdownEnds == flag ~> ~flag \/ crashed

\* The request that makes the last player ready leads to a countdown although
\* no handler sees all of the requests of the others, unless someone joins,
\* takes readiness back or too few stay.
AllReady == ~TooFew(Present) /\ \A p \in Present : state[p] = "Ready"
AllReadyStarts ==
  (\E h \in Players : pc[h] = "check") /\ AllReady
    ~> flag \/ ~AllReady \/ crashed
==============================================================================
