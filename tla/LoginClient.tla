----------------------------- MODULE LoginClient -----------------------------
(***************************************************************************)
(* The network side of the game client (LoginClientSubsystem.cpp).  The    *)
(* game thread connects, disconnects and polls RecvPackets from a timer;   *)
(* a worker thread, RecvLoop, receives from the socket and fills the       *)
(* queue, an empty packet telling that it has ended.                       *)
(*                                                                         *)
(* Socket is a plain pointer that both threads use.  A step of the worker  *)
(* reads it once; a call to the socket begins in one step and returns in   *)
(* another, and the game thread may destroy the socket in between.         *)
(*                                                                         *)
(* Sending is left out: the game thread alone does it, and it touches only *)
(* the socket.  So are packets that fail verification, which are taken     *)
(* from the queue like the others.  A definition whose name begins with    *)
(* Bad is its successor with a mistake in it; no specification uses it.    *)
(***************************************************************************)
EXTENDS Naturals, Sequences

CONSTANTS
  MaxConns,  \* connections made
  MaxSent,   \* packets sent on each
  Env        \* what else may happen

\* "disconnect"  the game disconnects while it goes on running
\* "size"        a packet has a size that RecvLoop refuses
ASSUME EnvAssumption == Env \subseteq {"disconnect", "size"}
ASSUME BoundAssumption == MaxConns \in Nat /\ MaxSent \in Nat

VARIABLES
  Socket,   \* there is a socket: the pointer is not null
  freed,    \* it has been destroyed
  bRunRecv,
  LoginRecvThread,  \* there is a std::thread, which is joinable
  timer,    \* NetworkTimerHandle is set
  RecvPackets,
  game,     \* the step the game thread is at
  exited,   \* the game has called Deinitialize
  worker,   \* the step the worker is at, or "none"
  part,     \* what it receives next
  read,     \* packets it has received on this connection
  conns,    \* connections made so far
  open,     \* the server has not closed its end of the connection
  shut,     \* we have shut ours
  sent,     \* packets the server has sent whole
  size,     \* the size of another one is on its way
  given,    \* packets handed to ProcessPacket on this connection
  crashed

gameVars == <<timer, game, exited, LoginRecvThread, conns, given>>
workerVars == <<worker, part, read>>
link == <<open, shut, sent, size>>
vars == <<Socket, freed, bRunRecv, RecvPackets, gameVars, workerVars, link, crashed>>

Packet == [conn : 1 .. MaxConns, n : 1 .. MaxSent]
Marker == [conn : 1 .. MaxConns, n : {0}]
End(c) == [conn |-> c, n |-> 0]

GameSteps == {"idle", "poll", "stop", "shut", "destroy", "null", "join"}
Calls == {"waiting", "receiving"}
WorkerSteps ==
  {"none", "loop", "wait", "check", "recv", "push", "end", "done"} \cup Calls

TypeOK ==
  /\ Socket \in BOOLEAN /\ freed \in BOOLEAN /\ bRunRecv \in BOOLEAN
  /\ LoginRecvThread \in BOOLEAN /\ timer \in BOOLEAN
  /\ exited \in BOOLEAN /\ crashed \in BOOLEAN
  /\ RecvPackets \in Seq(Packet \cup Marker)
  /\ game \in GameSteps
  /\ worker \in WorkerSteps
  /\ part \in {"size", "data"}
  /\ read \in 0 .. MaxSent
  /\ conns \in 0 .. MaxConns
  /\ open \in BOOLEAN /\ shut \in BOOLEAN
  /\ sent \in 0 .. MaxSent /\ size \in BOOLEAN
  /\ given \in Seq(Packet)

Init ==
  /\ Socket = FALSE /\ freed = FALSE /\ bRunRecv = FALSE
  /\ LoginRecvThread = FALSE /\ timer = FALSE
  /\ RecvPackets = <<>>
  /\ game = "idle" /\ exited = FALSE
  /\ worker = "none" /\ part = "size" /\ read = 0
  /\ conns = 0 /\ given = <<>>
  /\ open = FALSE /\ shut = FALSE /\ sent = 0 /\ size = FALSE
  /\ crashed = FALSE

Game(step) == ~crashed /\ game = step
Worker(step) == ~crashed /\ worker = step

------------------------------------------------------------------------------
(* The server's end.                                                        *)

ServerSend ==
  /\ Socket /\ open /\ sent < MaxSent
  /\ size' = ~size
  /\ sent' = IF size THEN sent + 1 ELSE sent
  /\ UNCHANGED <<Socket, freed, bRunRecv, RecvPackets, gameVars, workerVars,
                 open, shut, crashed>>

ServerClose ==
  /\ open
  /\ open' = FALSE
  /\ UNCHANGED <<Socket, freed, bRunRecv, RecvPackets, gameVars, workerVars,
                 shut, sent, size, crashed>>

------------------------------------------------------------------------------
(* ConnectToServer.  An attempt that fails, or that finds a socket, changes *)
(* nothing.                                                                 *)

Connect ==
  /\ Game("idle") /\ ~exited /\ ~Socket
  /\ conns < MaxConns
  /\ Socket' = TRUE /\ freed' = FALSE /\ bRunRecv' = TRUE
  /\ LoginRecvThread' = TRUE /\ timer' = TRUE
  /\ worker' = "loop" /\ part' = "size" /\ read' = 0
  /\ conns' = conns + 1 /\ given' = <<>>
  /\ open' = TRUE /\ shut' = FALSE /\ sent' = 0 /\ size' = FALSE
  /\ UNCHANGED <<RecvPackets, game, exited, crashed>>

------------------------------------------------------------------------------
(* DisconnectFromServer.                                                    *)

\* Called by the game, or by Deinitialize when it ends.
Disconnect(final) ==
  /\ Game("idle") /\ ~exited
  /\ final \/ "disconnect" \in Env
  /\ exited' = final
  /\ game' = "stop"
  /\ UNCHANGED <<Socket, freed, bRunRecv, RecvPackets, timer, LoginRecvThread,
                 conns, given, workerVars, link, crashed>>

StopPolling ==
  /\ Game("stop")
  /\ timer' = FALSE /\ bRunRecv' = FALSE
  /\ game' = IF Socket THEN "shut" ELSE "join"
  /\ UNCHANGED <<Socket, freed, RecvPackets, exited, LoginRecvThread, conns,
                 given, workerVars, link, crashed>>

\* Shutdown, DestroySocket, and the pointer.
CloseSocket ==
  /\ \/ /\ Game("shut") /\ game' = "destroy"
        /\ shut' = TRUE
        /\ UNCHANGED <<Socket, freed>>
     \/ /\ Game("destroy") /\ game' = "null"
        /\ freed' = TRUE
        /\ UNCHANGED <<Socket, shut>>
     \/ /\ Game("null") /\ game' = "join"
        /\ Socket' = FALSE
        /\ UNCHANGED <<freed, shut>>
  /\ UNCHANGED <<bRunRecv, RecvPackets, timer, exited, LoginRecvThread, conns,
                 given, workerVars, open, sent, size, crashed>>

\* The thread is not waited for.
BadJoin ==
  /\ Game("join")
  /\ LoginRecvThread' = FALSE
  /\ game' = "idle"
  /\ UNCHANGED <<Socket, freed, bRunRecv, RecvPackets, timer, exited, conns,
                 given, workerVars, link, crashed>>

Join ==
  /\ Game("join")
  /\ LoginRecvThread => worker = "done"
  /\ worker' = "none"
  /\ LoginRecvThread' = FALSE
  /\ game' = "idle"
  /\ UNCHANGED <<Socket, freed, bRunRecv, RecvPackets, timer, exited, conns,
                 given, part, read, link, crashed>>

------------------------------------------------------------------------------
(* NetworkPolling.                                                          *)

\* The timer fires once.
BadPoll ==
  /\ Game("idle") /\ timer /\ Socket
  /\ game' = "poll"
  /\ timer' = FALSE
  /\ UNCHANGED <<Socket, freed, bRunRecv, RecvPackets, exited, LoginRecvThread,
                 conns, given, workerVars, link, crashed>>

Poll ==
  /\ Game("idle") /\ timer /\ Socket
  /\ game' = "poll"
  /\ UNCHANGED <<Socket, freed, bRunRecv, RecvPackets, timer, exited,
                 LoginRecvThread, conns, given, workerVars, link, crashed>>

Dequeue ==
  /\ Game("poll")
  /\ IF RecvPackets = <<>>
       THEN game' = "idle" /\ UNCHANGED <<RecvPackets, given>>
       ELSE /\ RecvPackets' = Tail(RecvPackets)
            /\ IF Head(RecvPackets).n = 0
                 THEN game' = "stop" /\ UNCHANGED given
                 ELSE given' = Append(given, Head(RecvPackets)) /\ UNCHANGED game
  /\ UNCHANGED <<Socket, freed, bRunRecv, timer, exited, LoginRecvThread, conns,
                 workerVars, link, crashed>>

------------------------------------------------------------------------------
(* RecvLoop.                                                                *)

WorkerGoes(step) == worker' = step
ElseUnchanged == UNCHANGED <<Socket, freed, bRunRecv, gameVars, link>>

Loop ==
  /\ Worker("loop")
  /\ WorkerGoes(IF bRunRecv /\ Socket THEN "wait" ELSE "end")
  /\ ElseUnchanged /\ UNCHANGED <<RecvPackets, part, read, crashed>>

\* RecvAllBlocking tests the pointer before its loop.
CheckSocket ==
  /\ Worker("check")
  /\ WorkerGoes(IF Socket THEN "recv" ELSE "end")
  /\ ElseUnchanged /\ UNCHANGED <<RecvPackets, part, read, crashed>>

\* Socket->Wait and Socket->Recv, which read the pointer again.
CallSocket ==
  /\ Worker("wait") \/ Worker("recv")
  /\ IF Socket
       THEN WorkerGoes(IF worker = "wait" THEN "waiting" ELSE "receiving")
            /\ UNCHANGED crashed
       ELSE crashed' = TRUE /\ UNCHANGED worker
  /\ ElseUnchanged /\ UNCHANGED <<RecvPackets, part, read>>

\* The object is gone while its member function runs: anything may happen,
\* at best the call fails.
CallOnFreed ==
  /\ Worker("waiting") \/ Worker("receiving")
  /\ freed
  /\ \/ WorkerGoes(IF worker = "waiting" THEN "loop" ELSE "end")
        /\ UNCHANGED crashed
     \/ crashed' = TRUE /\ UNCHANGED worker
  /\ ElseUnchanged /\ UNCHANGED <<RecvPackets, part, read>>

\* A receive that returns nothing is taken for one that succeeds.
BadArrived(p) == TRUE

Arrived(p) == sent > read \/ (p = "size" /\ size)
Down == shut \/ ~open

\* Wait returns at the latest after 100 ms.
WaitReturns ==
  /\ Worker("waiting") /\ ~freed
  /\ WorkerGoes(IF Arrived("size") \/ Down THEN "check" ELSE "loop")
  /\ ElseUnchanged /\ UNCHANGED <<RecvPackets, part, read, crashed>>

Received ==
  /\ Worker("receiving") /\ ~freed /\ Arrived(part)
  /\ IF part = "size" THEN part' = "data" /\ WorkerGoes("check")
                      ELSE part' = "size" /\ WorkerGoes("push")
  /\ ElseUnchanged /\ UNCHANGED <<RecvPackets, read, crashed>>

\* The end is told here too.
BadReceiveFails ==
  /\ Worker("receiving") /\ ~freed
  /\ Down \/ ("size" \in Env /\ part = "size" /\ Arrived(part))
  /\ RecvPackets' = Append(RecvPackets, End(conns))
  /\ WorkerGoes("end")
  /\ ElseUnchanged /\ UNCHANGED <<part, read, crashed>>

\* The connection has ended, or the size is 0 or above READ_CHUNK.
ReceiveFails ==
  /\ Worker("receiving") /\ ~freed
  /\ Down \/ ("size" \in Env /\ part = "size" /\ Arrived(part))
  /\ WorkerGoes("end")
  /\ ElseUnchanged /\ UNCHANGED <<RecvPackets, part, read, crashed>>

\* There is room for one packet, the last.
BadPush ==
  /\ Worker("push")
  /\ RecvPackets' = <<[conn |-> conns, n |-> read + 1]>>
  /\ read' = read + 1
  /\ WorkerGoes("loop")
  /\ ElseUnchanged /\ UNCHANGED <<part, crashed>>

Push ==
  /\ Worker("push")
  /\ RecvPackets' = Append(RecvPackets, [conn |-> conns, n |-> read + 1])
  /\ read' = read + 1
  /\ WorkerGoes("loop")
  /\ ElseUnchanged /\ UNCHANGED <<part, crashed>>

\* The worker ends without a word.
BadFinish ==
  /\ Worker("end")
  /\ WorkerGoes("done")
  /\ ElseUnchanged /\ UNCHANGED <<RecvPackets, part, read, crashed>>

Finish ==
  /\ Worker("end")
  /\ RecvPackets' = Append(RecvPackets, End(conns))
  /\ WorkerGoes("done")
  /\ ElseUnchanged /\ UNCHANGED <<part, read, crashed>>

------------------------------------------------------------------------------
Server == ServerSend \/ ServerClose
GameThread == StopPolling \/ CloseSocket \/ Join \/ Poll \/ Dequeue
RecvLoop ==
  \/ Loop \/ CheckSocket \/ CallSocket \/ CallOnFreed \/ WaitReturns
  \/ Received \/ ReceiveFails \/ Push \/ Finish

Next ==
  \/ Server \/ GameThread \/ RecvLoop
  \/ Connect \/ \E final \in BOOLEAN : Disconnect(final)

Spec == Init /\ [][Next]_vars

------------------------------------------------------------------------------
(* Safety.                                                                  *)

\* RecvPackets has a single producer, as its mode Spsc asks for, and the
\* worker does not outlive the object: once DisconnectFromServer has returned,
\* and a new connection can be made or the object destroyed, it has ended.
SingleProducer == game = "idle" /\ ~Socket => worker \in {"none", "done"}

\* A worker's end is told by a marker of its own, after its last packet: the
\* poll that takes a marker disconnects from a connection that is over.
MarkersTrue ==
  Socket /\ ~exited => \A i \in 1 .. Len(RecvPackets) :
    RecvPackets[i].n = 0 => worker = "done" /\ i = Len(RecvPackets)

\* The game is given the packets of each connection as the server sent them.
Promise == INSTANCE Delivery WITH up <- Socket
DeliversInOrder == Promise!Spec

------------------------------------------------------------------------------
(* The inductive invariants behind these properties: IInv holds for any     *)
(* Env, OwnInv when the game disconnects only to end.                       *)

\* Whoever runs and whoever holds the socket follow from where the game is.
ThreadsKnown ==
  /\ LoginRecvThread <=> worker # "none"
  /\ worker # "none" => conns > 0
  /\ game \in {"poll", "shut", "destroy", "null"} => Socket
  /\ game = "join" => ~Socket

\* The worker receives what the server has sent, and no more.
ReadSent ==
  /\ read <= sent
  /\ worker = "push" => read < sent

IInv == TypeOK /\ ThreadsKnown /\ ReadSent /\ SingleProducer

\* The queue holds what has been received and not been handed over, with the
\* marker at its end if the worker has ended.
Up == game \in {"idle", "poll"} /\ Socket
Marked == worker = "done"
Content(i) == IF i + Len(given) > read THEN End(conns)
              ELSE [conn |-> conns, n |-> i + Len(given)]
QueueExact ==
  ~exited =>
    /\ Len(given) <= read
    /\ Up => /\ worker # "none"
             /\ Len(RecvPackets) = read - Len(given) + (IF Marked THEN 1 ELSE 0)
             /\ \A i \in 1 .. Len(RecvPackets) : RecvPackets[i] = Content(i)
    /\ ~Up => worker \in {"none", "done"} /\ RecvPackets = <<>>

\* Once the game has exited only the worker is left, and what it queues is
\* never read.
OwnInv == IInv /\ QueueExact /\ (exited => ~Up)

------------------------------------------------------------------------------
(* Liveness.  Both threads run, and the timer fires.                        *)

LiveSpec == Spec /\ WF_vars(GameThread) /\ WF_vars(RecvLoop)

\* A connection the server has closed is given up by the client.
CloseNoticed == Socket /\ ~open ~> ~Socket \/ crashed

\* What the server has sent is handed to the game, unless the connection goes.
Delivered ==
  \A n \in 1 .. MaxSent :
    Socket /\ sent >= n ~> Len(given) >= n \/ ~Socket \/ crashed
==============================================================================
