-------------------------- MODULE LoginClientProofs --------------------------
(***************************************************************************)
(* Proofs of the safety properties of LoginClient, for any number of       *)
(* connections and packets, and that it implements Delivery when the game  *)
(* disconnects only to end.                                                *)
(***************************************************************************)
EXTENDS LoginClient, SequenceTheorems, TLAPS

\* IInv holds in the initial state.
LEMMA InitIInv == Init => IInv
<1> SUFFICES ASSUME Init PROVE IInv
  OBVIOUS
<1>1. RecvPackets \in Seq(Packet \cup Marker) /\ given \in Seq(Packet)
  BY DEF Init
<1>2. read \in 0 .. MaxSent /\ conns \in 0 .. MaxConns /\ sent \in 0 .. MaxSent
  BY BoundAssumption DEF Init
<1>3. game \in GameSteps /\ worker \in WorkerSteps /\ part \in {"size", "data"}
  BY DEF Init, GameSteps, WorkerSteps
<1>4. TypeOK
  BY <1>1, <1>2, <1>3, Zenon DEF Init, TypeOK
<1>5. ThreadsKnown /\ ReadSent /\ SingleProducer
  BY DEF Init, ThreadsKnown, ReadSent, SingleProducer
<1> QED
  BY <1>4, <1>5 DEF IInv

\* What a step of the worker has to respect to keep IInv.
LEMMA WorkerKeeps ==
  ASSUME IInv, ElseUnchanged,
         crashed' \in BOOLEAN, part' \in {"size", "data"},
         RecvPackets' \in Seq(Packet \cup Marker),
         worker \notin {"none", "done"},
         worker' \in WorkerSteps \ {"none"},
         read' \in 0 .. MaxSent, read' <= sent,
         worker' = "push" => read' < sent
  PROVE  IInv'
<1>1. TypeOK'
  BY Zenon DEF IInv, TypeOK, ElseUnchanged, gameVars, link
<1>2. ThreadsKnown'
  BY DEF IInv, ThreadsKnown, ElseUnchanged, gameVars
<1>3. ReadSent'
  BY DEF ReadSent, ElseUnchanged, link
<1>4. SingleProducer'
  BY DEF IInv, SingleProducer, ElseUnchanged, gameVars
<1> QED
  BY <1>1, <1>2, <1>3, <1>4 DEF IInv

\* A step of the worker that receives nothing keeps IInv.
LEMMA WorkerMoves ==
  ASSUME IInv, ElseUnchanged, UNCHANGED <<RecvPackets, read>>,
         crashed' \in BOOLEAN, part' \in {"size", "data"},
         worker \notin {"none", "done"},
         worker' \in WorkerSteps \ {"none"},
         worker' = "push" => worker = "push" \/ read < sent
  PROVE  IInv'
<1>1. read' \in 0 .. MaxSent /\ RecvPackets' \in Seq(Packet \cup Marker)
  BY DEF IInv, TypeOK
<1>2. read' <= sent /\ (worker' = "push" => read' < sent)
  BY DEF IInv, ReadSent
<1> QED
  BY <1>1, <1>2, WorkerKeeps

\* Every step of RecvLoop keeps IInv.
LEMMA RecvLoopIInv == ASSUME IInv, RecvLoop PROVE IInv'
<1> USE DEF Worker, WorkerGoes
<1>0. crashed \in BOOLEAN /\ part \in {"size", "data"} /\ read \in Nat /\ sent \in 0 .. MaxSent
  BY BoundAssumption DEF IInv, TypeOK
<1>1. CASE Loop
  <2>1. /\ ElseUnchanged /\ UNCHANGED <<RecvPackets, read, part, crashed>>
        /\ worker = "loop" /\ worker' \in {"wait", "end"}
    BY <1>1 DEF Loop
  <2> QED
    BY <1>0, <2>1, WorkerMoves DEF WorkerSteps
<1>2. CASE CheckSocket
  <2>1. /\ ElseUnchanged /\ UNCHANGED <<RecvPackets, read, part, crashed>>
        /\ worker = "check" /\ worker' \in {"recv", "end"}
    BY <1>2 DEF CheckSocket
  <2> QED
    BY <1>0, <2>1, WorkerMoves DEF WorkerSteps
<1>3. CASE CallSocket
  <2>1. /\ ElseUnchanged /\ UNCHANGED <<RecvPackets, read, part>>
        /\ crashed' \in BOOLEAN
        /\ worker \in {"wait", "recv"}
        /\ worker' \in {"waiting", "receiving", "wait", "recv"}
    BY <1>0, <1>3 DEF CallSocket
  <2> QED
    BY <1>0, <2>1, WorkerMoves DEF WorkerSteps, Calls
<1>4. CASE CallOnFreed
  <2>1. /\ ElseUnchanged /\ UNCHANGED <<RecvPackets, read, part>>
        /\ crashed' \in BOOLEAN
        /\ worker \in {"waiting", "receiving"}
        /\ worker' \in {"waiting", "receiving", "loop", "end"}
    BY <1>0, <1>4 DEF CallOnFreed
  <2> QED
    BY <1>0, <2>1, WorkerMoves DEF WorkerSteps, Calls
<1>5. CASE WaitReturns
  <2>1. /\ ElseUnchanged /\ UNCHANGED <<RecvPackets, read, part, crashed>>
        /\ worker = "waiting" /\ worker' \in {"check", "loop"}
    BY <1>5 DEF WaitReturns
  <2> QED
    BY <1>0, <2>1, WorkerMoves DEF WorkerSteps
<1>6. CASE Received
  <2>1. /\ ElseUnchanged /\ UNCHANGED <<RecvPackets, read, crashed>>
        /\ worker = "receiving" /\ worker' \in {"check", "push"}
        /\ part' \in {"size", "data"}
        /\ worker' = "push" => part # "size" /\ Arrived(part)
    BY <1>6 DEF Received
  <2>2. worker' = "push" => read < sent
    BY <1>0, <2>1 DEF Arrived
  <2> QED
    BY <1>0, <2>1, <2>2, WorkerMoves DEF WorkerSteps
<1>7. CASE ReceiveFails
  <2>1. /\ ElseUnchanged /\ UNCHANGED <<RecvPackets, read, part, crashed>>
        /\ worker = "receiving" /\ worker' = "end"
    BY <1>7 DEF ReceiveFails
  <2> QED
    BY <1>0, <2>1, WorkerMoves DEF WorkerSteps
<1>8. CASE Push
  <2>1. /\ ElseUnchanged /\ UNCHANGED <<part, crashed>>
        /\ worker = "push" /\ worker' = "loop"
        /\ read' = read + 1
        /\ RecvPackets' = Append(RecvPackets, [conn |-> conns, n |-> read + 1])
    BY <1>8 DEF Push
  <2>2. read < sent /\ conns > 0 /\ conns \in 0 .. MaxConns
    BY <2>1 DEF IInv, TypeOK, ReadSent, ThreadsKnown
  <2>3. read + 1 \in 1 .. MaxSent /\ conns \in 1 .. MaxConns
    BY <1>0, <2>2, BoundAssumption
  <2>4. [conn |-> conns, n |-> read + 1] \in Packet \cup Marker
    BY <2>3 DEF Packet
  <2>5. RecvPackets \in Seq(Packet \cup Marker)
    BY DEF IInv, TypeOK
  <2>6. RecvPackets' \in Seq(Packet \cup Marker)
    BY <2>1, <2>4, <2>5, AppendProperties
  <2>7. read' \in 0 .. MaxSent /\ read' <= sent
    BY <1>0, <2>1, <2>2, <2>3, BoundAssumption
  <2> QED
    BY <1>0, <2>1, <2>6, <2>7, WorkerKeeps DEF WorkerSteps
<1>9. CASE Finish
  <2>1. /\ ElseUnchanged /\ UNCHANGED <<part, read, crashed>>
        /\ worker = "end" /\ worker' = "done"
        /\ RecvPackets' = Append(RecvPackets, End(conns))
    BY <1>9 DEF Finish
  <2>2. conns \in 1 .. MaxConns
    BY <2>1, BoundAssumption DEF IInv, TypeOK, ThreadsKnown
  <2>3. End(conns) \in Packet \cup Marker
    BY <2>2 DEF End, Marker
  <2>4. RecvPackets \in Seq(Packet \cup Marker)
    BY DEF IInv, TypeOK
  <2>5. RecvPackets' \in Seq(Packet \cup Marker)
    BY <2>1, <2>3, <2>4, AppendProperties
  <2>6. read' \in 0 .. MaxSent /\ read' <= sent
    BY <2>1 DEF IInv, TypeOK, ReadSent
  <2> QED
    BY <1>0, <2>1, <2>5, <2>6, WorkerKeeps DEF WorkerSteps
<1> QED
  BY <1>1, <1>2, <1>3, <1>4, <1>5, <1>6, <1>7, <1>8, <1>9 DEF RecvLoop

\* What a step of the game that leaves the worker alone has to respect.
LEMMA GameKeeps ==
  ASSUME IInv, UNCHANGED <<LoginRecvThread, conns, workerVars, open, sent, size, crashed>>,
         Socket' \in BOOLEAN, freed' \in BOOLEAN, bRunRecv' \in BOOLEAN,
         timer' \in BOOLEAN, exited' \in BOOLEAN, shut' \in BOOLEAN,
         RecvPackets' \in Seq(Packet \cup Marker), given' \in Seq(Packet),
         game' \in GameSteps,
         game' \in {"poll", "shut", "destroy", "null"} => Socket',
         game' = "join" => ~Socket',
         game' = "idle" => Socket'
  PROVE  IInv'
<1>1. TypeOK'
  BY Zenon DEF IInv, TypeOK, workerVars
<1>2. ThreadsKnown'
  BY DEF IInv, ThreadsKnown, workerVars
<1>3. ReadSent'
  BY DEF IInv, ReadSent, workerVars
<1>4. SingleProducer'
  BY DEF SingleProducer
<1> QED
  BY <1>1, <1>2, <1>3, <1>4 DEF IInv

\* Every step of the game thread keeps IInv.
LEMMA GameIInv ==
  ASSUME IInv, GameThread \/ \E final \in BOOLEAN : Disconnect(final)
  PROVE  IInv'
<1> USE DEF Game
<1>0. /\ Socket \in BOOLEAN /\ freed \in BOOLEAN /\ bRunRecv \in BOOLEAN
      /\ timer \in BOOLEAN /\ exited \in BOOLEAN /\ shut \in BOOLEAN
      /\ RecvPackets \in Seq(Packet \cup Marker) /\ given \in Seq(Packet)
      /\ game \in {"poll", "shut", "destroy", "null"} => Socket
  BY DEF IInv, TypeOK, ThreadsKnown
<1>1. CASE StopPolling
  <2>1. /\ UNCHANGED <<LoginRecvThread, conns, workerVars, open, sent, size, crashed>>
        /\ UNCHANGED <<Socket, freed, exited, shut, RecvPackets, given>>
        /\ timer' = FALSE /\ bRunRecv' = FALSE
        /\ game' = IF Socket THEN "shut" ELSE "join"
    BY <1>1 DEF StopPolling, link
  <2> QED
    BY <1>0, <2>1, GameKeeps DEF GameSteps
<1>2. CASE CloseSocket
  <2>1. /\ UNCHANGED <<LoginRecvThread, conns, workerVars, open, sent, size, crashed>>
        /\ UNCHANGED <<exited, bRunRecv, timer, RecvPackets, given>>
        /\ freed' \in BOOLEAN /\ shut' \in BOOLEAN
        /\ \/ game' \in {"destroy", "null"} /\ Socket' = TRUE
           \/ game' = "join" /\ Socket' = FALSE
    BY <1>0, <1>2 DEF CloseSocket
  <2> QED
    BY <1>0, <2>1, GameKeeps DEF GameSteps
<1>3. CASE Join
  <2>1. /\ UNCHANGED <<Socket, freed, bRunRecv, RecvPackets, timer, exited, conns,
                       given, part, read, open, shut, sent, size, crashed>>
        /\ worker' = "none" /\ LoginRecvThread' = FALSE
        /\ game = "join" /\ game' = "idle"
    BY <1>3 DEF Join, link
  <2>2. game' \in GameSteps /\ worker' \in WorkerSteps /\ LoginRecvThread' \in BOOLEAN
    BY <2>1 DEF GameSteps, WorkerSteps
  <2>3. TypeOK'
    BY <2>1, <2>2, Zenon DEF IInv, TypeOK
  <2>4. (ThreadsKnown /\ ReadSent /\ SingleProducer)'
    BY <2>1 DEF IInv, ThreadsKnown, ReadSent, SingleProducer
  <2> QED
    BY <2>3, <2>4 DEF IInv
<1>4. CASE Poll
  <2>1. /\ UNCHANGED <<LoginRecvThread, conns, workerVars, open, sent, size, crashed>>
        /\ UNCHANGED <<Socket, freed, bRunRecv, timer, exited, shut, RecvPackets, given>>
        /\ Socket /\ game' = "poll"
    BY <1>4 DEF Poll, link
  <2> QED
    BY <1>0, <2>1, GameKeeps DEF GameSteps
<1>5. CASE Dequeue
  <2>1. /\ UNCHANGED <<LoginRecvThread, conns, workerVars, open, sent, size, crashed>>
        /\ UNCHANGED <<Socket, freed, bRunRecv, timer, exited, shut>>
        /\ game = "poll" /\ game' \in {"idle", "stop", "poll"}
    BY <1>5 DEF Dequeue, link
  <2>2. RecvPackets' \in Seq(Packet \cup Marker) /\ given' \in Seq(Packet)
    <3>1. CASE RecvPackets = <<>>
      BY <1>0, <1>5, <3>1 DEF Dequeue
    <3>2. CASE RecvPackets # <<>>
      <4>1. /\ Head(RecvPackets) \in Packet \cup Marker
            /\ Tail(RecvPackets) \in Seq(Packet \cup Marker)
        BY <1>0, <3>2, HeadTailProperties
      <4>2. Head(RecvPackets).n # 0 => Head(RecvPackets) \in Packet
        BY <4>1 DEF Marker
      <4>3. /\ RecvPackets' = Tail(RecvPackets)
            /\ \/ given' = given
               \/ given' = Append(given, Head(RecvPackets)) /\ Head(RecvPackets).n # 0
        BY <1>5, <3>2 DEF Dequeue
      <4>4. ASSUME Head(RecvPackets).n # 0
            PROVE  Append(given, Head(RecvPackets)) \in Seq(Packet)
        BY <1>0, <4>2, <4>4, AppendProperties
      <4> QED
        BY <1>0, <4>1, <4>3, <4>4
    <3> QED
      BY <3>1, <3>2
  <2> QED
    BY <1>0, <2>1, <2>2, GameKeeps DEF GameSteps
<1>6. ASSUME NEW final \in BOOLEAN, Disconnect(final) PROVE IInv'
  <2>1. /\ UNCHANGED <<LoginRecvThread, conns, workerVars, open, sent, size, crashed>>
        /\ UNCHANGED <<Socket, freed, bRunRecv, timer, shut, RecvPackets, given>>
        /\ exited' = final /\ game' = "stop"
    BY <1>6 DEF Disconnect, link
  <2> QED
    BY <1>0, <2>1, GameKeeps DEF GameSteps
<1> QED
  BY <1>1, <1>2, <1>3, <1>4, <1>5, <1>6 DEF GameThread

\* A new connection, and every step of the server, keeps IInv.
LEMMA ConnectIInv == ASSUME IInv, Connect PROVE IInv'
<1>1. /\ game = "idle" /\ ~Socket /\ conns < MaxConns
      /\ Socket' = TRUE /\ freed' = FALSE /\ bRunRecv' = TRUE
      /\ LoginRecvThread' = TRUE /\ timer' = TRUE
      /\ worker' = "loop" /\ part' = "size" /\ read' = 0
      /\ conns' = conns + 1 /\ given' = <<>>
      /\ open' = TRUE /\ shut' = FALSE /\ sent' = 0 /\ size' = FALSE
      /\ UNCHANGED <<RecvPackets, game, exited, crashed>>
  BY DEF Connect, Game
<1>2. conns \in 0 .. MaxConns
  BY DEF IInv, TypeOK
<1>3. conns' \in 0 .. MaxConns /\ conns' > 0 /\ 0 \in 0 .. MaxSent
  BY <1>1, <1>2, BoundAssumption
<1>4. worker' \in WorkerSteps /\ part' \in {"size", "data"} /\ given' \in Seq(Packet)
  BY <1>1 DEF WorkerSteps
<1>5. TypeOK'
  BY <1>1, <1>3, <1>4, Zenon DEF IInv, TypeOK
<1>6. (ThreadsKnown /\ ReadSent /\ SingleProducer)'
  BY <1>1, <1>3 DEF IInv, ThreadsKnown, ReadSent, SingleProducer
<1> QED
  BY <1>5, <1>6 DEF IInv

LEMMA ServerIInv == ASSUME IInv, Server PROVE IInv'
<1>1. UNCHANGED <<Socket, freed, bRunRecv, RecvPackets, gameVars, workerVars, shut, crashed>>
  BY DEF Server, ServerSend, ServerClose
<1>2. read \in 0 .. MaxSent /\ sent \in 0 .. MaxSent /\ open \in BOOLEAN /\ size \in BOOLEAN
  BY DEF IInv, TypeOK
<1>3. /\ open' \in BOOLEAN /\ size' \in BOOLEAN
      /\ sent' = sent \/ (sent < MaxSent /\ sent' = sent + 1)
  BY <1>2 DEF Server, ServerSend, ServerClose
<1>4. sent' \in 0 .. MaxSent /\ sent' >= sent
  BY <1>2, <1>3, BoundAssumption
<1>5. TypeOK'
  BY <1>1, <1>3, <1>4, Zenon DEF IInv, TypeOK, gameVars, workerVars
<1>6. (ThreadsKnown /\ SingleProducer)'
  BY <1>1 DEF IInv, ThreadsKnown, SingleProducer, gameVars, workerVars
<1>7. ReadSent'
  BY <1>1, <1>2, <1>4, BoundAssumption DEF IInv, ReadSent, workerVars
<1> QED
  BY <1>5, <1>6, <1>7 DEF IInv

\* IInv is inductive, whatever Env.
LEMMA NextIInv == ASSUME IInv, [Next]_vars PROVE IInv'
<1>1. CASE UNCHANGED vars
  <2>1. TypeOK'
    BY <1>1, Zenon DEF IInv, TypeOK, vars, gameVars, workerVars, link
  <2>2. (ThreadsKnown /\ ReadSent /\ SingleProducer)'
    BY <1>1 DEF IInv, ThreadsKnown, ReadSent, SingleProducer, vars, gameVars, workerVars, link
  <2> QED
    BY <2>1, <2>2 DEF IInv
<1>2. CASE Next
  BY <1>2, RecvLoopIInv, GameIInv, ConnectIInv, ServerIInv DEF Next
<1> QED
  BY <1>1, <1>2

\* Every reachable state is type correct.
THEOREM TypeCorrect == Spec => []TypeOK
<1>1. IInv => TypeOK
  BY DEF IInv
<1> QED
  BY InitIInv, NextIInv, <1>1, PTL DEF Spec

\* The receive queue has one producer and the worker does not outlive the
\* object (DisconnectFromServer, ConnectToServer).
THEOREM OneProducer == Spec => []SingleProducer
<1>1. IInv => SingleProducer
  BY DEF IInv
<1> QED
  BY InitIInv, NextIInv, <1>1, PTL DEF Spec

------------------------------------------------------------------------------
(* The game disconnects only to end.                                        *)

\* What the worker does without receiving leaves the queue as it should be.
LEMMA QueueKept ==
  ASSUME OwnInv, exited' = exited, exited => ~Up',
         UNCHANGED <<RecvPackets, given, read, conns>>,
         Up' <=> Up,
         worker' = worker \/ (worker \notin {"none", "done"} /\ worker' \notin {"none", "done"})
  PROVE  QueueExact' /\ (exited => ~Up)'
<1>1. Marked' <=> Marked
  BY DEF Marked
<1>2. \A i : Content(i)' = Content(i)
  BY DEF Content, End
<1>3. QueueExact
  BY DEF OwnInv
<1>4. CASE exited
  BY <1>4 DEF QueueExact
<1>5. CASE ~exited
  <2>1. Len(given') <= read'
    BY <1>3, <1>5 DEF QueueExact
  <2>2. ASSUME Up
        PROVE  /\ worker' # "none"
               /\ Len(RecvPackets') = read' - Len(given') + (IF Marked' THEN 1 ELSE 0)
               /\ \A i \in 1 .. Len(RecvPackets') : RecvPackets'[i] = Content(i)'
    BY <1>1, <1>2, <1>3, <1>5, <2>2 DEF QueueExact
  <2>3. ASSUME ~Up PROVE worker' \in {"none", "done"} /\ RecvPackets' = <<>>
    BY <1>3, <1>5, <2>3 DEF QueueExact
  <2> QED
    BY <1>5, <2>1, <2>2, <2>3 DEF QueueExact
<1> QED
  BY <1>4, <1>5

\* While the worker runs the queue holds what it has received and the game has
\* not been given.
LEMMA QueueOpen ==
  ASSUME OwnInv, ~exited, worker \notin {"none", "done"}
  PROVE  /\ Up /\ Len(given) <= read
         /\ Len(RecvPackets) = read - Len(given)
         /\ \A i \in 1 .. Len(RecvPackets) : RecvPackets[i] = Content(i)
<1>1. QueueExact /\ ~Marked
  BY DEF OwnInv, Marked
<1>2. Up
  BY <1>1 DEF QueueExact
<1>3. Len(given) \in Nat /\ read \in Nat
  BY BoundAssumption DEF OwnInv, IInv, TypeOK
<1> QED
  BY <1>1, <1>2, <1>3 DEF QueueExact

\* Every step of RecvLoop keeps the queue exact.
LEMMA RecvLoopOwn == ASSUME OwnInv, RecvLoop PROVE OwnInv'
<1> USE DEF Worker, WorkerGoes
<1>0. IInv /\ QueueExact /\ (exited => ~Up)
  BY DEF OwnInv
<1>1. IInv'
  BY <1>0, RecvLoopIInv
<1>2. /\ UNCHANGED <<exited, given, conns>>
      /\ Up' <=> Up
  BY DEF RecvLoop, Loop, CheckSocket, CallSocket, CallOnFreed, WaitReturns, Received,
         ReceiveFails, Push, Finish, ElseUnchanged, gameVars, Up
<1>3. exited => ~Up'
  BY <1>0, <1>2
<1>4. /\ RecvPackets \in Seq(Packet \cup Marker) /\ given \in Seq(Packet)
      /\ read \in Nat /\ Len(given) \in Nat
  BY <1>0, BoundAssumption DEF IInv, TypeOK
<1>5. CASE Push
  <2>1. /\ worker = "push" /\ worker' = "loop" /\ read' = read + 1
        /\ RecvPackets' = Append(RecvPackets, [conn |-> conns, n |-> read + 1])
    BY <1>5 DEF Push
  <2> SUFFICES QueueExact'
    BY <1>1, <1>2, <1>3, Zenon DEF OwnInv
  <2>2. CASE exited
    BY <1>2, <1>3, <2>2 DEF QueueExact
  <2>3. CASE ~exited
    <3>1. /\ Up /\ Len(given) <= read
          /\ Len(RecvPackets) = read - Len(given)
          /\ \A i \in 1 .. Len(RecvPackets) : RecvPackets[i] = Content(i)
      BY <2>1, <2>3, QueueOpen
    <3>2. /\ Len(RecvPackets') = Len(RecvPackets) + 1
          /\ \A i \in 1 .. Len(RecvPackets) : RecvPackets'[i] = RecvPackets[i]
          /\ RecvPackets'[Len(RecvPackets) + 1] = [conn |-> conns, n |-> read + 1]
      BY <1>4, <2>1
    <3>3. ASSUME NEW i \in 1 .. Len(RecvPackets') PROVE RecvPackets'[i] = Content(i)'
      <4>1. Content(i)' = [conn |-> conns, n |-> i + Len(given)]
        BY <1>2, <1>4, <2>1, <3>1, <3>2 DEF Content
      <4>2. CASE i = Len(RecvPackets) + 1
        <5>1. i + Len(given) = read + 1
          BY <1>4, <3>1, <4>2
        <5> QED
          BY <3>2, <4>1, <4>2, <5>1
      <4>3. CASE i \in 1 .. Len(RecvPackets)
        <5>1. Content(i) = [conn |-> conns, n |-> i + Len(given)]
          BY <1>4, <3>1, <4>3 DEF Content
        <5> QED
          BY <3>1, <3>2, <4>1, <4>3, <5>1
      <4> QED
        BY <1>4, <3>2, <4>2, <4>3
    <3>4. /\ worker' # "none" /\ ~Marked' /\ Len(given') <= read'
          /\ Len(RecvPackets') = read' - Len(given')
      BY <1>2, <1>4, <2>1, <3>1, <3>2 DEF Marked
    <3>5. Up'
      BY <1>2, <3>1
    <3> QED
      BY <1>2, <1>3, <3>3, <3>4, <3>5 DEF QueueExact
  <2> QED
    BY <2>2, <2>3
<1>6. CASE Finish
  <2>1. /\ worker = "end" /\ worker' = "done" /\ read' = read
        /\ RecvPackets' = Append(RecvPackets, End(conns))
    BY <1>6 DEF Finish
  <2> SUFFICES QueueExact'
    BY <1>1, <1>2, <1>3, Zenon DEF OwnInv
  <2>2. CASE exited
    BY <1>2, <1>3, <2>2 DEF QueueExact
  <2>3. CASE ~exited
    <3>1. /\ Up /\ Len(given) <= read
          /\ Len(RecvPackets) = read - Len(given)
          /\ \A i \in 1 .. Len(RecvPackets) : RecvPackets[i] = Content(i)
      BY <2>1, <2>3, QueueOpen
    <3>2. /\ Len(RecvPackets') = Len(RecvPackets) + 1
          /\ \A i \in 1 .. Len(RecvPackets) : RecvPackets'[i] = RecvPackets[i]
          /\ RecvPackets'[Len(RecvPackets) + 1] = End(conns)
      BY <1>4, <2>1
    <3>3. ASSUME NEW i \in 1 .. Len(RecvPackets') PROVE RecvPackets'[i] = Content(i)'
      <4>1. Content(i)' = Content(i)
        BY <1>2, <2>1 DEF Content, End
      <4>2. CASE i = Len(RecvPackets) + 1
        <5>1. i + Len(given) > read
          BY <1>4, <3>1, <4>2
        <5> QED
          BY <3>2, <4>1, <4>2, <5>1 DEF Content
      <4>3. CASE i \in 1 .. Len(RecvPackets)
        BY <3>1, <3>2, <4>1, <4>3
      <4> QED
        BY <1>4, <3>2, <4>2, <4>3
    <3>4. /\ worker' # "none" /\ Marked' /\ Len(given') <= read'
          /\ Len(RecvPackets') = read' - Len(given') + 1
      BY <1>2, <1>4, <2>1, <3>1, <3>2 DEF Marked
    <3>5. Up'
      BY <1>2, <3>1
    <3> QED
      BY <1>2, <1>3, <3>3, <3>4, <3>5 DEF QueueExact
  <2> QED
    BY <2>2, <2>3
<1>7. CASE ~Push /\ ~Finish
  <2>1. /\ UNCHANGED <<RecvPackets, read>>
        /\ worker \notin {"none", "done"} /\ worker' \notin {"none", "done"}
    BY <1>7 DEF RecvLoop, Loop, CheckSocket, CallSocket, CallOnFreed, WaitReturns,
                Received, ReceiveFails
  <2>2. QueueExact' /\ (exited => ~Up)'
    BY <1>2, <1>3, <2>1, QueueKept
  <2> QED
    BY <1>1, <2>2 DEF OwnInv
<1> QED
  BY <1>5, <1>6, <1>7

\* The head of the queue: the next packet, or the marker of an ended worker
\* with nothing behind it.
LEMMA HeadExact ==
  ASSUME OwnInv, Up, ~exited, RecvPackets # <<>>
  PROVE  \/ /\ Head(RecvPackets) = [conn |-> conns, n |-> Len(given) + 1]
            /\ Len(given) < read
         \/ /\ Head(RecvPackets).n = 0 /\ Tail(RecvPackets) = <<>>
            /\ worker = "done"
<1>1. /\ RecvPackets \in Seq(Packet \cup Marker) /\ Len(given) \in Nat /\ read \in Nat
  BY BoundAssumption DEF OwnInv, IInv, TypeOK
<1>2. /\ Len(RecvPackets) = read - Len(given) + (IF Marked THEN 1 ELSE 0)
      /\ \A i \in 1 .. Len(RecvPackets) : RecvPackets[i] = Content(i)
      /\ Len(given) <= read
  BY DEF OwnInv, QueueExact
<1>3. Len(RecvPackets) \in Nat /\ Len(RecvPackets) > 0
  BY <1>1, EmptySeq
<1>4. Head(RecvPackets) = Content(1)
  BY <1>1, <1>2, <1>3
<1>5. CASE Len(given) < read
  BY <1>1, <1>4, <1>5 DEF Content
<1>6. CASE Len(given) = read
  <2>1. Marked /\ Len(RecvPackets) = 1
    BY <1>1, <1>2, <1>3, <1>6
  <2>2. Tail(RecvPackets) = <<>>
    <3>1. Tail(RecvPackets) \in Seq(Packet \cup Marker) /\ Len(Tail(RecvPackets)) = 0
      BY <1>1, <2>1, HeadTailProperties
    <3> QED
      BY <3>1, EmptySeq
  <2>3. Head(RecvPackets).n = 0
    BY <1>1, <1>4, <1>6 DEF Content, End
  <2> QED
    BY <2>1, <2>2, <2>3 DEF Marked
<1> QED
  BY <1>1, <1>2, <1>5, <1>6

\* Every step of the game keeps the queue exact: what it takes is the next
\* packet, or a marker with nothing behind it.
LEMMA GameOwn ==
  ASSUME OwnInv, "disconnect" \notin Env,
         GameThread \/ \E final \in BOOLEAN : Disconnect(final)
  PROVE  OwnInv'
<1> USE DEF Game
<1>0. IInv /\ QueueExact /\ (exited => ~Up)
  BY DEF OwnInv
<1>1. IInv'
  BY <1>0, GameIInv
<1>2. exited \in BOOLEAN /\ (game \in {"poll", "shut", "destroy", "null"} => Socket)
  BY <1>0 DEF IInv, TypeOK, ThreadsKnown
<1>3. ASSUME GameThread, ~Dequeue, ~Join PROVE OwnInv'
  <2>1. /\ UNCHANGED <<exited, RecvPackets, given, read, conns, worker>>
        /\ Up' <=> Up
    BY <1>2, <1>3 DEF GameThread, StopPolling, CloseSocket, Poll, Up, workerVars
  <2>2. QueueExact' /\ (exited => ~Up)'
    BY <1>0, <2>1, QueueKept
  <2> QED
    BY <1>1, <2>2 DEF OwnInv
<1>4. CASE Join
  <2>1. /\ UNCHANGED <<exited, RecvPackets, given, read, Socket>>
        /\ worker' = "none" /\ game = "join" /\ game' = "idle"
    BY <1>4 DEF Join
  <2>2. ~Up /\ ~Up'
    BY <1>0, <2>1 DEF Up, IInv, ThreadsKnown
  <2>3. QueueExact'
    BY <1>0, <2>1, <2>2 DEF QueueExact
  <2> QED
    BY <1>1, <2>2, <2>3 DEF OwnInv
<1>5. CASE Dequeue
  <2>1. /\ UNCHANGED <<exited, read, Socket, worker, conns>>
        /\ game = "poll" /\ Socket /\ Up
    BY <1>2, <1>5 DEF Dequeue, workerVars, Up
  <2>2. ~exited /\ ~exited'
    BY <1>0, <2>1
  <2>3. /\ RecvPackets \in Seq(Packet \cup Marker) /\ given \in Seq(Packet)
        /\ read \in Nat /\ Len(given) \in Nat
    BY <1>0, BoundAssumption DEF IInv, TypeOK
  <2> SUFFICES QueueExact'
    BY <1>1, <2>2 DEF OwnInv
  <2>4. CASE RecvPackets = <<>>
    <3>1. game' = "idle" /\ UNCHANGED <<RecvPackets, given>>
      BY <1>5, <2>4 DEF Dequeue
    <3>2. Up' /\ (exited => ~Up')
      BY <2>1, <2>2, <3>1 DEF Up
    <3> QED
      BY <2>1, <3>1, <3>2, QueueKept
  <2>5. CASE RecvPackets # <<>> /\ Head(RecvPackets).n = 0
    <3>1. RecvPackets' = Tail(RecvPackets) /\ game' = "stop" /\ given' = given
      BY <1>5, <2>5 DEF Dequeue
    <3>2. Tail(RecvPackets) = <<>> /\ worker = "done"
      BY <2>1, <2>2, <2>3, <2>5, HeadExact
    <3>3. ~Up'
      BY <3>1 DEF Up
    <3>4. Len(given) <= read
      BY <1>0, <2>2 DEF QueueExact
    <3> QED
      BY <2>1, <3>1, <3>2, <3>3, <3>4 DEF QueueExact
  <2>6. CASE RecvPackets # <<>> /\ Head(RecvPackets).n # 0
    <3>1. /\ RecvPackets' = Tail(RecvPackets) /\ game' = "poll"
          /\ given' = Append(given, Head(RecvPackets))
      BY <1>5, <2>1, <2>6 DEF Dequeue
    <3>2. Head(RecvPackets) \in Packet
      BY <2>3, <2>6, HeadTailProperties DEF Marker
    <3>3. Len(given') = Len(given) + 1
      BY <2>3, <3>1, <3>2, AppendProperties
    <3>4. Len(given) < read
      BY <2>1, <2>2, <2>6, HeadExact
    <3>5. /\ worker # "none"
          /\ Len(RecvPackets) = read - Len(given) + (IF Marked THEN 1 ELSE 0)
          /\ \A i \in 1 .. Len(RecvPackets) : RecvPackets[i] = Content(i)
      BY <1>0, <2>1, <2>2 DEF QueueExact
    <3>6. /\ Len(RecvPackets') = Len(RecvPackets) - 1
          /\ \A i \in 1 .. Len(RecvPackets') : RecvPackets'[i] = RecvPackets[i + 1]
          /\ Len(RecvPackets) \in Nat
      BY <2>3, <2>6, <3>1, HeadTailProperties
    <3>7. ASSUME NEW i \in 1 .. Len(RecvPackets') PROVE RecvPackets'[i] = Content(i)'
      <4>1. i + 1 \in 1 .. Len(RecvPackets)
        BY <3>6
      <4>2. Content(i)' = Content(i + 1)
        <5>1. i + Len(given') = (i + 1) + Len(given)
          BY <2>3, <3>3
        <5> QED
          BY <2>1, <5>1 DEF Content, End
      <4> QED
        BY <3>5, <3>6, <4>1, <4>2
    <3>8. Marked' <=> Marked
      BY <2>1 DEF Marked
    <3>9. Len(RecvPackets') = read' - Len(given') + (IF Marked' THEN 1 ELSE 0)
      BY <2>1, <2>3, <3>3, <3>5, <3>6, <3>8
    <3>10. Len(given') <= read' /\ Up'
      BY <2>1, <2>3, <3>1, <3>3, <3>4 DEF Up
    <3> QED
      BY <2>1, <3>5, <3>7, <3>9, <3>10 DEF QueueExact
  <2> QED
    BY <2>4, <2>5, <2>6
<1>6. ASSUME NEW final \in BOOLEAN, Disconnect(final) PROVE OwnInv'
  <2>1. exited' /\ game' = "stop"
    BY <1>6 DEF Disconnect
  <2> QED
    BY <1>1, <2>1 DEF OwnInv, QueueExact, Up
<1> QED
  BY <1>3, <1>4, <1>5, <1>6

\* OwnInv holds in the initial state and is inductive.
LEMMA InitOwn == Init => OwnInv
<1> SUFFICES ASSUME Init PROVE OwnInv
  OBVIOUS
<1>1. QueueExact /\ (exited => ~Up)
  BY DEF Init, QueueExact, Up
<1> QED
  BY <1>1, InitIInv DEF OwnInv

LEMMA NextOwn ==
  ASSUME OwnInv, "disconnect" \notin Env, [Next]_vars PROVE OwnInv'
<1>0. IInv /\ QueueExact /\ (exited => ~Up) /\ IInv'
  BY NextIInv DEF OwnInv
<1>1. CASE UNCHANGED vars
  <2>1. /\ UNCHANGED <<exited, RecvPackets, given, read, conns, worker>>
        /\ Up' <=> Up
    BY <1>1 DEF vars, gameVars, workerVars, Up
  <2> QED
    BY <1>0, <2>1, QueueKept DEF OwnInv
<1>2. CASE Server
  <2>1. /\ UNCHANGED <<exited, RecvPackets, given, read, conns, worker>>
        /\ Up' <=> Up
    BY <1>2 DEF Server, ServerSend, ServerClose, gameVars, workerVars, Up
  <2> QED
    BY <1>0, <2>1, QueueKept DEF OwnInv
<1>3. CASE Connect
  <2>1. /\ game = "idle" /\ game' = "idle" /\ ~Socket /\ Socket' /\ ~exited /\ ~exited'
        /\ RecvPackets' = RecvPackets /\ given' = <<>> /\ read' = 0 /\ worker' = "loop"
    BY <1>3 DEF Connect, Game
  <2>2. ~Up /\ Up' /\ ~Marked'
    BY <2>1 DEF Up, Marked
  <2>3. RecvPackets' = <<>>
    BY <1>0, <2>1, <2>2 DEF QueueExact
  <2>4. Len(RecvPackets') = 0 /\ Len(given') = 0
    BY <2>1, <2>3
  <2>5. QueueExact'
    BY <2>1, <2>2, <2>3, <2>4 DEF QueueExact
  <2> QED
    BY <1>0, <2>1, <2>5 DEF OwnInv
<1> QED
  BY <1>1, <1>2, <1>3, RecvLoopOwn, GameOwn DEF Next

\* A worker's end is told once and after its packets (RecvLoop's last line,
\* NetworkPolling), if the game disconnects only to end.
THEOREM MarkersRight ==
  ASSUME "disconnect" \notin Env PROVE Spec => []MarkersTrue
<1>1. OwnInv => MarkersTrue
  <2> SUFFICES ASSUME OwnInv, Socket, ~exited, NEW i \in 1 .. Len(RecvPackets),
                      RecvPackets[i].n = 0
               PROVE  worker = "done" /\ i = Len(RecvPackets)
    BY DEF MarkersTrue
  <2>1. RecvPackets # <<>>
    BY EmptySeq
  <2>2. Up
    BY <2>1 DEF OwnInv, QueueExact
  <2>3. /\ Len(RecvPackets) = read - Len(given) + (IF Marked THEN 1 ELSE 0)
        /\ RecvPackets[i] = Content(i)
    BY <2>2 DEF OwnInv, QueueExact
  <2>4. Len(given) \in Nat /\ read \in Nat
    BY BoundAssumption DEF OwnInv, IInv, TypeOK
  <2>5. i + Len(given) > read
    BY <2>3, <2>4 DEF Content
  <2> QED
    BY <2>3, <2>4, <2>5 DEF Marked
<1> QED
  BY InitOwn, NextOwn, <1>1, PTL DEF Spec

------------------------------------------------------------------------------
(* The client implements Delivery.                                          *)

\* Every step is a step of Delivery or leaves its variables as they are.
LEMMA StepImplements ==
  ASSUME OwnInv, "disconnect" \notin Env, [Next]_vars
  PROVE  [Promise!Next]_Promise!vars
<1> USE DEF Game, Worker, Promise!Next, Promise!vars
<1>0. /\ game \in {"poll", "shut", "destroy", "null"} => Socket
      /\ read <= sent /\ read \in Nat /\ sent \in Nat /\ Len(given) \in Nat
      /\ Socket \in BOOLEAN
  BY BoundAssumption DEF OwnInv, IInv, TypeOK, ThreadsKnown, ReadSent
<1>1. CASE ServerSend
  BY <1>0, <1>1 DEF ServerSend, gameVars, Promise!Send
<1>2. CASE Connect
  BY <1>2 DEF Connect, Promise!Connect
<1>3. CASE CloseSocket
  BY <1>0, <1>3 DEF CloseSocket, link, Promise!Disconnect
<1>4. CASE Dequeue
  <2>1. UNCHANGED <<Socket, conns, sent>> /\ game = "poll"
    BY <1>4 DEF Dequeue, link
  <2>2. CASE given' = given
    BY <2>1, <2>2
  <2>3. CASE given' # given
    <3>1. RecvPackets # <<>> /\ Head(RecvPackets).n # 0 /\ given' = Append(given, Head(RecvPackets))
      BY <1>4, <2>3 DEF Dequeue
    <3>2. Up /\ ~exited
      BY <1>0, <2>1 DEF OwnInv, Up
    <3>3. Head(RecvPackets) = [conn |-> conns, n |-> Len(given) + 1] /\ Len(given) < read
      BY <3>1, <3>2, HeadExact
    <3> QED
      BY <1>0, <2>1, <3>1, <3>3 DEF Promise!Deliver
  <2> QED
    BY <2>2, <2>3
<1>5. CASE ServerClose
  BY <1>5 DEF ServerClose, gameVars
<1>6. CASE StopPolling \/ Join \/ Poll
  BY <1>6 DEF StopPolling, Join, Poll, link
<1>7. CASE RecvLoop
  BY <1>7 DEF RecvLoop, Loop, CheckSocket, CallSocket, CallOnFreed, WaitReturns, Received,
              ReceiveFails, Push, Finish, ElseUnchanged, gameVars, link
<1>8. ASSUME NEW final \in BOOLEAN, Disconnect(final) PROVE UNCHANGED Promise!vars
  BY <1>8 DEF Disconnect, link
<1>9. CASE UNCHANGED vars
  BY <1>9 DEF vars, gameVars, link
<1> QED
  BY <1>1, <1>2, <1>3, <1>4, <1>5, <1>6, <1>7, <1>8, <1>9 DEF Next, Server, GameThread

\* The client hands over what the server sent on this connection, in order
\* and once (ConnectToServer to ProcessPacket), if the game disconnects only
\* to end.
THEOREM Implements ==
  ASSUME "disconnect" \notin Env PROVE Spec => DeliversInOrder
<1>1. Init => Promise!Init
  BY DEF Init, Promise!Init
<1> QED
  BY InitOwn, NextOwn, StepImplements, <1>1, PTL DEF Spec, DeliversInOrder, Promise!Spec
==============================================================================
