--------------------------------- MODULE Wire ---------------------------------
(***************************************************************************)
(* How a message crosses a connection: SendFlatBufferMessage sends its     *)
(* length in four bytes and then its body; the receiver takes four bytes   *)
(* and then as many as they say.  server.cpp and LoginClientSubsystem.cpp  *)
(* each have both ends.  One direction of one connection is modelled:      *)
(* "down", from the server, whose handlers and countdown threads all send  *)
(* on the socket of any client, or "up", from the client's game thread.    *)
(*                                                                         *)
(* TCP is a stream of bytes, of which the receiver has taken some.  send() *)
(* accepts what there is room for and recv() returns what there is, so     *)
(* that each needs a loop.  What a receiver does with a whole message is   *)
(* the subject of other modules; it may at any time close the connection.  *)
(*                                                                         *)
(* A definition whose name begins with Bad is its successor with a mistake *)
(* in it; no specification uses it.                                        *)
(***************************************************************************)
EXTENDS Naturals, Sequences

CONSTANTS
  Threads,    \* the server's threads that send on this connection
  Game,       \* the client's game thread
  Bodies,     \* what is sent: FlatBuffers, taken for sequences of bytes
  ReadChunk,  \* READ_CHUNK, the largest message the client takes
  Room,       \* bytes the connection holds until they are received
  MaxSent,    \* bound: messages sent
  Env         \* what else may happen

\* "overlap"  a thread sends on the socket while another is sending on it
\* "short"    a send of the client takes a part of what it is given
ASSUME EnvAssumption == Env \subseteq {"overlap", "short"}
ASSUME SenderAssumption == Game \notin Threads
ASSUME BoundAssumption == MaxSent \in Nat /\ Room \in Nat \ {0} /\ ReadChunk \in Nat

Byte == 0 .. 255
MaxSize == 32767 * 65536 + 65535  \* 2^31 - 1, FLATBUFFERS_MAX_BUFFER_SIZE
ASSUME BodyAssumption ==
  Bodies \subseteq Seq(Byte) /\ \A b \in Bodies : Len(b) \in 1 .. MaxSize

VARIABLES
  dir,       \* the direction
  open,      \* neither end has closed the connection
  stream,    \* the bytes accepted by send()
  taken,     \* how many of them recv() has returned
  at,        \* sender -> what it is sending: "size", "data", or "idle"
  msg,       \* sender -> the message it is sending
  done,      \* sender -> TotalSentBytes
  reader,    \* what is being received: "size", "data", or "ended"
  want,      \* the size of the message being received
  got,       \* Received
  received,  \* messages received whole
  sent,      \* history: messages begun, in that order
  from,      \* history: where each begins in a stream that holds them all,
             \* and where the next one would
  garbled    \* history: a message was begun before another had ended, or
             \* was not sent whole

senders == <<at, msg, done, sent, from, garbled>>
receiver == <<taken, reader, want, got, received>>
vars == <<dir, open, stream, senders, receiver>>

Callers == Threads \cup {Game}

\* Who sends in this direction.
Senders == IF dir = "down" THEN Threads ELSE {Game}

HeaderSize == 4

\* htonl and ntohl: the most significant byte goes first.
Htonl(n) ==
  LET a == n \div 256
      b == a \div 256
  IN  <<b \div 256, b % 256, a % 256, n % 256>>
Ntohl(h) == 256 * (256 * (256 * h[1] + h[2]) + h[3]) + h[4]

Need == IF reader = "size" THEN HeaderSize ELSE want

TypeOK ==
  /\ dir \in {"down", "up"}
  /\ open \in BOOLEAN /\ garbled \in BOOLEAN
  /\ stream \in Seq(Byte)
  /\ taken \in 0 .. Len(stream)
  /\ at \in [Callers -> {"idle", "size", "data"}]
  /\ msg \in [Callers -> Bodies \cup {<<>>}]
  /\ done \in [Callers -> Nat]
  /\ reader \in {"size", "data", "ended"}
  /\ want \in Nat
  /\ got \in 0 .. Need /\ got <= taken
  /\ received \in Seq(Seq(Byte))
  /\ sent \in Seq(Bodies)
  /\ from \in Seq(Nat) /\ Len(from) = Len(sent) + 1

Init ==
  /\ dir \in {"down", "up"}
  /\ open = TRUE
  /\ stream = <<>> /\ taken = 0
  /\ at = [w \in Callers |-> "idle"]
  /\ msg = [w \in Callers |-> <<>>]
  /\ done = [w \in Callers |-> 0]
  /\ reader = "size" /\ want = 0 /\ got = 0
  /\ received = <<>>
  /\ sent = <<>> /\ from = <<0>> /\ garbled = FALSE

------------------------------------------------------------------------------
(* The senders: SendFlatBufferMessage and the server's SendAll.             *)

Busy(w) == at[w] # "idle"

\* A call on a connection that is down fails at once and changes nothing.
Begin(w, b) ==
  /\ ~Busy(w)
  /\ open
  /\ Len(sent) < MaxSent
  /\ "overlap" \in Env \/ \A v \in Senders : ~Busy(v)
  /\ at' = [at EXCEPT ![w] = "size"]
  /\ msg' = [msg EXCEPT ![w] = b]
  /\ sent' = Append(sent, b)
  /\ from' = Append(from, from[Len(from)] + HeaderSize + Len(b))
  /\ garbled' = (garbled \/ \E v \in Senders : Busy(v))
  /\ UNCHANGED <<dir, open, stream, done, receiver>>

\* What the sender is to send now.
Output(w) == IF at[w] = "size" THEN Htonl(Len(msg[w])) ELSE msg[w]

\* A part of it is taken for the whole.
BadSentAll(w, n) == TRUE
\* The loop asks for one byte more.
BadSendsOn(w, n) == n > Len(Output(w))
SentAll(w, n) == n >= Len(Output(w))

\* The length has gone, or the body.
GoOn(w) ==
  /\ at' = [at EXCEPT ![w] = IF @ = "size" THEN "data" ELSE "idle"]
  /\ msg' = [msg EXCEPT ![w] = IF at[w] = "size" THEN @ ELSE <<>>]
  /\ done' = [done EXCEPT ![w] = 0]

\* send() accepts n more of the bytes it is given.
Accept(w, n) ==
  /\ Len(stream) + n <= taken + Room
  /\ done[w] + n <= Len(Output(w))
  /\ stream' = stream \o SubSeq(Output(w), done[w] + 1, done[w] + n)

SendSome(w, n) ==
  /\ Busy(w)
  /\ open
  /\ Accept(w, n)
  /\ IF SentAll(w, done[w] + n)
       THEN GoOn(w)
       ELSE done' = [done EXCEPT ![w] = @ + n] /\ UNCHANGED <<at, msg>>
  /\ UNCHANGED <<dir, open, sent, from, garbled, receiver>>

\* The client calls Send once for the length and once for the body, and does
\* not look at SentBytes.
ShortSend ==
  /\ "short" \in Env
  /\ dir = "up"
  /\ Busy(Game)
  /\ open
  /\ done[Game] > 0
  /\ GoOn(Game)
  /\ garbled' = TRUE
  /\ UNCHANGED <<dir, open, stream, sent, from, receiver>>

SendFails(w) ==
  /\ Busy(w)
  /\ ~open
  /\ at' = [at EXCEPT ![w] = "idle"]
  /\ msg' = [msg EXCEPT ![w] = <<>>]
  /\ done' = [done EXCEPT ![w] = 0]
  /\ UNCHANGED <<dir, open, stream, sent, from, garbled, receiver>>

Close ==
  /\ open
  /\ open' = FALSE
  /\ UNCHANGED <<dir, stream, senders, receiver>>

------------------------------------------------------------------------------
(* The receiver: the server's ReceiveFlatBufferMessage and RecvAll, or the  *)
(* client's RecvLoop and RecvAllBlocking.                                   *)

\* recv() returns n bytes.
RecvSome(n) ==
  /\ reader # "ended"
  /\ got + n <= Need
  /\ taken + n <= Len(stream)
  /\ got' = got + n
  /\ taken' = taken + n
  /\ UNCHANGED <<dir, open, stream, senders, reader, want, received>>

\* The bytes in the receiver's buffer.
Received == SubSeq(stream, taken - got + 1, taken)

BadRefused(n) == dir = "down" /\ (n = 0 \/ n >= ReadChunk)
\* The client's RecvLoop takes only sizes up to READ_CHUNK; the server any.
Refused(n) == dir = "down" /\ (n = 0 \/ n > ReadChunk)

ReadSize ==
  /\ reader = "size" /\ got = HeaderSize
  /\ want' = Ntohl(Received)
  /\ reader' = IF Refused(want') THEN "ended" ELSE "data"
  /\ got' = 0
  /\ UNCHANGED <<dir, open, stream, senders, taken, received>>

\* The message is handed on, and the next is waited for.
Deliver ==
  /\ reader = "data" /\ got = want
  /\ received' = Append(received, Received)
  /\ reader' = "size" /\ want' = 0 /\ got' = 0
  /\ UNCHANGED <<dir, open, stream, senders, taken>>

\* The connection has ended; bytes on their way may be lost with it.
RecvFails ==
  /\ reader # "ended" /\ got < Need
  /\ ~open
  /\ reader' = "ended" /\ want' = 0 /\ got' = 0
  /\ UNCHANGED <<dir, open, stream, senders, taken, received>>

------------------------------------------------------------------------------
Sender(w) ==
  \/ \E n \in 1 .. Room : SendSome(w, n)
  \/ SendFails(w)

Receiver ==
  \/ \E n \in 1 .. Room : RecvSome(n)
  \/ ReadSize \/ Deliver \/ RecvFails

Next ==
  \/ \E w \in Senders : Sender(w) \/ \E b \in Bodies : Begin(w, b)
  \/ ShortSend \/ Close \/ Receiver

Spec == Init /\ [][Next]_vars

------------------------------------------------------------------------------
(* Safety.                                                                  *)

\* However the bytes are split on their way, the messages received are the
\* first of those sent, whole and in order, as long as no two sends overlap
\* and none is cut short; also when the connection ends within a message.
ReceivedAsSent ==
  ~garbled =>
    /\ Len(received) <= Len(sent)
    /\ \A i \in 1 .. Len(received) : received[i] = sent[i]

\* As long as that holds, the receiver gives up an open connection for one
\* reason: the next message is larger than the client takes.
OnlyLargeRefused ==
  ~garbled /\ open /\ reader = "ended" =>
    /\ dir = "down"
    /\ Len(received) < Len(sent)
    /\ Len(sent[Len(received) + 1]) > ReadChunk

\* What is received after a length is the data of a message: it holds for
\* any interleaving of the threads that send.
OnlySentReceived ==
  \A i \in 1 .. Len(received) : \E j \in 1 .. Len(sent) : received[i] = sent[j]

------------------------------------------------------------------------------
(* The inductive invariant behind the first two.                            *)

Packet(b) == Htonl(Len(b)) \o b
Last == Len(sent)

\* The stream holds the messages one after the other, all of them whole but
\* the last, of which it holds what its sender has sent.
Layout ==
  /\ from[1] = 0
  /\ \A m \in 1 .. Last : from[m + 1] = from[m] + HeaderSize + Len(sent[m])
  /\ \A m \in 1 .. Last : from[m] <= Len(stream)
  /\ Len(stream) <= from[Last + 1]
  /\ \A m \in 1 .. Last : \A p \in 1 .. HeaderSize + Len(sent[m]) :
       from[m] + p <= Len(stream) => stream[from[m] + p] = Packet(sent[m])[p]

\* The one sender is within the last message.
SenderPlace ==
  /\ \A v, w \in Callers : Busy(v) /\ Busy(w) => v = w
  /\ \A w \in Callers : Busy(w) =>
       /\ Last > 0 /\ msg[w] = sent[Last]
       /\ done[w] < Len(Output(w))
       /\ Len(stream) = from[Last] + done[w] + (IF at[w] = "size" THEN 0 ELSE HeaderSize)
  /\ open /\ (\A w \in Callers : ~Busy(w)) => Len(stream) = from[Last + 1]

\* The receiver is within the message after those it has received.
ReceiverPlace ==
  LET m == Len(received) + 1
  IN  /\ reader = "size" => taken = from[m] + got
      /\ reader = "data" => /\ m <= Last
                            /\ want = Len(sent[m])
                            /\ taken = from[m] + HeaderSize + got

Idle == \A w \in Callers : IF Busy(w) THEN w \in Senders ELSE done[w] = 0

IInv ==
  /\ TypeOK
  /\ Idle
  /\ ~garbled => Layout /\ SenderPlace /\ ReceiverPlace
  /\ ReceivedAsSent
  /\ OnlyLargeRefused

------------------------------------------------------------------------------
(* Liveness.  Threads are scheduled, and TCP delivers what it has accepted. *)

LiveSpec ==
  /\ Spec
  /\ \A w \in Callers : WF_vars(Sender(w))
  /\ WF_vars(Receiver)

\* A message whose sending has begun arrives, though the connection holds
\* less than a message, unless the connection ends.
Arrives ==
  \A i \in 1 .. MaxSent :
    Len(sent) >= i ~> Len(received) >= i \/ ~open \/ garbled \/ reader = "ended"
===============================================================================
