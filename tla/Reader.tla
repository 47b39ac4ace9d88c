-------------------------------- MODULE Reader --------------------------------
(***************************************************************************)
(* What a receiver does with a whole message: it verifies it as a FlatBuffer *)
(* and, if it passes, looks at the type of its body and reads the fields of *)
(* that body one by one, through accessors that check nothing.  The server *)
(* does so in HandleClient, ProcessPacket and the handlers of requests, the *)
(* client in NetworkPolling, ProcessPacket and the handlers of what the    *)
(* server sends.  What they do with the values is left to other modules.   *)
(*                                                                         *)
(* Any sequence of bytes may arrive: after two sends that overlapped, or   *)
(* one that was cut short (see Wire), it is no message at all.             *)
(***************************************************************************)
EXTENDS Protocol

VARIABLES
  side,     \* who receives: "server" or "client"
  buf,      \* the message
  at,       \* "idle", "verify", "dispatch", "handler"; "closed" when the server
            \* has given up the connection; "fault" after a null pointer
  todo,     \* the fields the handler has yet to read
  touched,  \* the places of buf that the last step has read
  values,   \* what the handler has read
  last      \* history: what came of the last message

rvars == <<side, buf, at, todo, touched, values, last>>

\* The fields a handler reads, by their numbers and in its order; of a player,
\* those of the table Player.  ProcessPlayerListRequest reads nothing.
Handler ==
  [C2S_LoginRequest |-> <<1, 2>>,
   C2S_SignUpRequest |-> <<1, 2, 3>>,
   C2S_PlayerListRequest |-> <<>>,
   C2S_GameReadyRequest |-> <<1, 2>>,
   S2C_LoginResponse |-> <<1, 3, 2>>,
   S2C_SignUpResponse |-> <<1>>,
   S2C_PlayerListResponse |-> <<1>>,
   S2C_PlayerInOutLobby |-> <<1, 2>>,
   S2C_PlayerChangeState |-> <<1, 2>>,
   S2C_CountdownStartGame |-> <<1, 2>>,
   S2C_StartGame |-> <<1, 2>>]

ToServer == {"C2S_LoginRequest", "C2S_SignUpRequest", "C2S_PlayerListRequest",
             "C2S_GameReadyRequest"}
Handled(s) == IF s = "server" THEN ToServer ELSE DOMAIN Handler \ ToServer

Item(table, place, field) == [table |-> table, place |-> place, field |-> field]
Type(e) == Fields(e.table)[e.field].type

TypeOK ==
  /\ side \in {"server", "client"}
  /\ buf \in Seq(Byte)
  /\ at \in {"idle", "verify", "dispatch", "handler", "closed", "fault"}
  /\ \A j \in DOMAIN todo :
       /\ todo[j].table \in {"Player"} \cup Handled(side)
       /\ todo[j].field \in DOMAIN Fields(todo[j].table)
  /\ last \in {"none", "refused", "unknown", "read"}

RInit ==
  /\ side \in {"server", "client"}
  /\ buf = <<>>
  /\ at = "idle"
  /\ todo = <<>> /\ touched = {} /\ values = <<>>
  /\ last = "none"

Receive ==
  /\ at = "idle"
  /\ buf' \in Seq(Byte)
  /\ at' = "verify"
  /\ values' = <<>> /\ touched' = {} /\ last' = "none"
  /\ UNCHANGED <<side, todo>>

\* The server gives up a client that sends what is not a message; the client
\* goes on with the next one.
Verify ==
  /\ at = "verify"
  /\ IF VerifyMessageEnvelopeBuffer(buf)
       THEN at' = "dispatch" /\ UNCHANGED last
       ELSE /\ at' = IF side = "server" THEN "closed" ELSE "idle"
            /\ last' = "refused"
  /\ touched' = {}
  /\ UNCHANGED <<side, buf, todo, values>>

\* ProcessPacket and, in a handler, body_as_...().
Body == Pointer(buf, Root(buf), 3)
Known ==
  LET type == BodyType(buf, Root(buf))
  IN  type \in DOMAIN Payload /\ Payload[type] \in Handled(side)
Table == Payload[BodyType(buf, Root(buf))]

Dispatch ==
  /\ at = "dispatch"
  /\ touched' = Span(0, 4) \cup FieldReads(buf, Root(buf), 2, 1)
                  \cup (IF Known /\ Handler[Table] # <<>>
                          THEN FieldReads(buf, Root(buf), 3, 4) ELSE {})
  /\ IF ~Known
       THEN at' = "idle" /\ last' = "unknown" /\ UNCHANGED todo
       ELSE IF Handler[Table] # <<>> /\ ~Holds(buf, Root(buf), 3)
         THEN at' = "fault" /\ UNCHANGED <<todo, last>>
         ELSE /\ at' = "handler"
              /\ todo' = [j \in DOMAIN Handler[Table] |->
                            Item(Table, Body, Handler[Table][j])]
              /\ UNCHANGED last
  /\ UNCHANGED <<side, buf, values>>

------------------------------------------------------------------------------
(* One accessor at a time.                                                  *)

Current == Head(todo)
Place == Pointer(buf, Current.place, Current.field)
Missing == ~Holds(buf, Current.place, Current.field)

Reading(type) ==
  /\ at = "handler"
  /\ todo # <<>>
  /\ Type(Current) = type

ReadScalar(type) ==
  /\ Reading(type)
  /\ touched' = FieldReads(buf, Current.place, Current.field, Width[type])
  /\ values' = Append(values, ScalarValue(buf, Current.place, Current.field, Width[type]))
  /\ todo' = Tail(todo)
  /\ UNCHANGED <<side, buf, at, last>>

ReadString ==
  /\ Reading("string") /\ ~Missing
  /\ touched' = FieldReads(buf, Current.place, Current.field, 4) \cup StringReads(buf, Place)
  /\ values' = Append(values, StringValue(buf, Place))
  /\ todo' = Tail(todo)
  /\ UNCHANGED <<side, buf, at, last>>

\* player()->user_id(), player()->nickname() and player()->state().
ReadPlayer ==
  /\ Reading("Player") /\ ~Missing
  /\ touched' = FieldReads(buf, Current.place, Current.field, 4)
  /\ todo' = [i \in DOMAIN Fields("Player") |-> Item("Player", Place, i)] \o Tail(todo)
  /\ UNCHANGED <<side, buf, at, values, last>>

\* The fields of a player are counted from 0.
BadPlayerItem(p, j) == Item("Player", Element(buf, p, (j - 1) \div 3), j % 3)
PlayerItem(p, j) == Item("Player", Element(buf, p, (j - 1) \div 3), ((j - 1) % 3) + 1)

\* for (auto Player : *players()).
ReadPlayers ==
  /\ Reading("[Player]") /\ ~Missing
  /\ touched' = FieldReads(buf, Current.place, Current.field, 4) \cup VectorReads(buf, Place)
  /\ todo' = [j \in 1 .. 3 * Length(buf, Place) |-> PlayerItem(Place, j)] \o Tail(todo)
  /\ UNCHANGED <<side, buf, at, values, last>>

\* The accessor returns null and the handler uses it: the process ends.
NullPointer ==
  /\ \E type \in {"string", "Player", "[Player]"} : Reading(type)
  /\ Missing
  /\ touched' = FieldReads(buf, Current.place, Current.field, 4)
  /\ at' = "fault"
  /\ UNCHANGED <<side, buf, todo, values, last>>

Finish ==
  /\ at = "handler" /\ todo = <<>>
  /\ at' = "idle" /\ last' = "read"
  /\ touched' = {}
  /\ UNCHANGED <<side, buf, todo, values>>

Handle ==
  \/ \E type \in ScalarTypes : ReadScalar(type)
  \/ ReadString \/ ReadPlayer \/ ReadPlayers \/ NullPointer \/ Finish

Process == Verify \/ Dispatch \/ Handle

ReaderSpec == RInit /\ [][Receive \/ Process]_rvars

------------------------------------------------------------------------------
\* What has passed the verifier is read within its bounds, by accessors that
\* check nothing: also when it is not what anyone has sent.
ReadsInBounds == touched \subseteq Places(buf)
===============================================================================
