------------------------------- MODULE Messages -------------------------------
(***************************************************************************)
(* From one end of the protocol to the other: a function of the server or  *)
(* the client builds a message, one call of the builder after the other,   *)
(* and the other end verifies it and reads it back (see Reader).  A message *)
(* arrives as it was built unless another sender's bytes, or the next      *)
(* message after a short send, got into it (see Wire).                     *)
(*                                                                         *)
(* A definition whose name begins with Bad is its successor with a mistake *)
(* in it; no specification uses it.                                        *)
(***************************************************************************)
EXTENDS Builder, Reader, SessionTokens

CONSTANTS
  Texts,       \* strings, as UTF-8
  MaxText,     \* bound: bytes in a string
  Players,     \* what a list shows: [user_id, nickname, state]
  MaxPlayers,  \* bound: players in a list
  Numbers,     \* values of scalar fields
  Now,         \* GetTimeStamp()
  Env          \* "overlap": another message gets into one

ASSUME EnvAssumption == Env \subseteq {"overlap"}
ASSUME NumberAssumption == Numbers \subseteq Nat /\ Now \in Nat

Text == {s \in Seq(1 .. 255) : Len(s) <= MaxText}
ASSUME TextAssumption ==
  /\ Texts \subseteq Text
  /\ Players \subseteq [user_id : Text, nickname : Text, state : Range(PlayerState)]

\* No message outgrows the largest buffer the library allows: a list takes three
\* calls for each player, no message more than six others, and no call more bytes
\* than the second factor.
ASSUME SizeAssumption ==
  /\ MaxPlayers \in Nat /\ MaxText \in Nat
  /\ (3 * MaxPlayers + 9) * (MaxText + 4 * MaxPlayers + 128) < MaxSize

VARIABLES
  message,  \* what is sent, see below
  fbb,      \* Builder
  results,  \* what the calls made so far have returned
  whole     \* the message arrives as it was built

vars == <<message, fbb, results, whole, rvars>>

------------------------------------------------------------------------------
(* The calls by which the senders build their messages.  An argument is a   *)
(* scalar or, for a string or table, the number of the call that made it;   *)
(* says is what the receiver is to read.                                    *)

String(s) == [call |-> "CreateString", string |-> s]
Create(table, args) == [call |-> "Create", table |-> table, args |-> args]
Vector(elements) == [call |-> "CreateVector", elements |-> elements]

\* CreateMessageEnvelope and Finish, with the body that the n-th call made.
Sealed(kind, n) ==
  <<Create("MessageEnvelope", <<Now, CHOOSE i \in DOMAIN Payload : Payload[i] = kind, n>>),
    [call |-> "Finish", root |-> n + 1, identifier |-> <<>>, prefixed |-> FALSE]>>

Message(to, kind, body, says) ==
  [to |-> to, calls |-> body \o Sealed(kind, Len(body)), says |-> says]

Number(n, type) == LittleEndian(n, Width[type])
StateNumber(p) == EnumValue(PlayerState, p.state)
Says(p) == <<p.user_id, p.nickname, Number(StateNumber(p), "ubyte")>>

SendLoginRequest(userid, password) ==
  Message("server", "C2S_LoginRequest",
    <<String(userid), String(password), Create("C2S_LoginRequest", <<1, 2>>)>>,
    <<userid, password>>)

SendSignUpRequest(userid, password, nickname) ==
  Message("server", "C2S_SignUpRequest",
    <<String(userid), String(password), String(nickname),
      Create("C2S_SignUpRequest", <<1, 2, 3>>)>>,
    <<userid, password, nickname>>)

SendPlayerListRequest ==
  Message("server", "C2S_PlayerListRequest",
    <<Create("C2S_PlayerListRequest", <<>>)>>, <<>>)

SendPlayerReadyRequest(token, ready) ==
  Message("server", "C2S_GameReadyRequest",
    <<String(token), Create("C2S_GameReadyRequest", <<1, ready>>)>>,
    <<token, Number(ready, "ubyte")>>)

\* The statuses of the database, which the handlers cast to ErrorCode: the
\* numbers stay, and for most statuses the names do not.
SignUpStatus == <<"Success", "DuplicateUserId", "DuplicateNickname", "OtherError">>
LoginStatus == <<"Success", "UserIdNotFound", "InvalidPassword", "OtherError">>

ProcessSignUpRequest(status) ==
  LET code == EnumValue(SignUpStatus, status)
  IN  Message("client", "S2C_SignUpResponse",
        <<Create("S2C_SignUpResponse", <<code>>)>>, <<Number(code, "ubyte")>>)

ProcessLoginRequest(status, nickname, token) ==
  LET code == EnumValue(LoginStatus, status)
  IN  Message("client", "S2C_LoginResponse",
        <<String(nickname), String(token), Create("S2C_LoginResponse", <<code, 2, 1>>)>>,
        <<Number(code, "ubyte"), nickname, token>>)

\* Two strings and a table for each player: n is a call's, and i the player's.
CreatePlayers(players) ==
  [n \in 1 .. 3 * Len(players) |->
     LET i == (n + 2) \div 3
         p == players[i]
     IN  CASE n % 3 = 1 -> String(p.user_id)
           [] n % 3 = 2 -> String(p.nickname)
           [] OTHER -> Create("Player", <<n - 2, n - 1, StateNumber(p)>>)]
SaysPlayers(players) ==
  [n \in 1 .. 3 * Len(players) |-> Says(players[(n + 2) \div 3])[((n - 1) % 3) + 1]]

ProcessPlayerListRequest(players) ==
  LET n == Len(players)
  IN  Message("client", "S2C_PlayerListResponse",
        CreatePlayers(players)
          \o <<Vector([k \in 1 .. n |-> 3 * k]),
               Create("S2C_PlayerListResponse", <<3 * n + 1>>)>>,
        SaysPlayers(players))

\* BroadcastPlayerJoin and BroadcastPlayerLeave.
BroadcastPlayerInOut(player, join) ==
  Message("client", "S2C_PlayerInOutLobby",
    CreatePlayers(<<player>>) \o <<Create("S2C_PlayerInOutLobby", <<3, join>>)>>,
    Append(Says(player), Number(join, "ubyte")))

BroadcastPlayerChangeState(player) ==
  Message("client", "S2C_PlayerChangeState",
    <<String(player.user_id), Create("S2C_PlayerChangeState", <<1, StateNumber(player)>>)>>,
    <<player.user_id, Number(StateNumber(player), "ubyte")>>)

BroadcastCountdownStartGame(start, remaining) ==
  Message("client", "S2C_CountdownStartGame",
    <<Create("S2C_CountdownStartGame", <<start, remaining>>)>>,
    <<Number(start, "ubyte"), Number(remaining, "uint")>>)

BroadcastStartGame(address, port) ==
  Message("client", "S2C_StartGame",
    <<String(address), Create("S2C_StartGame", <<1, port>>)>>,
    <<address, Number(port, "ushort")>>)

Flag == {0, 1}

Requests ==
  {SendLoginRequest(u, p) : u, p \in Texts}
    \cup {SendSignUpRequest(u, p, n) : u, p, n \in Texts}
    \cup {SendPlayerListRequest}
    \cup {SendPlayerReadyRequest(t, r) : t \in SessionTokens, r \in Flag}

Broadcasts ==
  {BroadcastPlayerInOut(p, j) : p \in Players, j \in Flag}
    \cup {BroadcastPlayerChangeState(p) : p \in Players}
    \cup {BroadcastCountdownStartGame(s, n) : s \in Flag, n \in Numbers}
    \cup {BroadcastStartGame(a, n) : a \in Texts, n \in Numbers}

Responses ==
  {ProcessSignUpRequest(s) : s \in Range(SignUpStatus)}
    \cup {ProcessLoginRequest("Success", n, t) : n \in Texts, t \in SessionTokens}
    \cup {ProcessLoginRequest(s, <<>>, Dash) : s \in Range(LoginStatus) \ {"Success"}}
    \cup {ProcessPlayerListRequest(l) : l \in UNION {[1 .. n -> Players] : n \in 0 .. MaxPlayers}}

------------------------------------------------------------------------------
(* The sender.                                                              *)

\* A table of the protocol or of a schema (SchemaFiles).
Layout(table) == IF table \in DOMAIN Schema THEN Schema[table] ELSE Reflected[table]

\* The n-th result, or 0, the null offset; scalars as they are.
Arguments(c, made) ==
  [i \in DOMAIN c.args |->
     IF IsScalar(Layout(c.table).fields[i]) \/ c.args[i] = 0
       THEN c.args[i] ELSE made[c.args[i]]]
Elements(c, made) == [k \in DOMAIN c.elements |-> made[c.elements[k]]]

Perform(f, made, c) ==
  CASE c.call = "CreateString" -> CreateString(f, c.string)
    [] c.call = "CreateSharedString" -> CreateSharedString(f, c.string)
    [] c.call = "Create" -> CreateTable(f, Layout(c.table), Arguments(c, made))
    [] c.call = "CreateVector" -> CreateVector(f, Elements(c, made))
    [] c.call = "CreateVectorOfStrings" -> CreateVectorOfStrings(f, c.strings)
    [] c.call = "CreateVectorOfSortedTables" ->
         CreateVectorOfSortedTables(f, c.table, Elements(c, made))
    [] c.call = "Finish" -> FinishBuffer(f, made[c.root], c.identifier, c.prefixed)

Init ==
  /\ RInit
  /\ message \in {m \in Requests \cup Responses \cup Broadcasts : m.to = side}
  /\ fbb = NewBuilder
  /\ results = <<>>
  /\ whole = TRUE

Call ==
  /\ Len(results) < Len(message.calls)
  /\ fbb' = Perform(fbb, results, message.calls[Len(results) + 1])
  /\ results' = Append(results, fbb'.result)
  /\ UNCHANGED <<message, whole, rvars>>

Ready == fbb.finished /\ at = "idle" /\ last = "none"

Arrive ==
  /\ Ready
  /\ buf' = fbb.bytes
  /\ at' = "verify"
  /\ values' = <<>> /\ touched' = {}
  /\ UNCHANGED <<side, todo, last, message, fbb, results, whole>>

\* What a message is built of when nothing comes between.
Performed(s, c) ==
  LET f == Perform(s.fbb, s.results, c)
  IN  [fbb |-> f, results |-> Append(s.results, f.result)]
Built(m) ==
  LET made[n \in 0 .. Len(m.calls)] ==
        IF n = 0 THEN [fbb |-> NewBuilder, results |-> <<>>]
        ELSE Performed(made[n - 1], m.calls[n])
  IN  made[Len(m.calls)].fbb.bytes

\* With its length before it, as it is sent.
WithLength(b) == Reverse(LittleEndian(Len(b), 4)) \o b
Packet(m) == WithLength(Built(m))
BroadcastPackets == {Packet(m) : m \in Broadcasts}
RequestPackets == {Packet(m) : m \in Requests}

\* Between two sends of one message come the length of another, or all of it;
\* the receiver takes as many bytes as the first message has.
Garbled ==
  /\ Ready
  /\ "overlap" \in Env
  /\ \E other \in IF side = "client" THEN BroadcastPackets ELSE RequestPackets :
       \E n \in {4, Len(other)} :
         \E k \in 0 .. Size(fbb) - 1 :
           buf' = SubSeq(SubSeq(fbb.bytes, 1, k) \o SubSeq(other, 1, n)
                           \o SubSeq(fbb.bytes, k + 1, Size(fbb)), 1, Size(fbb))
  /\ at' = "verify"
  /\ whole' = FALSE
  /\ values' = <<>> /\ touched' = {}
  /\ UNCHANGED <<side, todo, last, message, fbb, results>>

Next ==
  \/ Call \/ Arrive \/ Garbled
  \/ Process /\ UNCHANGED <<message, fbb, results, whole>>

Spec == Init /\ [][Next]_vars

------------------------------------------------------------------------------
\* No assertion of the library fails: strings and tables are made before the
\* table that holds them, each field once, what is required is there, and
\* however the memory grows, the scratch pad at its beginning and the buffer at
\* its end do not meet.
AssertsHold == fbb.asserts

\* A message that arrives as it was built passes the verifier, whatever its
\* strings and however many players it shows, and the handler reads from it
\* what the sender has put in, also where a default was not stored; it never
\* meets a null pointer.
ReadAsBuilt ==
  whole =>
    /\ at \notin {"closed", "fault"}
    /\ last \in {"none", "read"}
    /\ last = "read" => values = message.says

\* A login that succeeds is told from one that fails by its code and by its
\* token, and from any other session by the token alone: two UUIDs never look the
\* same, wherever their zeros are.  Sessions with the empty token are the
\* exception.
LoginToldApart ==
  whole /\ last = "read" /\ Table = "S2C_LoginResponse" =>
    LET token == values[3]
    IN  /\ EnumName(ErrorCode, values[1][1]) = "Success" <=> token # Dash
        /\ token \notin {<<>>, Dash} =>
             Cardinality({u \in Uuids : UuidToString(u) = token}) = 1
===============================================================================
