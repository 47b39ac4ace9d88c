------------------------------- MODULE Protocol -------------------------------
(***************************************************************************)
(* The tables of LoginProtocol.fbs as LoginProtocol_generated.h has them:  *)
(* their fields in the order of their numbers, and the order in which the  *)
(* Create function adds them, larger ones first.  A message is a           *)
(* MessageEnvelope whose body is one of the tables of Payload.             *)
(***************************************************************************)
EXTENDS FlatBuffers

Field(type, name) == [type |-> type, name |-> name, required |-> FALSE]
Required(type, name) == [type |-> type, name |-> name, required |-> TRUE]

Player ==
  [fields |-> <<Field("string", "user_id"), Field("string", "nickname"),
                Field("ubyte", "state")>>,
   adds |-> <<2, 1, 3>>]

C2S_KeepAlive == [fields |-> <<>>, adds |-> <<>>]
S2C_KeepAlive == [fields |-> <<>>, adds |-> <<>>]

C2S_LoginRequest ==
  [fields |-> <<Required("string", "userid"), Required("string", "password")>>,
   adds |-> <<2, 1>>]

S2C_LoginResponse ==
  [fields |-> <<Field("ubyte", "error_code"), Field("string", "session_token"),
                Field("string", "nickname")>>,
   adds |-> <<3, 2, 1>>]

C2S_SignUpRequest ==
  [fields |-> <<Required("string", "userid"), Required("string", "password"),
                Required("string", "nickname")>>,
   adds |-> <<3, 2, 1>>]

S2C_SignUpResponse ==
  [fields |-> <<Field("ubyte", "error_code")>>, adds |-> <<1>>]

C2S_PlayerListRequest == [fields |-> <<>>, adds |-> <<>>]

S2C_PlayerListResponse ==
  [fields |-> <<Field("[Player]", "players")>>, adds |-> <<1>>]

S2C_PlayerInOutLobby ==
  [fields |-> <<Field("Player", "player"), Field("ubyte", "is_join")>>,
   adds |-> <<1, 2>>]

C2S_GameReadyRequest ==
  [fields |-> <<Field("string", "session_token"), Field("ubyte", "is_ready")>>,
   adds |-> <<1, 2>>]

S2C_PlayerChangeState ==
  [fields |-> <<Field("string", "user_id"), Field("ubyte", "state")>>,
   adds |-> <<1, 2>>]

S2C_CountdownStartGame ==
  [fields |-> <<Field("ubyte", "is_start"), Field("uint", "countdown")>>,
   adds |-> <<2, 1>>]

S2C_StartGame ==
  [fields |-> <<Field("string", "dedi_ip_address"), Field("ushort", "dedi_port")>>,
   adds |-> <<1, 2>>]

C2S_MatchmakingRequest ==
  [fields |-> <<Required("string", "session_token")>>, adds |-> <<1>>]

S2C_MatchmakingResponse ==
  [fields |-> <<Field("ubyte", "error_code"), Field("string", "ip_address"),
                Field("ushort", "port")>>,
   adds |-> <<2, 3, 1>>]

MessageEnvelope ==
  [fields |-> <<Field("ulong", "timestamp"), Field("ubyte", "body_type"),
                Field("Payload", "body")>>,
   adds |-> <<1, 3, 2>>]

Schema ==
  [Player |-> Player, MessageEnvelope |-> MessageEnvelope,
   C2S_KeepAlive |-> C2S_KeepAlive, C2S_LoginRequest |-> C2S_LoginRequest,
   C2S_SignUpRequest |-> C2S_SignUpRequest,
   C2S_PlayerListRequest |-> C2S_PlayerListRequest,
   C2S_GameReadyRequest |-> C2S_GameReadyRequest,
   C2S_MatchmakingRequest |-> C2S_MatchmakingRequest,
   S2C_KeepAlive |-> S2C_KeepAlive, S2C_LoginResponse |-> S2C_LoginResponse,
   S2C_SignUpResponse |-> S2C_SignUpResponse,
   S2C_PlayerListResponse |-> S2C_PlayerListResponse,
   S2C_PlayerChangeState |-> S2C_PlayerChangeState,
   S2C_PlayerInOutLobby |-> S2C_PlayerInOutLobby,
   S2C_CountdownStartGame |-> S2C_CountdownStartGame,
   S2C_StartGame |-> S2C_StartGame,
   S2C_MatchmakingResponse |-> S2C_MatchmakingResponse]

Fields(table) == Schema[table].fields

\* The numbers of the body's type; 0 is NONE.
Payload ==
  <<"C2S_KeepAlive", "C2S_LoginRequest", "C2S_SignUpRequest",
    "C2S_PlayerListRequest", "C2S_GameReadyRequest", "C2S_MatchmakingRequest",
    "S2C_KeepAlive", "S2C_LoginResponse", "S2C_SignUpResponse",
    "S2C_PlayerListResponse", "S2C_PlayerChangeState", "S2C_PlayerInOutLobby",
    "S2C_CountdownStartGame", "S2C_StartGame", "S2C_MatchmakingResponse">>

\* The numbers of an enumeration begin with 0.
ErrorCode ==
  <<"Success", "Login_Fail_UserNotFound", "Login_Fail_InvalidPassword",
    "SignUp_Fail_UsernameExists", "SignUp_Fail_NicknameExists",
    "Auth_Fail_InvalidToken", "InvalidRequest", "ServerError">>
PlayerState == <<"Lobby", "Ready", "InGame">>
EnumValue(enum, name) == (CHOOSE i \in DOMAIN enum : enum[i] = name) - 1
EnumName(enum, e) == IF e + 1 \in DOMAIN enum THEN enum[e + 1] ELSE ""

\* A bool is stored as a ubyte, an enumeration as the number it is based on.
Width == [ubyte |-> 1, ushort |-> 2, uint |-> 4, ulong |-> 8]
ScalarTypes == {"ubyte", "ushort", "uint", "ulong"}

\* With those that only the tables of reflection_generated.h have (Reflection).
SizeOf == [ubyte |-> 1, byte |-> 1, ushort |-> 2, uint |-> 4, int |-> 4, ulong |-> 8,
           long |-> 8, double |-> 8]
IsScalar(f) == f.type \in DOMAIN SizeOf
Default(f) == IF "default" \in DOMAIN f THEN f.default ELSE 0

------------------------------------------------------------------------------
(* Verify, table by table.                                                  *)

\* A string or a scalar, which is all that a Player has.
VerifyLeaf(b, t, i, f) ==
  /\ f.required => Holds(b, t, i)
  /\ f.type \in ScalarTypes => VerifyField(b, t, i, Width[f.type])
  /\ f.type = "string" =>
       /\ VerifyOffset(b, t, i)
       /\ Holds(b, t, i) => VerifyString(b, Pointer(b, t, i))

VerifyPlayer(b, t) ==
  /\ VerifyTableStart(b, t)
  /\ \A i \in DOMAIN Fields("Player") : VerifyLeaf(b, t, i, Fields("Player")[i])

\* VerifyVector and VerifyVectorOfTables.
VerifyPlayers(b, p) ==
  /\ VerifyVector(b, p, 4)
  /\ \A k \in 0 .. Length(b, p) - 1 : VerifyPlayer(b, Element(b, p, k))

VerifyBodyField(b, t, i, f) ==
  /\ VerifyLeaf(b, t, i, f)
  /\ f.type \in {"Player", "[Player]"} => VerifyOffset(b, t, i)
  /\ f.type = "Player" /\ Holds(b, t, i) => VerifyPlayer(b, Pointer(b, t, i))
  /\ f.type = "[Player]" /\ Holds(b, t, i) => VerifyPlayers(b, Pointer(b, t, i))

VerifyBody(b, table, t) ==
  /\ VerifyTableStart(b, t)
  /\ \A i \in DOMAIN Fields(table) : VerifyBodyField(b, t, i, Fields(table)[i])

\* A type that the schema does not know is let pass, as a later version's is.
VerifyPayload(b, t, type) ==
  type \in DOMAIN Payload => VerifyBody(b, Payload[type], t)

\* The fields of the envelope: timestamp, body_type, body.
BodyType(b, t) == ScalarValue(b, t, 2, 1)[1]

VerifyMessageEnvelope(b, t) ==
  /\ VerifyTableStart(b, t)
  /\ VerifyField(b, t, 1, 8)
  /\ VerifyField(b, t, 2, 1)
  /\ VerifyOffset(b, t, 3)
  /\ Holds(b, t, 3) => VerifyPayload(b, Pointer(b, t, 3), BodyType(b, t))

Root(b) == Target(b, 0)

VerifyMessageEnvelopeBuffer(b) ==
  /\ Len(b) >= MinSize
  /\ VerifyDistance(b, 0)
  /\ VerifyMessageEnvelope(b, Root(b))
===============================================================================
