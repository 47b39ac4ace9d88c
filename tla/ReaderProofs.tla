----------------------------- MODULE ReaderProofs -----------------------------
(***************************************************************************)
(* Whatever bytes arrive, the accessors of a receiver read within its      *)
(* buffer.  The invariant that carries this: what is still to be read lies *)
(* in tables that have passed the verifier.                                *)
(***************************************************************************)
EXTENDS Reader, TLAPS

------------------------------------------------------------------------------
(* Numbers in a buffer.                                                     *)

LEMMA AtByte ==
  ASSUME NEW b \in Seq(Byte), NEW p \in Int
  PROVE  At(b, p) \in 0 .. 255
<1>1. CASE p \in Places(b)
  <2>1. p + 1 \in 1 .. Len(b)
    BY <1>1 DEF Places
  <2>2. b[p + 1] \in Byte
    BY <2>1
  <2> QED
    BY <1>1, <2>2 DEF At, Byte
<1>2. CASE p \notin Places(b)
  BY <1>2 DEF At
<1> QED
  BY <1>1, <1>2

LEMMA U16Nat ==
  ASSUME NEW b \in Seq(Byte), NEW p \in Int
  PROVE  U16(b, p) \in Nat
<1>1. PICK x \in 0 .. 255 : x = At(b, p)
  BY AtByte
<1>2. PICK y \in 0 .. 255 : y = At(b, p + 1)
  <2>1. p + 1 \in Int
    OBVIOUS
  <2> QED
    BY <2>1, AtByte
<1>3. x + 256 * y \in Nat
  BY SMT
<1> QED
  BY <1>1, <1>2, <1>3 DEF U16

\* The most significant byte, with its sign.
LEMMA SignedByte ==
  ASSUME NEW z \in 0 .. 255
  PROVE  (IF z < 128 THEN z ELSE z - 256) \in Int
BY SMT

LEMMA I32Int ==
  ASSUME NEW b \in Seq(Byte), NEW p \in Int
  PROVE  I32(b, p) \in Int
<1> DEFINE signed(z) == IF z < 128 THEN z ELSE z - 256
<1>1. PICK x \in 0 .. 255 : x = At(b, p)
  BY AtByte
<1>2. PICK y \in 0 .. 255 : y = At(b, p + 1)
  <2>1. p + 1 \in Int
    OBVIOUS
  <2> QED
    BY <2>1, AtByte
<1>3. PICK z \in 0 .. 255 : z = At(b, p + 2)
  <2>1. p + 2 \in Int
    OBVIOUS
  <2> QED
    BY <2>1, AtByte
<1>4. PICK top \in 0 .. 255 : top = At(b, p + 3)
  <2>1. p + 3 \in Int
    OBVIOUS
  <2> QED
    BY <2>1, AtByte
<1>5. signed(top) \in Int
  BY <1>4, SignedByte, Zenon
<1>6. I32(b, p) = x + 256 * (y + 256 * (z + 256 * signed(top)))
  <2>1. I32(b, p) = At(b, p) + 256 * (At(b, p + 1) + 256 * (At(b, p + 2)
                                  + 256 * signed(At(b, p + 3))))
    BY Zenon DEF I32
  <2> HIDE DEF signed
  <2> QED
    BY <1>1, <1>2, <1>3, <1>4, <2>1, Zenon
<1> HIDE DEF signed
<1>7. z + 256 * signed(top) \in Int
  BY <1>3, <1>5
<1>8. y + 256 * (z + 256 * signed(top)) \in Int
  BY <1>2, <1>7
<1> QED
  BY <1>1, <1>6, <1>8

LEMMA TargetInt ==
  ASSUME NEW b \in Seq(Byte), NEW p \in Int
  PROVE  Target(b, p) \in Int
BY I32Int DEF Target, MaxSize

LEMMA FieldOffsetNat ==
  ASSUME NEW b \in Seq(Byte), NEW t \in Int, NEW i \in Nat
  PROVE  VTable(b, t) \in Int /\ FieldOffset(b, t, i) \in Nat
<1>1. VTable(b, t) \in Int
  BY I32Int DEF VTable
<1>2. VT(i) \in Int /\ VTable(b, t) + VT(i) \in Int
  BY <1>1 DEF VT
<1>3. U16(b, VTable(b, t) + VT(i)) \in Nat
  BY <1>2, U16Nat
<1> QED
  BY <1>1, <1>3 DEF FieldOffset

LEMMA PointerInt ==
  ASSUME NEW b \in Seq(Byte), NEW t \in Int, NEW i \in Nat
  PROVE  Pointer(b, t, i) \in Int
<1>1. t + FieldOffset(b, t, i) \in Int
  BY FieldOffsetNat
<1> QED
  BY <1>1, TargetInt DEF Pointer

LEMMA ElementInt ==
  ASSUME NEW b \in Seq(Byte), NEW p \in Int, NEW k \in Int
  PROVE  Element(b, p, k) \in Int
BY TargetInt DEF Element

------------------------------------------------------------------------------
(* What the verifier's checks say of the places the accessors read.         *)

\* A span that fits is in the buffer.
LEMMA FitsSpan ==
  ASSUME NEW b \in Seq(Byte), NEW p \in Int, NEW n \in Int, Fits(b, p, n)
  PROVE  Span(p, n) \subseteq Places(b)
<1>1. Len(b) \in Nat
  OBVIOUS
<1> QED
  BY <1>1 DEF Fits, Span, Places

\* An entry of the vtable that begins before its end also ends there, as its
\* size is even.
LEMMA EvenEntry ==
  ASSUME NEW u \in Nat, NEW i \in Nat, u % 2 = 0, 2 + 2 * i < u
  PROVE  2 + 2 * i + 2 <= u
BY SMT

LEMMA OffsetReadsInBounds ==
  ASSUME NEW b \in Seq(Byte), NEW t \in Int, NEW i \in Nat, VerifyTableStart(b, t)
  PROVE  OffsetReads(b, t, i) \subseteq Places(b)
<1> DEFINE v == VTable(b, t)
           u == U16(b, v)
<1>1. v \in Int
  BY FieldOffsetNat
<1>2. u \in Nat /\ Len(b) \in Nat
  <2> HIDE DEF v
  <2> QED
    BY <1>1, U16Nat
<1>3. Fits(b, t, 4) /\ Fits(b, v, 2) /\ u % 2 = 0 /\ Fits(b, v, u)
  BY DEF VerifyTableStart, FitsAligned
<1>4. Span(t, 4) \subseteq Places(b) /\ Span(v, 2) \subseteq Places(b)
  BY <1>1, <1>3, FitsSpan
<1>5. ASSUME VT(i) < u
      PROVE  Span(v + VT(i), 2) \subseteq Places(b)
  <2> HIDE DEF v, u
  <2>1. 2 + 2 * i + 2 <= u
    BY <1>2, <1>3, <1>5, EvenEntry DEF VT
  <2>2. 0 <= v /\ v <= Len(b) - u
    BY <1>3 DEF Fits
  <2> QED
    BY <1>2, <1>1, <2>1, <2>2 DEF VT, Span, Places
<1> QED
  BY <1>4, <1>5 DEF OffsetReads

LEMMA FieldReadsInBounds ==
  ASSUME NEW b \in Seq(Byte), NEW t \in Int, NEW i \in Nat, NEW width \in Nat,
         VerifyTableStart(b, t), VerifyField(b, t, i, width)
  PROVE  FieldReads(b, t, i, width) \subseteq Places(b)
<1>1. OffsetReads(b, t, i) \subseteq Places(b)
  BY OffsetReadsInBounds
<1>2. ASSUME Holds(b, t, i)
      PROVE  Span(t + FieldOffset(b, t, i), width) \subseteq Places(b)
  <2>1. Fits(b, t + FieldOffset(b, t, i), width)
    BY <1>2 DEF VerifyField, FitsAligned
  <2>2. t + FieldOffset(b, t, i) \in Int
    BY FieldOffsetNat
  <2> QED
    BY <2>1, <2>2, FitsSpan
<1> QED
  BY <1>1, <1>2 DEF FieldReads

LEMMA DistanceReadsInBounds ==
  ASSUME NEW b \in Seq(Byte), NEW t \in Int, NEW i \in Nat,
         VerifyTableStart(b, t), VerifyOffset(b, t, i)
  PROVE  FieldReads(b, t, i, 4) \subseteq Places(b)
<1>1. VerifyField(b, t, i, 4)
  BY DEF VerifyOffset, VerifyDistance, VerifyField
<1> QED
  BY <1>1, FieldReadsInBounds

LEMMA StringReadsInBounds ==
  ASSUME NEW b \in Seq(Byte), NEW p \in Int, VerifyString(b, p)
  PROVE  StringReads(b, p) \subseteq Places(b)
<1> DEFINE n == Length(b, p)
<1>1. n \in Int /\ Len(b) \in Nat
  BY I32Int DEF Length
<1>2. n >= 0 /\ Fits(b, p, 4 + 1 * n) /\ Fits(b, p + 4 + n, 1)
  BY DEF VerifyString, VerifyVector
<1> HIDE DEF n
<1>3. 0 <= p /\ p + 4 + n <= Len(b) - 1
  BY <1>1, <1>2 DEF Fits
<1>4. Span(p, 4 + n + 1) \subseteq Places(b)
  BY <1>1, <1>2, <1>3 DEF Span, Places
<1> QED
  BY <1>4 DEF StringReads, n

LEMMA VectorReadsInBounds ==
  ASSUME NEW b \in Seq(Byte), NEW p \in Int, VerifyVector(b, p, 4)
  PROVE  /\ VectorReads(b, p) \subseteq Places(b)
         /\ Length(b, p) \in Nat
<1>1. Length(b, p) \in Int
  BY I32Int DEF Length
<1>2. Length(b, p) >= 0 /\ Fits(b, p, 4 + 4 * Length(b, p))
  BY DEF VerifyVector
<1> QED
  BY <1>1, <1>2, FitsSpan DEF VectorReads

------------------------------------------------------------------------------
(* The schema.                                                              *)

LEMMA HandlerFields ==
  ASSUME NEW k \in DOMAIN Handler
  PROVE  /\ Handler[k] \in Seq(Nat)
         /\ \A j \in DOMAIN Handler[k] : Handler[k][j] \in DOMAIN Fields(k)
<1> DEFINE Right(x) == /\ Handler[x] \in Seq(Nat)
                       /\ \A j \in DOMAIN Handler[x] : Handler[x][j] \in DOMAIN Fields(x)
<1>1. Right("C2S_LoginRequest")
  BY DEF Handler, Fields, Schema, C2S_LoginRequest
<1>2. Right("C2S_SignUpRequest")
  BY DEF Handler, Fields, Schema, C2S_SignUpRequest
<1>3. Right("C2S_PlayerListRequest")
  BY DEF Handler, Fields, Schema, C2S_PlayerListRequest
<1>4. Right("C2S_GameReadyRequest")
  BY DEF Handler, Fields, Schema, C2S_GameReadyRequest
<1>5. Right("S2C_LoginResponse")
  BY DEF Handler, Fields, Schema, S2C_LoginResponse
<1>6. Right("S2C_SignUpResponse")
  BY DEF Handler, Fields, Schema, S2C_SignUpResponse
<1>7. Right("S2C_PlayerListResponse")
  BY DEF Handler, Fields, Schema, S2C_PlayerListResponse
<1>8. Right("S2C_PlayerInOutLobby")
  BY DEF Handler, Fields, Schema, S2C_PlayerInOutLobby
<1>9. Right("S2C_PlayerChangeState")
  BY DEF Handler, Fields, Schema, S2C_PlayerChangeState
<1>10. Right("S2C_CountdownStartGame")
  BY DEF Handler, Fields, Schema, S2C_CountdownStartGame
<1>11. Right("S2C_StartGame")
  BY DEF Handler, Fields, Schema, S2C_StartGame
<1> QED
  BY <1>1, <1>2, <1>3, <1>4, <1>5, <1>6, <1>7, <1>8, <1>9, <1>10, <1>11 DEF Handler

LEMMA PlayerFields ==
  /\ DOMAIN Fields("Player") = 1 .. 3
  /\ \A i \in 1 .. 3 : Fields("Player")[i].type \notin {"Player", "[Player]"}
BY DEF Fields, Schema, Player, Field

LEMMA PlayerIsTable ==
  ASSUME NEW b, NEW t, VerifyPlayer(b, t)
  PROVE  VerifyBody(b, "Player", t)
BY PlayerFields DEF VerifyPlayer, VerifyBody, VerifyBodyField

LEMMA Widths ==
  \A type \in ScalarTypes : Width[type] \in Nat
BY DEF ScalarTypes, Width

LEMMA FunctionIsSeq ==
  ASSUME NEW S, NEW n \in Nat, NEW f \in [1 .. n -> S]
  PROVE  f \in Seq(S)
OBVIOUS

------------------------------------------------------------------------------
(* The invariant.                                                           *)

\* What may be read next: a field of a table that has passed the verifier.
Passed(b, s) ==
  {e \in [table : {"Player"} \cup Handled(s), place : Int, field : Nat] :
     /\ e.field \in DOMAIN Fields(e.table)
     /\ VerifyBody(b, e.table, e.place)}

\* What a handler has before it has passed, and what is handed on to a handler
\* is a message that has.
IInv ==
  /\ side \in {"server", "client"}
  /\ buf \in Seq(Byte)
  /\ at \in {"idle", "verify", "dispatch", "handler", "closed", "fault"}
  /\ last \in {"none", "refused", "unknown", "read"}
  /\ IF at \in {"handler", "fault"} THEN todo \in Seq(Passed(buf, side)) ELSE todo = <<>>
  /\ at = "dispatch" => VerifyMessageEnvelopeBuffer(buf)
  /\ ReadsInBounds

LEMMA ItemPassed ==
  ASSUME NEW b, NEW s, NEW table \in {"Player"} \cup Handled(s), NEW place \in Int,
         NEW field \in Nat, field \in DOMAIN Fields(table), VerifyBody(b, table, place)
  PROVE  Item(table, place, field) \in Passed(b, s)
BY DEF Item, Passed

LEMMA PassedItem ==
  ASSUME NEW b, NEW s, NEW e \in Passed(b, s)
  PROVE  /\ e.table \in {"Player"} \cup Handled(s)
         /\ e.place \in Int
         /\ e.field \in Nat
         /\ VerifyTableStart(b, e.place)
         /\ VerifyBodyField(b, e.place, e.field, Fields(e.table)[e.field])
BY DEF Passed, VerifyBody

LEMMA IInvInit == RInit => IInv
BY DEF RInit, IInv, ReadsInBounds

LEMMA IInvReceive ==
  ASSUME IInv, Receive
  PROVE  IInv'
BY DEF IInv, Receive, ReadsInBounds

LEMMA IInvVerify ==
  ASSUME IInv, Verify
  PROVE  IInv'
BY DEF IInv, Verify, ReadsInBounds

\* The type, the distance to the body and, of the body, nothing yet.
LEMMA IInvDispatch ==
  ASSUME IInv, Dispatch
  PROVE  IInv'
<1> DEFINE root == Root(buf)
<1>1. /\ buf \in Seq(Byte) /\ at = "dispatch" /\ todo = <<>>
      /\ VerifyDistance(buf, 0)
      /\ VerifyMessageEnvelope(buf, root)
  BY DEF IInv, Dispatch, VerifyMessageEnvelopeBuffer
<1>2. root \in Int
  BY <1>1, TargetInt DEF Root
<1> HIDE DEF root
<1>3. touched' \subseteq Places(buf)
  <2>1. Span(0, 4) \subseteq Places(buf)
    BY <1>1, FitsSpan DEF VerifyDistance, FitsAligned
  <2>2. FieldReads(buf, root, 2, 1) \subseteq Places(buf)
    BY <1>1, <1>2, FieldReadsInBounds DEF VerifyMessageEnvelope
  <2>3. FieldReads(buf, root, 3, 4) \subseteq Places(buf)
    BY <1>1, <1>2, DistanceReadsInBounds DEF VerifyMessageEnvelope
  <2> QED
    BY <2>1, <2>2, <2>3, Zenon DEF Dispatch, root
<1>4. Known => Table \in Handled(side) /\ Table \in DOMAIN Handler
  BY DEF Known, Table, Handled, ToServer, Handler
<1>5. Known /\ Holds(buf, root, 3) => VerifyBody(buf, Table, Body)
  BY <1>1, Zenon DEF Known, Table, Body, VerifyMessageEnvelope, VerifyPayload, root
<1>6. Body \in Int
  BY <1>1, <1>2, PointerInt DEF Body, root
<1>7. ASSUME Known, Handler[Table] # <<>> => Holds(buf, root, 3)
      PROVE  [j \in DOMAIN Handler[Table] |-> Item(Table, Body, Handler[Table][j])]
               \in Seq(Passed(buf, side))
  <2> DEFINE n == Len(Handler[Table])
  <2>1. Handler[Table] \in Seq(Nat)
    BY <1>4, <1>7, HandlerFields
  <2>2. n \in Nat /\ DOMAIN Handler[Table] = 1 .. n
    BY <2>1
  <2>3. ASSUME NEW j \in DOMAIN Handler[Table]
        PROVE  Item(Table, Body, Handler[Table][j]) \in Passed(buf, side)
    <3>1. Handler[Table] # <<>>
      BY <2>3
    <3>2. VerifyBody(buf, Table, Body)
      BY <1>5, <1>7, <3>1
    <3>3. Handler[Table][j] \in Nat
      BY <2>1
    <3>4. Handler[Table][j] \in DOMAIN Fields(Table)
      BY <1>4, <1>7, HandlerFields
    <3>5. Table \in {"Player"} \cup Handled(side)
      BY <1>4, <1>7
    <3> QED
      BY <1>6, <3>2, <3>3, <3>4, <3>5, ItemPassed
  <2> HIDE DEF n
  <2>4. [j \in DOMAIN Handler[Table] |-> Item(Table, Body, Handler[Table][j])]
          \in [1 .. n -> Passed(buf, side)]
    BY <2>2, <2>3, Zenon
  <2> QED
    BY <2>2, <2>4, FunctionIsSeq
<1>8. CASE ~Known
  BY <1>3, <1>8 DEF IInv, Dispatch, ReadsInBounds
<1>9. CASE Known /\ Handler[Table] # <<>> /\ ~Holds(buf, root, 3)
  <2>1. at' = "fault" /\ todo' = <<>> /\ last' = last /\ side' = side /\ buf' = buf
    BY <1>1, <1>9 DEF Dispatch, root
  <2> QED
    BY <1>3, <2>1 DEF IInv, ReadsInBounds
<1>10. CASE Known /\ (Handler[Table] # <<>> => Holds(buf, root, 3))
  <2>1. /\ at' = "handler" /\ last' = last /\ side' = side /\ buf' = buf
        /\ todo' = [j \in DOMAIN Handler[Table] |-> Item(Table, Body, Handler[Table][j])]
    BY <1>10, Zenon DEF Dispatch, root
  <2>2. todo' \in Seq(Passed(buf, side))
    BY <1>7, <1>10, <2>1
  <2> QED
    BY <1>3, <2>1, <2>2 DEF IInv, ReadsInBounds
<1> QED
  BY <1>8, <1>9, <1>10

------------------------------------------------------------------------------
(* The accessors.                                                           *)

\* What all of them start from.
LEMMA CurrentPassed ==
  ASSUME IInv, at = "handler", todo # <<>>
  PROVE  /\ buf \in Seq(Byte) /\ todo \in Seq(Passed(buf, side))
         /\ Tail(todo) \in Seq(Passed(buf, side))
         /\ Current.place \in Int /\ Current.field \in Nat /\ Place \in Int
         /\ VerifyTableStart(buf, Current.place)
         /\ VerifyBodyField(buf, Current.place, Current.field,
              Fields(Current.table)[Current.field])
<1>1. buf \in Seq(Byte) /\ todo \in Seq(Passed(buf, side))
  BY DEF IInv
<1>2. Current \in Passed(buf, side) /\ Tail(todo) \in Seq(Passed(buf, side))
  BY <1>1 DEF Current
<1>3. Current.place \in Int /\ Current.field \in Nat
  BY <1>2, PassedItem
<1>4. Place \in Int
  BY <1>1, <1>3, PointerInt DEF Place
<1> QED
  BY <1>1, <1>2, <1>3, <1>4, PassedItem

\* A step that reads in the buffer and leaves what is to be read verified.
LEMMA ReadingStep ==
  ASSUME IInv, at = "handler", at' \in {"handler", "fault"},
         side' = side, buf' = buf, last' = last,
         touched' \subseteq Places(buf), todo' \in Seq(Passed(buf, side))
  PROVE  IInv'
BY DEF IInv, ReadsInBounds

LEMMA IInvReadScalar ==
  ASSUME IInv, NEW type \in ScalarTypes, ReadScalar(type)
  PROVE  IInv'
<1>1. /\ at = "handler" /\ todo # <<>> /\ Type(Current) = type
      /\ touched' = FieldReads(buf, Current.place, Current.field, Width[type])
      /\ at' = "handler" /\ side' = side /\ buf' = buf /\ last' = last
      /\ todo' = Tail(todo)
  BY DEF ReadScalar, Reading
<1>2. VerifyField(buf, Current.place, Current.field, Width[type])
  BY <1>1, CurrentPassed DEF VerifyBodyField, VerifyLeaf, Type
<1>3. FieldReads(buf, Current.place, Current.field, Width[type]) \subseteq Places(buf)
  BY <1>1, <1>2, CurrentPassed, FieldReadsInBounds, Widths
<1> QED
  BY <1>1, <1>3, CurrentPassed, ReadingStep

\* The distance that a field of one of the other types holds.
LEMMA DistanceRead ==
  ASSUME IInv, at = "handler", todo # <<>>, Type(Current) \in {"string", "Player", "[Player]"}
  PROVE  FieldReads(buf, Current.place, Current.field, 4) \subseteq Places(buf)
<1>1. VerifyOffset(buf, Current.place, Current.field)
  BY CurrentPassed DEF VerifyBodyField, VerifyLeaf, Type
<1> QED
  BY <1>1, CurrentPassed, DistanceReadsInBounds

LEMMA IInvReadString ==
  ASSUME IInv, ReadString
  PROVE  IInv'
<1>1. /\ at = "handler" /\ todo # <<>> /\ Type(Current) = "string"
      /\ Holds(buf, Current.place, Current.field)
      /\ touched' = FieldReads(buf, Current.place, Current.field, 4) \cup StringReads(buf, Place)
      /\ at' = "handler" /\ side' = side /\ buf' = buf /\ last' = last
      /\ todo' = Tail(todo)
  BY DEF ReadString, Reading, Missing
<1>2. VerifyString(buf, Place)
  BY <1>1, CurrentPassed DEF VerifyBodyField, VerifyLeaf, Type, Place
<1>3. StringReads(buf, Place) \subseteq Places(buf)
  BY <1>1, <1>2, CurrentPassed, StringReadsInBounds
<1>4. touched' \subseteq Places(buf)
  BY <1>1, <1>3, DistanceRead
<1> QED
  BY <1>1, <1>4, CurrentPassed, ReadingStep

LEMMA IInvReadPlayer ==
  ASSUME IInv, ReadPlayer
  PROVE  IInv'
<1>1. /\ at = "handler" /\ todo # <<>> /\ Type(Current) = "Player"
      /\ Holds(buf, Current.place, Current.field)
      /\ touched' = FieldReads(buf, Current.place, Current.field, 4)
      /\ at' = "handler" /\ side' = side /\ buf' = buf /\ last' = last
      /\ todo' = [i \in DOMAIN Fields("Player") |-> Item("Player", Place, i)] \o Tail(todo)
  BY DEF ReadPlayer, Reading, Missing
<1>2. VerifyBody(buf, "Player", Place)
  <2>1. VerifyPlayer(buf, Place)
    BY <1>1, CurrentPassed DEF VerifyBodyField, Type, Place
  <2> QED
    BY <2>1, PlayerIsTable
<1>3. ASSUME NEW i \in 1 .. 3
      PROVE  Item("Player", Place, i) \in Passed(buf, side)
  <2>1. Place \in Int /\ i \in Nat /\ i \in DOMAIN Fields("Player")
    BY <1>1, CurrentPassed, PlayerFields
  <2> QED
    BY <1>2, <2>1, ItemPassed
<1>4. [i \in DOMAIN Fields("Player") |-> Item("Player", Place, i)] \in Seq(Passed(buf, side))
  <2>1. [i \in 1 .. 3 |-> Item("Player", Place, i)] \in [1 .. 3 -> Passed(buf, side)]
    BY <1>3, Zenon
  <2> QED
    BY <2>1, PlayerFields, FunctionIsSeq
<1>5. todo' \in Seq(Passed(buf, side))
  BY <1>1, <1>4, CurrentPassed
<1> QED
  BY <1>1, <1>5, DistanceRead, ReadingStep

\* The j-th field to read of a list belongs to one of its players.
LEMMA PlayerNumber ==
  ASSUME NEW n \in Nat, NEW j \in 1 .. 3 * n
  PROVE  (j - 1) \div 3 \in 0 .. n - 1 /\ ((j - 1) % 3) + 1 \in 1 .. 3
BY SMT

LEMMA IInvReadPlayers ==
  ASSUME IInv, ReadPlayers
  PROVE  IInv'
<1> DEFINE n == Length(buf, Place)
<1>1. /\ at = "handler" /\ todo # <<>> /\ Type(Current) = "[Player]"
      /\ Holds(buf, Current.place, Current.field)
      /\ touched' = FieldReads(buf, Current.place, Current.field, 4) \cup VectorReads(buf, Place)
      /\ at' = "handler" /\ side' = side /\ buf' = buf /\ last' = last
      /\ todo' = [j \in 1 .. 3 * n |-> PlayerItem(Place, j)] \o Tail(todo)
  BY DEF ReadPlayers, Reading, Missing
<1>2. VerifyPlayers(buf, Place)
  BY <1>1, CurrentPassed DEF VerifyBodyField, Type, Place
<1>3. VectorReads(buf, Place) \subseteq Places(buf) /\ n \in Nat
  BY <1>1, <1>2, CurrentPassed, VectorReadsInBounds DEF VerifyPlayers
<1>4. \A k \in 0 .. n - 1 : VerifyBody(buf, "Player", Element(buf, Place, k))
  BY <1>2, PlayerIsTable DEF VerifyPlayers
<1> HIDE DEF n
<1>5. ASSUME NEW j \in 1 .. 3 * n
      PROVE  PlayerItem(Place, j) \in Passed(buf, side)
  <2>1. PICK k \in 0 .. n - 1 : k = (j - 1) \div 3
    BY <1>3, PlayerNumber
  <2>2. PICK i \in 1 .. 3 : i = ((j - 1) % 3) + 1
    BY <1>3, PlayerNumber
  <2>3. Element(buf, Place, k) \in Int
    BY <1>1, CurrentPassed, ElementInt
  <2>4. i \in Nat /\ i \in DOMAIN Fields("Player")
    BY PlayerFields
  <2>5. Item("Player", Element(buf, Place, k), i) \in Passed(buf, side)
    BY <1>4, <2>3, <2>4, ItemPassed
  <2> QED
    BY <2>1, <2>2, <2>5, Zenon DEF PlayerItem
<1>6. [j \in 1 .. 3 * n |-> PlayerItem(Place, j)] \in Seq(Passed(buf, side))
  <2>1. [j \in 1 .. 3 * n |-> PlayerItem(Place, j)] \in [1 .. 3 * n -> Passed(buf, side)]
    BY <1>5, Zenon
  <2>2. 3 * n \in Nat
    BY <1>3
  <2> QED
    BY <2>1, <2>2, FunctionIsSeq
<1>7. todo' \in Seq(Passed(buf, side))
  BY <1>1, <1>6, CurrentPassed
<1>8. touched' \subseteq Places(buf)
  BY <1>1, <1>3, DistanceRead
<1> QED
  BY <1>1, <1>7, <1>8, ReadingStep

LEMMA IInvNullPointer ==
  ASSUME IInv, NullPointer
  PROVE  IInv'
<1>1. /\ at = "handler" /\ todo # <<>> /\ Type(Current) \in {"string", "Player", "[Player]"}
      /\ touched' = FieldReads(buf, Current.place, Current.field, 4)
      /\ at' = "fault" /\ side' = side /\ buf' = buf /\ last' = last /\ todo' = todo
  BY DEF NullPointer, Reading
<1> QED
  BY <1>1, CurrentPassed, DistanceRead, ReadingStep

LEMMA IInvFinish ==
  ASSUME IInv, Finish
  PROVE  IInv'
BY DEF IInv, Finish, ReadsInBounds

------------------------------------------------------------------------------
(* The theorems.                                                            *)

LEMMA IInvNext ==
  ASSUME IInv, [Receive \/ Process]_rvars
  PROVE  IInv'
<1>1. CASE Receive
  BY <1>1, IInvReceive
<1>2. CASE Verify
  BY <1>2, IInvVerify
<1>3. CASE Dispatch
  BY <1>3, IInvDispatch
<1>4. CASE Handle
  BY <1>4, IInvReadScalar, IInvReadString, IInvReadPlayer, IInvReadPlayers,
     IInvNullPointer, IInvFinish DEF Handle
<1>5. CASE UNCHANGED rvars
  BY <1>5 DEF IInv, ReadsInBounds, rvars
<1> QED
  BY <1>1, <1>2, <1>3, <1>4, <1>5 DEF Process

LEMMA IInvAlways == ReaderSpec => []IInv
<1>1. RInit => IInv
  BY IInvInit
<1>2. IInv /\ [Receive \/ Process]_rvars => IInv'
  BY IInvNext
<1> QED
  BY <1>1, <1>2, PTL DEF ReaderSpec

\* No accessor of a handler (body_as_...(), str(), the elements of a vector)
\* reads outside the message, whatever bytes have come, once
\* VerifyMessageEnvelopeBuffer has let it pass.
THEOREM ReadsStayInBounds == ReaderSpec => []ReadsInBounds
<1>1. IInv => ReadsInBounds
  BY DEF IInv
<1> QED
  BY <1>1, IInvAlways, PTL

\* The reader's variables stay in their types: what a handler has yet to read
\* are fields its schema has, of messages that are meant for this side.
THEOREM TypeCorrect == ReaderSpec => []TypeOK
<1>1. IInv => TypeOK
  <2> SUFFICES ASSUME IInv PROVE TypeOK
    OBVIOUS
  <2>1. ASSUME NEW j \in DOMAIN todo
        PROVE  todo[j].table \in {"Player"} \cup Handled(side)
               /\ todo[j].field \in DOMAIN Fields(todo[j].table)
    <3>1. todo \in Seq(Passed(buf, side))
      BY <2>1 DEF IInv
    <3>2. todo[j] \in Passed(buf, side)
      BY <2>1, <3>1
    <3> QED
      BY <3>2 DEF Passed
  <2> QED
    BY <2>1 DEF IInv, TypeOK
<1> QED
  BY <1>1, IInvAlways, PTL
=============================================================================
