------------------------------ MODULE FlatBuffers ------------------------------
(***************************************************************************)
(* Reading and verifying a FlatBuffer: the parts of verifier.h, table.h,   *)
(* vector.h, string.h and base.h that the messages of LoginProtocol.fbs    *)
(* need.                                                                   *)
(*                                                                         *)
(* A buffer is a sequence of bytes and a place in it counts from 0, as a   *)
(* pointer does.  Numbers are stored with the least significant byte       *)
(* first.  A table begins with the distance, backwards, to its vtable; the *)
(* vtable holds its own size, the table's, and for each field the place of *)
(* the field in the table, or 0.  Strings, vectors and tables are stored   *)
(* elsewhere and reached by the distance, forwards, that the field holds.  *)
(***************************************************************************)
EXTENDS Integers, Sequences

Byte == 0 .. 255
MaxSize == 32767 * 65536 + 65535  \* 2^31 - 1, FLATBUFFERS_MAX_BUFFER_SIZE
MinSize == 12                     \* FLATBUFFERS_MIN_BUFFER_SIZE

Places(b) == 0 .. Len(b) - 1

\* The byte at place p.  Nothing may depend on the value beyond the buffer.
At(b, p) == IF p \in Places(b) THEN b[p + 1] ELSE 0

\* ReadScalar<T>: 8, 16 and 32 bits.  A number of 32 bits is an int32_t or a
\* uint32_t, and every use below refuses what has the top bit set, or reads
\* it as a negative number.
U8(b, p) == At(b, p)
U16(b, p) == At(b, p) + 256 * At(b, p + 1)
I32(b, p) ==
  LET top == At(b, p + 3)
  IN  At(b, p) + 256 * (At(b, p + 1) + 256 * (At(b, p + 2)
        + 256 * (IF top < 128 THEN top ELSE top - 256)))

\* Where the distance at place p leads.  With the top bit set it is, without
\* a sign, beyond any buffer.
Target(b, p) == IF I32(b, p) < 0 THEN MaxSize ELSE p + I32(b, p)

Span(p, n) == p .. p + n - 1

------------------------------------------------------------------------------
(* Tables: Table and Vector, as the accessors use them.                     *)

\* Where field number i of a table stands in its vtable.
VT(i) == 2 + 2 * i

VTable(b, t) == t - I32(b, t)

\* GetOptionalFieldOffset: 0 when the table does not hold the field.
FieldOffset(b, t, i) ==
  IF VT(i) < U16(b, VTable(b, t)) THEN U16(b, VTable(b, t) + VT(i)) ELSE 0

Holds(b, t, i) == FieldOffset(b, t, i) # 0

\* GetPointer, of a field that the table holds.
Pointer(b, t, i) == Target(b, t + FieldOffset(b, t, i))

\* Vector and String: their length, and for a vector of tables its elements.
Length(b, p) == I32(b, p)
Element(b, p, k) == Target(b, p + 4 + 4 * k)

\* The bytes of a scalar field, or those of its default, which is 0.
ScalarValue(b, t, i, width) ==
  IF Holds(b, t, i)
    THEN [k \in 1 .. width |-> At(b, t + FieldOffset(b, t, i) + k - 1)]
    ELSE [k \in 1 .. width |-> 0]

StringValue(b, p) == [k \in 1 .. Length(b, p) |-> At(b, p + 3 + k)]

(* The places these read.                                                   *)

OffsetReads(b, t, i) ==
  Span(t, 4) \cup Span(VTable(b, t), 2)
    \cup (IF VT(i) < U16(b, VTable(b, t)) THEN Span(VTable(b, t) + VT(i), 2) ELSE {})

\* A scalar of so many bytes, or the distance in four.
FieldReads(b, t, i, width) ==
  OffsetReads(b, t, i)
    \cup (IF Holds(b, t, i) THEN Span(t + FieldOffset(b, t, i), width) ELSE {})

\* str() reads the length and so many bytes, c_str() bytes up to the first
\* that is 0, at most the one that ends the string.
StringReads(b, p) == Span(p, 4 + Length(b, p) + 1)

VectorReads(b, p) == Span(p, 4 + 4 * Length(b, p))

------------------------------------------------------------------------------
(* The verifier.                                                            *)

\* Verify(elem, elem_len): n bytes from p on are in the buffer.
Fits(b, p, n) == n < Len(b) /\ 0 <= p /\ p <= Len(b) - n

\* Verify<T>(elem): a scalar of n bytes, aligned.
FitsAligned(b, p, n) == p % n = 0 /\ Fits(b, p, n)

VerifyTableStart(b, t) ==
  LET v == VTable(b, t)
  IN  /\ FitsAligned(b, t, 4)
      /\ FitsAligned(b, v, 2)
      /\ U16(b, v) % 2 = 0
      /\ Fits(b, v, U16(b, v))

VerifyField(b, t, i, width) ==
  Holds(b, t, i) => FitsAligned(b, t + FieldOffset(b, t, i), width)

\* VerifyOffset(start): a distance that leads forwards, to a place in the buffer.
VerifyDistance(b, p) ==
  /\ FitsAligned(b, p, 4)
  /\ I32(b, p) > 0
  /\ Fits(b, Target(b, p), 1)

VerifyOffset(b, t, i) ==
  Holds(b, t, i) => VerifyDistance(b, t + FieldOffset(b, t, i))

\* VerifyVectorOrString, with elements of so many bytes.
VerifyVector(b, p, width) ==
  /\ FitsAligned(b, p, 4)
  /\ Length(b, p) >= 0 /\ Length(b, p) < MaxSize \div width
  /\ Fits(b, p, 4 + width * Length(b, p))

\* The byte after the string is not looked at.
BadVerifyString(b, p) == VerifyVector(b, p, 1)
VerifyString(b, p) ==
  /\ VerifyVector(b, p, 1)
  /\ Fits(b, p + 4 + Length(b, p), 1)
  /\ At(b, p + 4 + Length(b, p)) = 0
===============================================================================
