----------------------------- MODULE SchemaReading -----------------------------
(***************************************************************************)
(* How a schema is read from its buffer: the verifier and the accessors of *)
(* the tables of Reflection, which hold one another, and the search in     *)
(* sorted vectors (vector.h).                                              *)
(*                                                                         *)
(* A value of a table is the sequence of its fields' values: a number for  *)
(* a scalar; for what is stored elsewhere, and may be absent, <<>> or <<v>> *)
(* with v a string, a value of a table or a sequence of those.             *)
(***************************************************************************)
EXTENDS Reflection

------------------------------------------------------------------------------
(* Verify.                                                                  *)

RECURSIVE VerifyReflected(_, _, _)

\* What is at place p: a string, or a table of this name.
VerifyElement(b, of, p) ==
  IF of = "string" THEN VerifyString(b, p) ELSE VerifyReflected(b, of, p)

VerifyElements(b, of, p) ==
  /\ VerifyVector(b, p, 4)
  /\ \A k \in 0 .. Length(b, p) - 1 : VerifyElement(b, of, Element(b, p, k))

VerifyPointed(b, f, p) ==
  CASE f.type = "string" -> VerifyString(b, p)
    [] f.type = "table" -> VerifyReflected(b, f.of, p)
    [] f.type = "vector" -> VerifyElements(b, f.of, p)

VerifyReflected(b, table, t) ==
  /\ VerifyTableStart(b, t)
  /\ \A i \in DOMAIN ReflectedFields(table) :
       LET f == ReflectedFields(table)[i]
       IN  /\ f.required => Holds(b, t, i)
           /\ IsScalar(f) => VerifyField(b, t, i, SizeOf[f.type])
           /\ f.type \in {"string", "table", "vector"} =>
                /\ VerifyOffset(b, t, i)
                /\ Holds(b, t, i) => VerifyPointed(b, f, Pointer(b, t, i))

SchemaIdentifier == <<66, 70, 66, 83>>  \* BFBS

BufferHasIdentifier(b, start) == SubSeq(b, start + 5, start + 8) = SchemaIdentifier

\* VerifyBufferFromStart: the root's distance is at start.
VerifySchemaFrom(b, start) ==
  /\ Len(b) >= MinSize
  /\ BufferHasIdentifier(b, start)
  /\ VerifyDistance(b, start)
  /\ VerifyReflected(b, "Schema", Target(b, start))

VerifySchemaBuffer(b) == VerifySchemaFrom(b, 0)

VerifySizePrefixedSchemaBuffer(b) ==
  /\ FitsAligned(b, 0, 4)
  /\ I32(b, 0) >= 0 /\ I32(b, 0) + 4 <= Len(b)
  /\ VerifySchemaFrom(b, 4)

------------------------------------------------------------------------------
(* The accessors, of a buffer that has passed.                              *)

RECURSIVE Get(_, _, _)

GetElement(b, of, p) == IF of = "string" THEN StringValue(b, p) ELSE Get(b, of, p)

GetPointed(b, f, p) ==
  CASE f.type = "string" -> StringValue(b, p)
    [] f.type = "table" -> Get(b, f.of, p)
    [] f.type = "vector" ->
         [k \in 1 .. Length(b, p) |-> GetElement(b, f.of, Element(b, p, k - 1))]

\* All of a table, as the accessors of its fields return it.
Get(b, table, t) ==
  [i \in DOMAIN ReflectedFields(table) |->
     LET f == ReflectedFields(table)[i]
     IN  IF IsScalar(f) THEN GetField(b, t, i, f)
         ELSE IF f.type = "deprecated" \/ ~Holds(b, t, i) THEN <<>>
         ELSE <<GetPointed(b, f, Pointer(b, t, i))>>]

------------------------------------------------------------------------------
(* The search.                                                              *)

\* What strcmp sees: up to the first 0.
CString(s) ==
  LET zeros == {i \in DOMAIN s : s[i] = 0}
  IN  IF zeros = {} THEN s
      ELSE SubSeq(s, 1, (CHOOSE i \in zeros : \A j \in zeros : i <= j) - 1)

\* KeyCompareWithValue: the key of the table at t comes before, or after, key.
IsBefore(b, table, t, key) ==
  IF table = "EnumVal" THEN KeyOf(b, table, t) < key
  ELSE StringLessThan(CString(KeyOf(b, table, t)), CString(key))
IsAfter(b, table, t, key) ==
  IF table = "EnumVal" THEN KeyOf(b, table, t) > key
  ELSE StringLessThan(CString(key), CString(KeyOf(b, table, t)))

\* bsearch among the elements from lo to hi - 1 of the vector at p: the place of
\* the table found, or 0.
RECURSIVE BSearch(_, _, _, _, _, _)
BSearch(b, table, p, key, lo, hi) ==
  LET mid == (lo + hi) \div 2
      t == Element(b, p, mid)
  IN  IF lo >= hi THEN 0
      ELSE IF IsBefore(b, table, t, key) THEN BSearch(b, table, p, key, mid + 1, hi)
      ELSE IF IsAfter(b, table, t, key) THEN BSearch(b, table, p, key, lo, mid)
      ELSE t

LookupByKey(b, table, p, key) == BSearch(b, table, p, key, 0, Length(b, p))
================================================================================
