----------------------------- MODULE SchemaFiles -----------------------------
(***************************************************************************)
(* The other use of the library that the repository has the code for: a    *)
(* tool writes a schema as a buffer, with the Create...Direct functions of *)
(* reflection_generated.h, and another loads it, verifies it and looks     *)
(* tables, enumerations and fields up by their names.  The server and the  *)
(* client do not do it; the builder and the verifier are those of their    *)
(* messages.                                                               *)
(*                                                                         *)
(* A behaviour of this module is one of Messages, or writes one schema; one *)
(* run then covers builder, verifier and accessors for both.               *)
(***************************************************************************)
EXTENDS Messages, SchemaReading

CONSTANTS
  Schemas,  \* what is written, see below
  Abandons  \* bound: after how many calls a buffer may be given up

ASSUME AbandonsAssumption == Abandons \subseteq Nat

\* A schema is a record of
\*   value     of the table Schema, as SchemaReading has it; where a table is to
\*             hold an object it has the object's place in the first field
\*   strings   "shared": made by CreateSharedString; "vectors": those of a vector
\*             by CreateVectorOfStrings; others by CreateString
\*   prefixed  the buffer begins with its size
\*   force, dedup  as ForceDefaults and DedupVtables are told
\*   reuse     how the builder is made ready for another buffer: "Clear",
\*             "Reset", "Release", or "no" if it is not
VARIABLES
  schema,
  first  \* <<>>, or <<b>> with b what the builder was used for before: <<>> if given up

NoSchema == [none |-> TRUE]

------------------------------------------------------------------------------
(* The calls by which it is written.  What a call makes is known by its     *)
(* path: the numbers of the fields and elements that lead to it.            *)

Concat(parts) == FoldLeft(LAMBDA calls, part : calls \o part, <<>>, parts)

RECURSIVE Calls(_, _, _)

StringCalls(s, path) ==
  <<[call |-> IF schema.strings = "shared" THEN "CreateSharedString" ELSE "CreateString",
     string |-> s, path |-> path]>>

AtOnce(of) == of = "string" /\ schema.strings = "vectors"

VectorCalls(of, vs, path) ==
  IF AtOnce(of) THEN <<[call |-> "CreateVectorOfStrings", strings |-> vs, path |-> path]>>
  ELSE <<[call |-> IF of = "string" THEN "CreateVector" ELSE "CreateVectorOfSortedTables",
          table |-> of, elements |-> [k \in DOMAIN vs |-> Append(path, k)], path |-> path]>>

ElementCalls(of, v, path) ==
  IF of = "string" THEN StringCalls(v, path) ELSE Calls(of, v, path)

\* What has to be there before the Create...Direct of the table: the elements
\* of its vectors, and its tables.  Objects are made already.
Before(f, v, path) ==
  CASE f.type = "vector" /\ v # <<>> /\ ~AtOnce(f.of) ->
         Concat([k \in DOMAIN v[1] |-> ElementCalls(f.of, v[1][k], Append(path, k))])
    [] f.type = "table" /\ f.of # "Object" /\ v # <<>> -> Calls(f.of, v[1], path)
    [] OTHER -> <<>>

\* What Create...Direct makes first; so does a tool that calls Create... itself
\* because it shares strings.
Direct(f, v, path) ==
  CASE f.type = "string" /\ v # <<>> -> StringCalls(v[1], path)
    [] f.type = "vector" /\ v # <<>> -> VectorCalls(f.of, v[1], path)
    [] OTHER -> <<>>

\* <<>> for what is not there; the objects are in the first field of the schema.
Argument(f, v, path) ==
  CASE IsScalar(f) -> v
    [] f.type = "table" /\ f.of = "Object" /\ v # <<>> -> <<1, v[1]>>
    [] OTHER -> IF v = <<>> THEN <<>> ELSE path

Calls(table, v, path) ==
  LET f == ReflectedFields(table)
      each(Op(_, _, _)) == [i \in DOMAIN v |-> Op(f[i], v[i], Append(path, i))]
  IN  Concat(each(Before)) \o Concat(each(Direct))
        \o <<[call |-> "Create", table |-> table, args |-> each(Argument), path |-> path]>>

\* As Perform takes a call, with the number of another for what that has made.
Numbered(calls, c) ==
  LET number(p) == IF p = <<>> THEN 0 ELSE CHOOSE n \in DOMAIN calls : calls[n].path = p
  IN  CASE c.call = "Create" ->
             [c EXCEPT !.args = [i \in DOMAIN @ |->
                IF IsScalar(ReflectedFields(c.table)[i]) THEN @[i] ELSE number(@[i])]]
        [] c.call \in {"CreateVector", "CreateVectorOfSortedTables"} ->
             [c EXCEPT !.elements = [k \in DOMAIN @ |-> number(@[k])]]
        [] OTHER -> c

\* FinishSchemaBuffer and FinishSizePrefixedSchemaBuffer.
FinishSchema(root) ==
  [call |-> "Finish", root |-> root, identifier |-> SchemaIdentifier,
   prefixed |-> schema.prefixed]

Plan ==
  LET calls == Calls("Schema", schema.value, <<>>)
  IN  Append([n \in DOMAIN calls |-> Numbered(calls, calls[n])], FinishSchema(Len(calls)))

Nothing == [to |-> "tool", calls |-> <<>>, says |-> <<>>]

CodecInit ==
  /\ first = <<>>
  /\ \/ schema = NoSchema /\ Init
     \/ /\ schema \in Schemas
        /\ RInit /\ side = "client"
        /\ fbb = DedupVtables(ForceDefaults(NewBuilder, schema.force), schema.dedup)
        /\ message = Nothing /\ results = <<>> /\ whole = TRUE

MakePlan ==
  /\ message = Nothing
  /\ message' = [message EXCEPT !.calls = Plan]
  /\ UNCHANGED <<fbb, results, whole, first, rvars>>

\* The same once more, after the buffer is finished or in the middle of it.
Reuse ==
  /\ schema.reuse # "no" /\ first = <<>>
  /\ \/ fbb.finished
     \/ schema.reuse # "Release" /\ Len(results) \in Abandons
  /\ first' = <<IF fbb.finished THEN fbb.bytes ELSE <<>>>>
  /\ fbb' = CASE schema.reuse = "Clear" -> Clear(fbb)
              [] schema.reuse = "Reset" -> Reset(fbb)
              [] schema.reuse = "Release" -> Release(fbb)
  /\ results' = <<>>
  /\ UNCHANGED <<message, whole, rvars>>

CodecNext ==
  /\ \/ schema = NoSchema /\ Next /\ UNCHANGED first
     \/ schema # NoSchema /\ (MakePlan \/ (Call /\ UNCHANGED first) \/ Reuse)
  /\ UNCHANGED schema

CodecSpec == CodecInit /\ [][CodecNext]_<<vars, schema, first>>

------------------------------------------------------------------------------
(* Properties.                                                              *)

Loadable == schema # NoSchema /\ fbb.finished
SchemaRoot == Target(fbb.bytes, IF schema.prefixed THEN 4 ELSE 0)

\* The value v of a table as it is to be read: vectors of tables by their keys,
\* objects in full.
Key(of, v) == IF of = "EnumVal" THEN <<128 + v[2]>> ELSE v[1][1]
RECURSIVE InOrder(_, _)
Ordered(of, vs) ==
  IF of = "string" THEN vs
  ELSE SortSeq([k \in DOMAIN vs |-> InOrder(of, vs[k])],
               LAMBDA v, w : StringLessThan(Key(of, v), Key(of, w)))
InOrder(table, v) ==
  [i \in DOMAIN v |->
     LET f == ReflectedFields(table)[i]
     IN  IF f.type = "vector" /\ v[i] # <<>> THEN <<Ordered(f.of, v[i][1])>>
         ELSE IF f.type = "table" /\ v[i] # <<>> THEN
           <<IF f.of = "Object" THEN InOrder("Object", schema.value[1][1][v[i][1]])
             ELSE InOrder(f.of, v[i][1])>>
         ELSE v[i]]

\* The strings in the table at t, by their places.
RECURSIVE StringPlaces(_, _, _)
StringPlaces(b, table, t) ==
  UNION {
    LET f == ReflectedFields(table)[i]
        p == Pointer(b, t, i)
        below(of, q) == IF of = "string" THEN {q} ELSE StringPlaces(b, of, q)
    IN  IF IsScalar(f) \/ f.type = "deprecated" \/ ~Holds(b, t, i) THEN {}
        ELSE IF f.type = "string" THEN {p}
        ELSE IF f.type = "table" THEN below(f.of, p)
        ELSE UNION {below(f.of, Element(b, p, k)) : k \in 0 .. Length(b, p) - 1}
    : i \in DOMAIN ReflectedFields(table)}

\* Of shared strings there is one of each, however much has been written between
\* two of them and whatever memory has moved (flatbuffer_builder.h:604).
SharedOnce ==
  schema.strings = "shared" =>
    \A p, q \in StringPlaces(fbb.bytes, "Schema", SchemaRoot) :
      StringValue(fbb.bytes, p) = StringValue(fbb.bytes, q) => p = q

\* A builder that has been used before writes what a new one writes, whether it
\* keeps its memory or not: nothing of the first buffer, its strings, vtables or
\* alignment, gets into the second (flatbuffer_builder.h:168).
ReusedAsNew ==
  first # <<>> => first[1] \in {<<>>, fbb.bytes}

\* A schema that has been written passes the verifier, aligned and with its
\* identifier, with or without its size before it, and the accessors return
\* what was written, in the order of the keys however it was given: also values
\* that are a default other than 0, and tables and strings that several share
\* (reflection_generated.h:1501, 1506).  Of strings that are shared there is one
\* of each, and a builder that has been used before writes it as a new one does.
SchemaReadAsWritten ==
  Loadable =>
    /\ IF schema.prefixed THEN VerifySizePrefixedSchemaBuffer(fbb.bytes)
                          ELSE VerifySchemaBuffer(fbb.bytes)
    /\ Get(fbb.bytes, "Schema", SchemaRoot) = InOrder("Schema", schema.value)
    /\ SharedOnce
    /\ ReusedAsNew

\* The vectors of tables in the table at t: [of, place].
RECURSIVE Vectors(_, _, _)
Vectors(b, table, t) ==
  UNION {
    LET f == ReflectedFields(table)[i]
        p == Pointer(b, t, i)
    IN  IF f.type \notin {"table", "vector"} \/ ~Holds(b, t, i) THEN {}
        ELSE IF f.type = "table" THEN Vectors(b, f.of, p)
        ELSE IF f.of = "string" THEN {}
        ELSE {[of |-> f.of, place |-> p]} \cup
               UNION {Vectors(b, f.of, Element(b, p, k)) : k \in 0 .. Length(b, p) - 1}
    : i \in DOMAIN ReflectedFields(table)}

\* Every table of a sorted vector is found by its key, and a key that no table
\* has finds nothing: the order in which a writer compares keys is the one that
\* the search expects (flatbuffer_builder.h:1140, vector.h:280).
LookupFindsAll ==
  Loadable =>
    LET b == fbb.bytes
        all == Vectors(b, "Schema", SchemaRoot)
        places(v) == {Element(b, v.place, k) : k \in 0 .. Length(b, v.place) - 1}
        keys(ofs) == UNION {{KeyOf(b, v.of, t) : t \in places(v)} : v \in {w \in all : w.of \in ofs}}
    IN  \A v \in all :
          /\ \A t \in places(v) : LookupByKey(b, v.of, v.place, KeyOf(b, v.of, t)) = t
          /\ \A key \in keys(IF v.of = "EnumVal" THEN {"EnumVal"} ELSE DOMAIN Reflected \ {"EnumVal"}) :
               (\A t \in places(v) : KeyOf(b, v.of, t) # key)
                 => LookupByKey(b, v.of, v.place, key) = 0
===============================================================================
