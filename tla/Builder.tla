-------------------------------- MODULE Builder --------------------------------
(***************************************************************************)
(* FlatBufferBuilder: a buffer is written from its end to its beginning,   *)
(* what is pointed to before what points to it, and a place is known by    *)
(* its distance from the end.  A builder is a record; an operation maps it  *)
(* to the builder after the call.                                          *)
(*                                                                         *)
(*   bytes     the buffer, from cur_ on                                    *)
(*   reserved  the memory, which the buffer shares with the scratch pad    *)
(*   fields    the fields of the table being built, [off, id], num_field_loc *)
(*   vtables   the vtables written, by their distance from the end         *)
(*   offsets   strings whose vector is still to be written                 *)
(*   maxv      max_voffset_, the highest place in the vtable               *)
(*   minalign  the largest alignment asked for                             *)
(*   nested, finished                                                      *)
(*   force     defaults are stored, force_defaults_                        *)
(*   dedup     equal vtables are shared, dedup_vtables_                    *)
(*   pool      the strings to be shared, by their distance, string_pool    *)
(*   result    the value of the last call: the distance of what it wrote   *)
(*   asserts   no FLATBUFFERS_ASSERT has failed                            *)
(***************************************************************************)
EXTENDS Reflection, SequencesExt

CONSTANT InitialSize  \* bytes of memory to begin with; 1024 in the code

ASSUME InitialSizeAssumption == InitialSize \in Nat \ {0}

\* A number of up to 32 bits, with or without a sign, in width bytes.
LittleEndian(n, width) ==
  [k \in 1 .. width |->
     CASE k = 1 -> n % 256
       [] k = 2 -> (n \div 256) % 256
       [] k = 3 -> (n \div 65536) % 256
       [] k = 4 -> (n \div 16777216) % 256
       [] OTHER -> IF n < 0 THEN 255 ELSE 0]

Zeros(n) == [k \in 1 .. n |-> 0]

PaddingBytes(size, alignment) == (alignment - (size % alignment)) % alignment

Size(f) == Len(f.bytes)

\* A FieldLoc takes 8 bytes of the scratch pad, a uoffset_t or an Offset 4.
ScratchSize(f) == 8 * Len(f.fields) + 4 * (Len(f.vtables) + Len(f.offsets))

NewBuilder ==
  [bytes |-> <<>>, reserved |-> 0, fields |-> <<>>, vtables |-> <<>>, offsets |-> <<>>,
   maxv |-> 0, minalign |-> 1, nested |-> FALSE, finished |-> FALSE, pool |-> {},
   result |-> 0, force |-> FALSE, dedup |-> TRUE, asserts |-> TRUE]

ForceDefaults(f, fd) == [f EXCEPT !.force = fd]
DedupVtables(f, dedup) == [f EXCEPT !.dedup = dedup]

Asserting(f, condition) == [f EXCEPT !.asserts = @ /\ condition]

------------------------------------------------------------------------------
(* vector_downward.                                                         *)

\* reallocate: by half, or by n if that is more, in steps of 8 bytes.
Grown(f, n) ==
  LET half == IF f.reserved = 0 THEN InitialSize ELSE f.reserved \div 2
      more == IF n > half THEN n ELSE half
  IN  ((f.reserved + more + 7) \div 8) * 8

\* Only the buffer is taken to use the memory.
BadEnsureSpace(f, n) ==
  [Asserting(f, Size(f) < MaxSize) EXCEPT
     !.reserved = IF n > @ - Size(f) THEN Grown(f, n) ELSE @]
EnsureSpace(f, n) ==
  [Asserting(f, Size(f) < MaxSize) EXCEPT
     !.reserved = IF n > @ - Size(f) - ScratchSize(f) THEN Grown(f, n) ELSE @]

\* The buffer, at the end of the memory, and the scratch pad, at its beginning, do
\* not meet.
Fitted(f) == Asserting(f, Size(f) + ScratchSize(f) <= f.reserved)

\* push, push_small, fill and fill_big.
Push(f, s) ==
  IF s = <<>> THEN f
  ELSE Fitted([EnsureSpace(f, Len(s)) EXCEPT !.bytes = s \o @])

\* clear: the memory is kept, what is in it is not.  clear_buffer and release
\* give the memory away.
ClearBuffer(f) == [f EXCEPT !.bytes = <<>>, !.vtables = <<>>, !.offsets = <<>>]
GiveAway(f) == [ClearBuffer(f) EXCEPT !.reserved = 0]

Pop(f, n) == [f EXCEPT !.bytes = SubSeq(@, n + 1, Len(@))]

\* WriteScalar at data_at(off), off bytes from the end.
Write(f, off, s) ==
  LET first == Size(f) - off
  IN  [f EXCEPT !.bytes = [p \in DOMAIN @ |->
         IF p - first \in 1 .. Len(s) THEN s[p - first] ELSE @[p]]]

------------------------------------------------------------------------------
(* FlatBufferBuilder.                                                       *)

TrackMinAlign(f, n) == [f EXCEPT !.minalign = IF n > @ THEN n ELSE @]

Align(f, n) == Push(TrackMinAlign(f, n), Zeros(PaddingBytes(Size(f), n)))

PreAlign(f, n, alignment) ==
  IF n = 0 THEN f
  ELSE Push(TrackMinAlign(f, alignment), Zeros(PaddingBytes(Size(f) + n, alignment)))

GetSize(f) == [f EXCEPT !.result = Size(f)]

PushElement(f, s) == GetSize(Push(Align(f, Len(s)), s))

\* The field is the element pushed last.
TrackField(f, id) ==
  Fitted([EnsureSpace(f, 8) EXCEPT
            !.fields = Append(@, [off |-> f.result, id |-> id]),
            !.maxv = IF id > @ THEN id ELSE @])

\* A value that is the default is not stored, if it need not be.
AddElement(f, id, s, default) ==
  IF s = default /\ ~f.force THEN f ELSE TrackField(PushElement(f, s), id)

\* ReferTo gives the distance from where it will be stored.
Refer(f, off) ==
  [Asserting(f, off # 0 /\ off <= Size(f)) EXCEPT !.result = Size(f) - off + 4]
ReferTo(f, off) == Refer(Align(f, 4), off)

Result(f) == LittleEndian(f.result, 4)
PushResult(f) == PushElement(f, Result(f))
PushOffset(f, off) == PushResult(ReferTo(f, off))

AddResult(f, id) == AddElement(f, id, Result(f), Zeros(4))
AddOffset(f, id, off) == IF off = 0 THEN f ELSE AddResult(ReferTo(f, off), id)

NotNested(f) == Asserting(f, ~f.nested /\ f.fields = <<>>)

CreateString(f, s) ==
  PushElement(Push(Push(PreAlign(NotNested(f), Len(s) + 1, 4), <<0>>), s),
              LittleEndian(Len(s), 4))

StringAt(f, off) == StringValue(f.bytes, Size(f) - off)

\* StringOffsetCompare: two strings are one if neither comes before the other.
SameString(f, off1, off2) ==
  /\ ~StringLessThan(StringAt(f, off1), StringAt(f, off2))
  /\ ~StringLessThan(StringAt(f, off2), StringAt(f, off1))

\* Equal strings are one: the new one is taken back, and what comes of it is the
\* alignment, and memory that has grown.
ShareString(f, before, same) ==
  IF same = {}
    THEN [f EXCEPT !.pool = @ \cup {f.result}]
    ELSE [Pop(f, Size(f) - before) EXCEPT !.result = CHOOSE off \in same : TRUE]
FindString(f, before) ==
  ShareString(f, before, {off \in f.pool : SameString(f, off, f.result)})

CreateSharedString(f, s) == FindString(CreateString(f, s), Size(f))

\* A vector of n elements of 4 bytes.
StartVector(f, n) == PreAlign([NotNested(f) EXCEPT !.nested = TRUE], 4 * n, 4)
EndVector(f, n) ==
  PushElement([Asserting(f, f.nested) EXCEPT !.nested = FALSE], LittleEndian(n, 4))

\* The elements from the last to the first.
PushOffsets(f, offs) ==
  LET n == Len(offs)
      pushed[k \in 0 .. n] == IF k = 0 THEN f ELSE PushOffset(pushed[k - 1], offs[n - k + 1])
  IN  pushed[n]

CreateVector(f, offs) ==
  EndVector(PushOffsets(StartVector(f, Len(offs)), offs), Len(offs))

\* The strings first; until all are written, where they are is kept in the
\* scratch pad, for which there is to be space before the first of them.
KeepOffset(f) == Fitted([EnsureSpace(f, 4) EXCEPT !.offsets = Append(@, f.result)])
WriteStrings(f, strings) ==
  FoldLeft(LAMBDA g, s : KeepOffset(CreateString(g, s)), EnsureSpace(f, 4 * Len(strings)), strings)
VectorOfOffsets(f) ==
  EndVector([PushOffsets(StartVector(f, Len(f.offsets)), f.offsets) EXCEPT !.offsets = <<>>],
            Len(f.offsets))
CreateVectorOfStrings(f, strings) == VectorOfOffsets(WriteStrings(f, strings))

\* The offsets in the order of the keys, equal ones as they come (stable_sort,
\* with TableKeyComparator).
Inserted(f, table, offs, off) ==
  LET place(o) == Size(f) - o
      rest == {k \in DOMAIN offs : KeyCompareLessThan(f.bytes, table, place(off), place(offs[k]))}
      n == Cardinality(rest)
  IN  SubSeq(offs, 1, Len(offs) - n) \o <<off>> \o SubSeq(offs, Len(offs) - n + 1, Len(offs))
Sorted(f, table, offs) ==
  FoldLeft(LAMBDA sorted, off : Inserted(f, table, sorted, off), <<>>, offs)

\* They are left as they come.
BadCreateVectorOfSortedTables(f, table, offs) == CreateVector(f, offs)
CreateVectorOfSortedTables(f, table, offs) == CreateVector(f, Sorted(f, table, offs))

StartTable(f) == [NotNested(f) EXCEPT !.nested = TRUE]

------------------------------------------------------------------------------
(* EndTable: the distance to the vtable, to be filled in, and a vtable, or  *)
(* an equal one that has been written before.                               *)

\* The vtable's size, the table's, and for each field its place in the table,
\* which begins with what was pushed last.
VTableBytes(f, size, start) ==
  LET field(v) == {l \in Range(f.fields) : l.id = v}
      entry(v) == CASE v = 0 -> size
                    [] v = 2 -> f.result - start
                    [] OTHER -> IF field(v) = {} THEN 0
                                ELSE f.result - (CHOOSE l \in field(v) : TRUE).off
  IN  [k \in 1 .. size |-> LittleEndian(entry(2 * ((k - 1) \div 2)), 2)[((k - 1) % 2) + 1]]

\* Two vtables of one size are taken for equal.
BadSameVTable(f, old, vtable) == U16(f.bytes, Size(f) - old) = Len(vtable)
\* The vtable written at distance old is the same as this one.
SameVTable(f, old, vtable) ==
  /\ U16(f.bytes, Size(f) - old) = Len(vtable)
  /\ \A k \in 1 .. Len(vtable) : At(f.bytes, Size(f) - old + k - 1) = vtable[k]

ClearOffsets(f) == [f EXCEPT !.fields = <<>>, !.maxv = 0]

\* Its place is result; no field is there twice.
PushVTable(f, vtable, start) ==
  ClearOffsets(Asserting(Push(f, vtable),
    /\ f.result - start < 65536
    /\ \A i, j \in DOMAIN f.fields : f.fields[i].id = f.fields[j].id => i = j))

KeepVTable(f) == Fitted([EnsureSpace(f, 4) EXCEPT !.vtables = Append(@, Size(f))])

\* Of the vtables equal to the one just pushed, by their numbers in vtables, the
\* one that was written first.
ShareVTable(f, same) ==
  LET old == f.vtables[CHOOSE k \in same : \A j \in same : k <= j]
  IN  IF same = {}
        THEN Write(KeepVTable(f), f.result, LittleEndian(Size(f) - f.result, 4))
        ELSE Write(Pop(f, Size(f) - f.result), f.result, LittleEndian(old - f.result, 4))

FindVTable(f, vtable) ==
  ShareVTable(f, {k \in DOMAIN f.vtables : f.dedup /\ SameVTable(f, f.vtables[k], vtable)})

AddVTable(f, vtable, start) == FindVTable(PushVTable(f, vtable, start), vtable)

\* With the distance to the vtable pushed, the vtable follows.
EndFields(f, start) ==
  AddVTable(f, VTableBytes(f, IF f.maxv + 2 > 4 THEN f.maxv + 2 ELSE 4, start), start)

EndTable(f, start) ==
  [EndFields(PushElement(Asserting(f, f.nested), Zeros(4)), start) EXCEPT !.nested = FALSE]

\* The assertion that the fields are there that are required.
CheckRequired(f, table) ==
  Asserting(f, \A i \in DOMAIN table.fields :
    table.fields[i].required => Holds(f.bytes, Size(f) - f.result, i))

\* Field number i, a scalar or an offset.
AddField(f, i, field, arg) ==
  LET bytes(n) == LittleEndian(n, SizeOf[field.type])
  IN  IF IsScalar(field) THEN AddElement(f, VT(i), bytes(arg), bytes(Default(field)))
      ELSE AddOffset(f, VT(i), arg)

\* The fields in the order of adds.
AddFields(f, table, args) ==
  LET added[n \in 0 .. Len(table.adds)] ==
        IF n = 0 THEN f
        ELSE LET i == table.adds[n] IN AddField(added[n - 1], i, table.fields[i], args[i])
  IN  added[Len(table.adds)]

\* Create...: StartTable, the fields, EndTable.
CreateTable(f, table, args) ==
  CheckRequired(EndTable(AddFields(StartTable(f), table, args), Size(f)), table)

------------------------------------------------------------------------------
(* Finish.                                                                  *)

\* The distance to the root, and before it the size of all, if it is to be there.
PutSize(f) == PushElement(f, LittleEndian(Size(f), 4))
PutRoot(f, root, prefixed) ==
  IF prefixed THEN PutSize(PushOffset(f, root)) ELSE PushOffset(f, root)

\* The buffer is aligned as if it began with the root's distance.
BadFinishBuffer(f, root, identifier, prefixed) ==
  LET g == [NotNested(Asserting(f, ~f.finished)) EXCEPT !.vtables = <<>>]
      h == PreAlign(g, 4, g.minalign)
  IN  [PutRoot(Push(h, identifier), root, prefixed) EXCEPT !.finished = TRUE]
\* The scratch pad is given up and the buffer is aligned as a whole, with the
\* identifier, which may be empty, and the size.
FinishBuffer(f, root, identifier, prefixed) ==
  LET size == IF prefixed THEN 4 ELSE 0
      g == TrackMinAlign([NotNested(Asserting(f, ~f.finished)) EXCEPT !.vtables = <<>>], size)
      h == PreAlign(g, size + 4 + Len(identifier), g.minalign)
  IN  [PutRoot(Push(h, identifier), root, prefixed) EXCEPT !.finished = TRUE]

------------------------------------------------------------------------------
(* A builder for another buffer.                                            *)

\* What it has been told of defaults and vtables remains.
Clear(f) ==
  [ClearBuffer(ClearOffsets(f)) EXCEPT
     !.nested = FALSE, !.finished = FALSE, !.minalign = 1, !.pool = {}, !.result = 0]

Reset(f) == GiveAway(Clear(f))

\* Release and ReleaseRaw, of a buffer that is finished.
Release(f) == Clear(GiveAway(Asserting(f, f.finished)))
===============================================================================
