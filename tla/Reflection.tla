------------------------------ MODULE Reflection ------------------------------
(***************************************************************************)
(* Schemas as data: the tables of reflection_generated.h, in which a tool  *)
(* gets LoginProtocol.fbs or any other schema as a buffer of its own, and  *)
(* the keys by which their vectors are sorted.  It is the library's        *)
(* description of what Protocol describes for the messages; SchemaReading  *)
(* reads it.                                                               *)
(***************************************************************************)
EXTENDS Protocol

Defaulted(type, name, n) ==
  [type |-> type, name |-> name, required |-> FALSE, default |-> n]
TableOf(of, name) == [type |-> "table", of |-> of, name |-> name, required |-> FALSE]
VectorOf(of, name) == [type |-> "vector", of |-> of, name |-> name, required |-> FALSE]
Must(f) == [f EXCEPT !.required = TRUE]

\* Fields that most tables have.
Attributes == VectorOf("KeyValue", "attributes")
Documentation == VectorOf("string", "documentation")
DeclarationFile == Field("string", "declaration_file")
Name == Required("string", "name")

BaseTypes ==
  <<"None", "UType", "Bool", "Byte", "UByte", "Short", "UShort", "Int", "UInt", "Long",
    "ULong", "Float", "Double", "String", "Vector", "Obj", "Union", "Array", "Vector64">>
BaseType(name) == (CHOOSE i \in DOMAIN BaseTypes : BaseTypes[i] = name) - 1

AdvancedFeatures ==
  [AdvancedArrayFeatures |-> 1, AdvancedUnionFeatures |-> 2, OptionalScalars |-> 4,
   DefaultVectorsAndStrings |-> 8]

reflection_Type ==
  [fields |-> <<Field("byte", "base_type"), Field("byte", "element"),
                Defaulted("int", "index", -1), Field("ushort", "fixed_length"),
                Defaulted("uint", "base_size", 4), Field("uint", "element_size")>>,
   adds |-> <<6, 5, 3, 4, 2, 1>>]

reflection_KeyValue ==
  [fields |-> <<Required("string", "key"), Field("string", "value")>>, adds |-> <<2, 1>>]

\* The third field is deprecated: it has a number, and nothing else.
reflection_EnumVal ==
  [fields |-> <<Name, Field("long", "value"), Field("deprecated", "object"),
                TableOf("Type", "union_type"), Documentation, Attributes>>,
   adds |-> <<2, 6, 5, 4, 1>>]

reflection_Enum ==
  [fields |-> <<Name, Must(VectorOf("EnumVal", "values")), Field("ubyte", "is_union"),
                Must(TableOf("Type", "underlying_type")), Attributes, Documentation,
                DeclarationFile>>,
   adds |-> <<7, 6, 5, 4, 2, 1, 3>>]

FieldFields ==
  <<Name, Must(TableOf("Type", "type")), Field("ushort", "id"), Field("ushort", "offset"),
    Field("long", "default_integer"), Field("double", "default_real"),
    Field("ubyte", "deprecated"), Field("ubyte", "required"), Field("ubyte", "key"),
    Attributes, Documentation, Field("ubyte", "optional"), Field("ushort", "padding"),
    Field("ubyte", "offset64")>>
reflection_Field ==
  [fields |-> FieldFields, adds |-> <<6, 5, 11, 10, 2, 1, 13, 4, 3, 14, 12, 9, 8, 7>>]

ObjectFields ==
  <<Name, Must(VectorOf("Field", "fields")), Field("ubyte", "is_struct"),
    Field("int", "minalign"), Field("int", "bytesize"), Attributes, Documentation,
    DeclarationFile>>
reflection_Object ==
  [fields |-> ObjectFields, adds |-> <<8, 7, 6, 5, 4, 2, 1, 3>>]

reflection_RPCCall ==
  [fields |-> <<Name, Must(TableOf("Object", "request")), Must(TableOf("Object", "response")),
                Attributes, Documentation>>,
   adds |-> <<5, 4, 3, 2, 1>>]

reflection_Service ==
  [fields |-> <<Name, VectorOf("RPCCall", "calls"), Attributes, Documentation,
                DeclarationFile>>,
   adds |-> <<5, 4, 3, 2, 1>>]

reflection_SchemaFile ==
  [fields |-> <<Required("string", "filename"), VectorOf("string", "included_filenames")>>,
   adds |-> <<2, 1>>]

reflection_Schema ==
  [fields |-> <<Must(VectorOf("Object", "objects")), Must(VectorOf("Enum", "enums")),
                Field("string", "file_ident"), Field("string", "file_ext"),
                TableOf("Object", "root_table"), VectorOf("Service", "services"),
                Field("ulong", "advanced_features"), VectorOf("SchemaFile", "fbs_files")>>,
   adds |-> <<7, 8, 6, 5, 4, 3, 2, 1>>]

Reflected ==
  [Type |-> reflection_Type, KeyValue |-> reflection_KeyValue,
   EnumVal |-> reflection_EnumVal, Enum |-> reflection_Enum, Field |-> reflection_Field,
   Object |-> reflection_Object, RPCCall |-> reflection_RPCCall,
   Service |-> reflection_Service, SchemaFile |-> reflection_SchemaFile,
   Schema |-> reflection_Schema]
ReflectedFields(table) == Reflected[table].fields

------------------------------------------------------------------------------
(* Scalars and keys.  An EnumVal has its value for key, the others the first *)
(* field.                                                                   *)

\* A number that fits into 32 bits with its sign, from as many bytes.
NumberAt(b, p, type) ==
  CASE type \in {"ubyte", "byte"} -> U8(b, p)
    [] type = "ushort" -> U16(b, p)
    [] OTHER -> I32(b, p)

GetField(b, t, i, f) ==
  IF Holds(b, t, i) THEN NumberAt(b, t + FieldOffset(b, t, i), f.type) ELSE Default(f)

\* StringLessThan: memcmp of what both have, then the shorter one first.
StringLessThan(a, c) ==
  LET differ == {i \in DOMAIN a \cap DOMAIN c : a[i] # c[i]}
  IN  \/ differ = {} /\ Len(a) < Len(c)
      \/ \E i \in differ : (\A j \in differ : i <= j) /\ a[i] < c[i]

KeyOf(b, table, t) ==
  IF table = "EnumVal" THEN GetField(b, t, 2, reflection_EnumVal.fields[2])
  ELSE StringValue(b, Pointer(b, t, 1))

KeyCompareLessThan(b, table, t, u) ==
  IF table = "EnumVal" THEN KeyOf(b, table, t) < KeyOf(b, table, u)
  ELSE StringLessThan(KeyOf(b, table, t), KeyOf(b, table, u))
===============================================================================
