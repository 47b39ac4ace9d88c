----------------------------- MODULE MCMessages -----------------------------
EXTENDS SchemaFiles

\* Strings of 0, 1, 3 (one character) and 4 bytes: with their length, aligned or not.
Strings == {<<>>, <<65>>, <<234, 185, 128>>, <<67, 68, 65, 66>>}

User(u, n, s) == [user_id |-> u, nickname |-> n, state |-> s]

\* Two states, strings of which one is empty, and equal ones.
Users == {User(<<65>>, <<234, 185, 128>>, "Lobby"), User(<<66>>, <<>>, "Ready"),
          User(<<65, 66, 67, 68>>, <<65>>, "Ready")}

\* The two differ in where a 0 is.
Uuid(byte1, byte2) ==
  [Data1 |-> 305419896, Data2 |-> 0, Data3 |-> 16563,
   Data4 |-> <<byte1, byte2, 0, 255, 10, 160, 7, 112>>]
Created == {Uuid(1, 17), Uuid(17, 1)}

------------------------------------------------------------------------------
(* A part of LoginProtocol.fbs, with attributes, documentation and a service, *)
(* which it does not have.  Names are short: one is the beginning of another. *)

A == <<65>>
AB == <<65, 66>>
B == <<66>>
C == <<67, 200>>

Scalar(base, size) == <<BaseType(base), 0, -1, 0, size, 0>>
Of1(base, element, index) == <<BaseType(base), BaseType(element), index, 0, 4, 4>>
Attribute(k, v) == <<<<k>>, v>>
Some == <<<<Attribute(B, <<A>>), Attribute(A, <<>>)>>>>

FieldOf(name, type, id, default, real, flag, attributes) ==
  <<<<name>>, <<type>>, id, VT(id + 1) + 2, default, real, flag, 0, flag, attributes, <<>>, 0, id, 0>>

Player1 == <<<<AB>>, <<<<FieldOf(B, Scalar("UByte", 1), 2, 1, 0, 0, <<>>),
                         FieldOf(A, Of1("String", "None", -1), 0, -7, 3, 1, Some)>>>>,
             0, 1, 0, Some, <<<<A, <<>>>>>>, <<C>>>>
Envelope == <<<<A>>, <<<<FieldOf(AB, Scalar("ULong", 8), 0, 9, 0, 0, <<>>)>>>>, 0, 1, -3,
              <<>>, <<>>, <<>>>>
Empty == <<<<C>>, <<<<>>>>, 1, 0, 0, <<>>, <<>>, <<C>>>>

State == <<<<B>>, <<<<<<<<B>>, 1, <<>>, <<>>, <<>>, <<>>>>,
                     <<<<A>>, -1, <<>>, <<Of1("Obj", "None", 0)>>, <<<<C, A>>>>, Some>>,
                     <<<<C>>, 0, <<>>, <<>>, <<>>, <<>>>>>>>>, 1, <<Scalar("UByte", 1)>>,
           <<>>, <<>>, <<C>>>>
Code == <<<<A>>, <<<<>>>>, 0, <<Scalar("Int", 4)>>, <<>>, <<<<A>>>>, <<>>>>

Call1(n, q, r) == <<<<n>>, <<q>>, <<r>>, Some, <<>>>>
Lobby == <<<<A>>, <<<<Call1(C, 1, 2), Call1(A, 2, 2)>>>>, <<>>, <<>>, <<C>>>>

File(name, included) == <<<<name>>, included>>

Permuted(s) == {[k \in DOMAIN s |-> s[p[k]]] : p \in {q \in [DOMAIN s -> DOMAIN s] :
                  \A i, j \in DOMAIN s : q[i] = q[j] => i = j}}

Value(objects, enums, services, files) ==
  <<<<objects>>, <<enums>>, <<<<>>>>, <<A>>, <<1>>, services,
    AdvancedFeatures.OptionalScalars, files>>

Values ==
  {Value(o, e, s, <<<<File(C, <<>>), File(A, <<<<C, AB>>>>)>>>>) :
     o \in Permuted(<<Player1, Envelope, Empty>>), e \in Permuted(<<State, Code>>),
     s \in {<<>>, <<<<Lobby>>>>}}

Whole == Value(<<Player1, Envelope, Empty>>, <<State, Code>>, <<<<Lobby>>>>,
               <<<<File(C, <<>>), File(A, <<<<C, AB>>>>)>>>>)

\* Every order of tables and enumerations; and one of them in every way.
Written ==
  [value : Values, strings : {"single", "shared", "vectors"}, prefixed : BOOLEAN,
   force : {FALSE}, dedup : {TRUE}, reuse : {"no"}]
  \cup
  [value : {Whole}, strings : {"shared", "vectors"}, prefixed : {FALSE},
   force : BOOLEAN, dedup : BOOLEAN, reuse : {"Clear", "Reset", "Release"}]
=============================================================================
