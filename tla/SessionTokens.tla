---------------------------- MODULE SessionTokens ----------------------------
(***************************************************************************)
(* Session tokens: a UUID from the operating system, as 36 characters; or  *)
(* the empty string when there is none to be had.  The server's tables,    *)
(* and the client, know a session by nothing else.                         *)
(***************************************************************************)
EXTENDS Naturals, Sequences

CONSTANT Uuids  \* what UuidCreate returns

\* Members of 32, 16 and 8 bits.
Word == 0 .. 65535
HighWord(n) == n \div 65536
Long == {n \in Nat : HighWord(n) \in Word}
UUID == [Data1 : Long, Data2 : Word, Data3 : Word, Data4 : [1 .. 8 -> 0 .. 255]]
ASSUME UuidsAssumption == Uuids \subseteq UUID

\* std::hex and std::uppercase.
HexDigit(n) == IF n < 10 THEN 48 + n ELSE 55 + n
Unit == <<1, 16, 256, 4096, 65536, 1048576, 16777216, 268435456>>
Digits(n, width) == [k \in 1 .. width |-> HexDigit((n \div Unit[width - k + 1]) % 16)]

\* The width is set once for all, but holds for the next output only.
BadHex(n, width) ==
  LET zeros == {k \in 1 .. width - 1 : \A j \in 1 .. k : Digits(n, width)[j] = 48}
  IN  SubSeq(Digits(n, width), 1 + (IF zeros = {} THEN 0 ELSE CHOOSE k \in zeros : k + 1 \notin zeros), width)
\* setw, and setfill with 0, for a number that has no more digits than that.
Hex(n, width) == Digits(n, width)

Dash == <<45>>

UuidToString(u) ==
  LET byte(k) == Hex(u.Data4[k], 2)
  IN  Hex(u.Data1, 8) \o Dash \o Hex(u.Data2, 4) \o Dash \o Hex(u.Data3, 4) \o Dash
        \o byte(1) \o byte(2) \o Dash
        \o byte(3) \o byte(4) \o byte(5) \o byte(6) \o byte(7) \o byte(8)

\* What GenerateSessionToken may return.
SessionTokens == {UuidToString(u) : u \in Uuids} \cup {<<>>}
===============================================================================
