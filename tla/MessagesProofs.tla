---------------------------- MODULE MessagesProofs ----------------------------
(***************************************************************************)
(* Theorems about Messages and, on the way, about Builder: whatever a       *)
(* message is composed of, however the memory grows and whichever tables    *)
(* share what describes them, no assertion of the library fails, the bytes  *)
(* pass the verifier, and the handler reads from them what the sender has   *)
(* put in.                                                                  *)
(*                                                                         *)
(* A recursive function of the models is what its steps make of its start:  *)
(* Induction and Along take an invariant of the steps, as a set, to its     *)
(* value.  SenderInv says of the sender's buffer where each string, vector  *)
(* and table that has been made lies in it, and ReadInv what the receiver   *)
(* has read of it and what it has yet to read.                              *)
(***************************************************************************)
EXTENDS Messages, ReaderProofs, WellFoundedInduction, FiniteSetTheorems

------------------------------------------------------------------------------
------------------------------------------------------------------------------
(* Induction.                                                               *)

LEMMA LeastNat ==
  ASSUME NEW S, S \subseteq Nat, S # {}
  PROVE  \E n \in S : \A m \in S : n <= m
<1>1. PICK n \in S : \A m \in S : ~(<<m, n>> \in OpToRel(<, Nat))
  BY NatLessThanWellFounded, WFMin
<1>2. \A m \in S : ~(m < n)
  BY <1>1 DEF OpToRel
<1> QED
  BY <1>2

LEMMA Induction ==
  ASSUME NEW S, 0 \in S, \A n \in Nat : n \in S => n + 1 \in S
  PROVE  Nat \subseteq S
<1> SUFFICES ASSUME Nat \ S # {} PROVE FALSE
  OBVIOUS
<1>1. PICK n \in Nat \ S : \A m \in Nat \ S : n <= m
  BY LeastNat
<1>2. n # 0 /\ n - 1 \in Nat
  BY <1>1
<1>3. n - 1 \in S
  BY <1>1, <1>2
<1>4. (n - 1) + 1 \in S
  BY <1>2, <1>3
<1> QED
  BY <1>1, <1>4

\* What holds at first, and of each value if it holds of the one before, holds of all.
LEMMA Along ==
  ASSUME NEW N \in Nat, NEW P, NEW r, r[0] \in P[0],
         \A n \in 1 .. N : r[n - 1] \in P[n - 1] => r[n] \in P[n]
  PROVE  \A n \in 0 .. N : r[n] \in P[n]
<1> DEFINE T == {n \in Nat : n <= N => r[n] \in P[n]}
<1>1. 0 \in T
  OBVIOUS
<1>2. ASSUME NEW n \in Nat, n \in T PROVE n + 1 \in T
  <2> SUFFICES ASSUME n + 1 <= N PROVE r[n + 1] \in P[n + 1]
    OBVIOUS
  <2>1. n + 1 \in 1 .. N /\ (n + 1) - 1 = n
    OBVIOUS
  <2>2. r[n] \in P[n]
    BY <1>2
  <2> QED
    BY <2>1, <2>2
<1> HIDE DEF T
<1>3. Nat \subseteq T
  BY <1>1, <1>2, Induction
<1> QED
  BY <1>3 DEF T

\* A function that is defined step by step exists, if its values stay where the
\* next step is defined.
Steps(N, U, P, base, step) ==
  /\ N \in Nat /\ base \in P[0]
  /\ \A n \in 0 .. N : P[n] \subseteq U
  /\ \A n \in 1 .. N : \A x \in P[n - 1] : step[<<x, n>>] \in P[n]

LEMMA Recursion ==
  ASSUME NEW N, NEW U, NEW P, NEW base, NEW step, Steps(N, U, P, base, step)
  PROVE  \E g \in [0 .. N -> U] :
           g[0] = base /\ \A n \in 1 .. N : g[n] = step[<<g[n - 1], n>>]
<1> USE DEF Steps
<1> DEFINE Up(m, g) == g[0] = base /\ g[m] \in P[m]
                       /\ \A n \in 1 .. m : g[n] = step[<<g[n - 1], n>>]
           T == {m \in Nat : m <= N => \E g \in [0 .. m -> U] : Up(m, g)}
<1>1. 0 \in T
  <2> DEFINE g == [n \in 0 .. 0 |-> base]
  <2>1. g \in [0 .. 0 -> U] /\ Up(0, g)
    OBVIOUS
  <2> QED
    BY <2>1
<1>2. ASSUME NEW m \in Nat, m \in T PROVE m + 1 \in T
  <2> SUFFICES ASSUME m + 1 <= N PROVE \E g \in [0 .. m + 1 -> U] : Up(m + 1, g)
    OBVIOUS
  <2>1. PICK g \in [0 .. m -> U] : Up(m, g)
    BY <1>2
  <2> DEFINE h == [n \in 0 .. m + 1 |-> IF n = m + 1 THEN step[<<g[m], m + 1>>] ELSE g[n]]
  <2>2. step[<<g[m], m + 1>>] \in P[m + 1] /\ m + 1 \in 0 .. N
    <3>1. m + 1 \in 1 .. N /\ (m + 1) - 1 = m /\ m + 1 \in 0 .. N
      OBVIOUS
    <3>2. g[m] \in P[m]
      BY <2>1
    <3> QED
      BY <3>1, <3>2
  <2>3. h \in [0 .. m + 1 -> U] /\ h[m + 1] \in P[m + 1]
    <3>1. step[<<g[m], m + 1>>] \in U
      BY <2>2
    <3> QED
      BY <2>2, <3>1
  <2>4. h[0] = base
    BY <2>1
  <2>5. ASSUME NEW n \in 1 .. m + 1 PROVE h[n] = step[<<h[n - 1], n>>]
    <3>1. h[n - 1] = g[n - 1]
      OBVIOUS
    <3>2. CASE n = m + 1
      <4>1. h[n] = step[<<g[m], m + 1>>] /\ n - 1 = m
        BY <3>2
      <4> HIDE DEF h
      <4>2. step[<<h[n - 1], n>>] = step[<<g[m], m + 1>>]
        BY <3>1, <3>2, <4>1, Zenon
      <4> QED
        BY <4>1, <4>2
    <3>3. CASE n # m + 1
      <4>1. n \in 1 .. m
        BY <3>3
      <4>2. h[n] = g[n]
        BY <4>1
      <4>3. g[n] = step[<<g[n - 1], n>>]
        BY <2>1, <4>1
      <4> HIDE DEF h
      <4> QED
        BY <3>1, <4>2, <4>3
    <3> QED
      BY <3>2, <3>3
  <2> HIDE DEF h
  <2> QED
    BY <2>3, <2>4, <2>5
<1> HIDE DEF T
<1>3. N \in T
  BY <1>1, <1>2, Induction
<1> QED
  BY <1>3 DEF T

------------------------------------------------------------------------------
(* Bytes.                                                                   *)

LEMMA Quarter ==
  ASSUME NEW n \in Int
  PROVE  /\ n % 256 \in 0 .. 255 /\ (n \div 256) % 256 \in 0 .. 255
         /\ (n \div 65536) % 256 \in 0 .. 255 /\ (n \div 16777216) % 256 \in 0 .. 255
<1>1. \A m \in Int : m % 256 \in 0 .. 255
  BY SMT
<1>2. n \div 256 \in Int /\ n \div 65536 \in Int /\ n \div 16777216 \in Int
  BY SMT
<1> QED
  BY <1>1, <1>2

LEMMA LittleEndianType ==
  ASSUME NEW n \in Int, NEW w \in Nat
  PROVE  /\ LittleEndian(n, w) \in [1 .. w -> Byte]
         /\ LittleEndian(n, w) \in Seq(Byte)
         /\ Len(LittleEndian(n, w)) = w
<1> DEFINE byte(k) == CASE k = 1 -> n % 256
                        [] k = 2 -> (n \div 256) % 256
                        [] k = 3 -> (n \div 65536) % 256
                        [] k = 4 -> (n \div 16777216) % 256
                        [] OTHER -> IF n < 0 THEN 255 ELSE 0
<1>1. ASSUME NEW k \in 1 .. w PROVE byte(k) \in Byte
  <2>1. k \in Nat
    OBVIOUS
  <2>2. CASE k = 1
    BY <2>2, Quarter, SMT DEF Byte
  <2>3. CASE k = 2
    BY <2>3, Quarter, SMT DEF Byte
  <2>4. CASE k = 3
    BY <2>4, Quarter, SMT DEF Byte
  <2>5. CASE k = 4
    BY <2>5, Quarter, SMT DEF Byte
  <2>6. CASE k \notin {1, 2, 3, 4}
    BY <2>1, <2>6, SMT DEF Byte
  <2> HIDE DEF byte
  <2> QED
    BY <2>2, <2>3, <2>4, <2>5, <2>6
<1>2. LittleEndian(n, w) = [k \in 1 .. w |-> byte(k)]
  BY SMT DEF LittleEndian
<1> HIDE DEF byte
<1>3. LittleEndian(n, w) \in [1 .. w -> Byte]
  BY <1>1, <1>2
<1> QED
  BY <1>3

LEMMA LittleEndianByte ==
  ASSUME NEW n \in Int, NEW w \in Nat
  PROVE  /\ w >= 1 => LittleEndian(n, w)[1] = n % 256
         /\ w >= 2 => LittleEndian(n, w)[2] = (n \div 256) % 256
         /\ w >= 3 => LittleEndian(n, w)[3] = (n \div 65536) % 256
         /\ w >= 4 => LittleEndian(n, w)[4] = (n \div 16777216) % 256
BY SMT DEF LittleEndian

\* A number is its last byte and the rest.
LEMMA LastByte ==
  ASSUME NEW n \in Int
  PROVE  \E q \in Int, r \in Int :
           /\ q = n \div 256 /\ r = n % 256 /\ n = 256 * q + r
           /\ 0 <= r /\ r < 256
<1>1. n = 256 * (n \div 256) + (n % 256)
  BY SMT
<1>2. n % 256 \in Int /\ n \div 256 \in Int /\ 0 <= n % 256 /\ n % 256 < 256
  BY SMT
<1> QED
  BY <1>1, <1>2, Zenon

LEMMA LastByteOnly ==
  ASSUME NEW q \in Int, 0 <= q, q < 256
  PROVE  q % 256 = q
BY SMT

Unsigned16(n) == n \in Nat /\ n < 256 * 256

LEMMA HighByte ==
  ASSUME NEW n, NEW q \in Int, NEW r \in Int, n = 256 * q + r, 0 <= r, r < 256, Unsigned16(n)
  PROVE  0 <= q /\ q < 256
BY SMT DEF Unsigned16

\* Sixteen bits come back as they were stored.
LEMMA Stored16 ==
  ASSUME NEW n, Unsigned16(n)
  PROVE  LittleEndian(n, 2)[1] + 256 * LittleEndian(n, 2)[2] = n
<1>1. n \in Int
  BY DEF Unsigned16
<1>2. PICK q \in Int, r \in Int :
        /\ q = n \div 256 /\ r = n % 256 /\ n = 256 * q + r
        /\ 0 <= r /\ r < 256
  BY <1>1, LastByte, Zenon
<1>3. LittleEndian(n, 2)[1] = r /\ LittleEndian(n, 2)[2] = q % 256
  BY <1>1, <1>2, LittleEndianByte, SMT
<1>4. q % 256 = q
  <2>1. 0 <= q /\ q < 256
    BY <1>2, HighByte, Zenon
  <2> QED
    BY <2>1, LastByteOnly
<1>5. LittleEndian(n, 2)[1] + 256 * LittleEndian(n, 2)[2] = r + 256 * q
  BY <1>3, <1>4, Zenon
<1>6. r + 256 * q = n
  BY <1>2
<1> QED
  BY <1>5, <1>6, Zenon

Signed32(n) == n \in Int /\ n <= MaxSize /\ 0 <= n + MaxSize + 1

\* A byte of a number with a sign is one of the rest.
LEMMA Halves ==
  ASSUME NEW n \in Int
  PROVE  n \div 65536 = (n \div 256) \div 256 /\ n \div 16777216 = (n \div 65536) \div 256
BY SMT

LEMMA SignedTop ==
  ASSUME NEW t \in Int, 0 <= t + 128, t < 128
  PROVE  (IF t % 256 < 128 THEN t % 256 ELSE (t % 256) - 256) = t
BY SMT

\* So do 32 bits with their sign.
LEMMA Stored32 ==
  ASSUME NEW n, Signed32(n)
  PROVE  LET s == LittleEndian(n, 4)
         IN  s[1] + 256 * (s[2] + 256 * (s[3] + 256 *
               (IF s[4] < 128 THEN s[4] ELSE s[4] - 256))) = n
<1> DEFINE s == LittleEndian(n, 4)
<1>1. n \in Int
  BY DEF Signed32
<1>2. PICK q \in Int, x \in Int :
        q = n \div 256 /\ x = n % 256 /\ n = 256 * q + x /\ 0 <= x /\ x < 256
  BY <1>1, LastByte, Zenon
<1>3. PICK r \in Int, y \in Int :
        r = q \div 256 /\ y = q % 256 /\ q = 256 * r + y /\ 0 <= y /\ y < 256
  BY LastByte, Zenon
<1>4. PICK t \in Int, z \in Int :
        t = r \div 256 /\ z = r % 256 /\ r = 256 * t + z /\ 0 <= z /\ z < 256
  BY LastByte, Zenon
<1>5. s[1] = x /\ s[2] = y /\ s[3] = z /\ s[4] = t % 256
  <2>1. /\ s[1] = n % 256 /\ s[2] = (n \div 256) % 256
        /\ s[3] = (n \div 65536) % 256 /\ s[4] = (n \div 16777216) % 256
    BY <1>1, LittleEndianByte, SMT
  <2>2. n \div 65536 = r /\ n \div 16777216 = t
    BY <1>1, <1>2, <1>3, <1>4, Halves, SMT
  <2> QED
    BY <1>2, <1>3, <1>4, <2>1, <2>2, SMT
<1>6. 0 <= t + 128 /\ t < 128
  <2>1. /\ n = 256 * q + x /\ q = 256 * r + y /\ r = 256 * t + z
        /\ 0 <= x /\ x < 256 /\ 0 <= y /\ y < 256 /\ 0 <= z /\ z < 256
    BY <1>2, <1>3, <1>4, Zenon
  <2>2. n < 2147483648 /\ n + 2147483648 >= 0
    BY SMT DEF Signed32, MaxSize
  <2>3. t < 128
    BY <1>1, <2>1, <2>2, SMT
  <2>4. 0 <= t + 128
    BY <1>1, <2>1, <2>2, SMT
  <2> QED
    BY <2>3, <2>4
<1>7. (IF t % 256 < 128 THEN t % 256 ELSE (t % 256) - 256) = t
  BY <1>6, SignedTop
<1> HIDE DEF s
<1> DEFINE Top(k) == IF k < 128 THEN k ELSE k - 256
           Sum(i, j, k, l) == i + 256 * (j + 256 * (k + 256 * l))
<1>8. Top(t % 256) = t
  BY <1>7
<1>9. Sum(x, y, z, t) = n
  BY <1>2, <1>3, <1>4, SMT
<1> HIDE DEF Top, Sum
<1>10. Sum(s[1], s[2], s[3], Top(s[4])) = n
  BY <1>5, <1>8, <1>9
<1> QED
  BY <1>10 DEF s, Top, Sum

------------------------------------------------------------------------------
(* A buffer grows at its beginning, and what is at a distance from its end  *)
(* stays.                                                                   *)

EndsWith(c, b) ==
  /\ c \in Seq(Byte) /\ b \in Seq(Byte)
  /\ Len(b) <= Len(c)
  /\ \A d \in 1 .. Len(b) : c[Len(c) - d + 1] = b[Len(b) - d + 1]

LEMMA EndsWithItself ==
  ASSUME NEW b \in Seq(Byte)
  PROVE  EndsWith(b, b)
BY DEF EndsWith

LEMMA EndsWithTransitive ==
  ASSUME NEW a, NEW b, NEW c, EndsWith(b, a), EndsWith(c, b)
  PROVE  EndsWith(c, a)
BY DEF EndsWith

LEMMA Prepended ==
  ASSUME NEW b \in Seq(Byte), NEW s \in Seq(Byte)
  PROVE  /\ s \o b \in Seq(Byte) /\ Len(s \o b) = Len(s) + Len(b)
         /\ EndsWith(s \o b, b)
         /\ \A k \in 1 .. Len(s) : (s \o b)[k] = s[k]
BY DEF EndsWith

LEMMA AtStays ==
  ASSUME NEW b, NEW c, EndsWith(c, b), NEW d \in 1 .. Len(b)
  PROVE  /\ At(c, Len(c) - d) = At(b, Len(b) - d)
         /\ At(b, Len(b) - d) \in Byte
         /\ At(b, Len(b) - d) = b[Len(b) - d + 1]
<1>1. Len(b) \in Nat /\ Len(c) \in Nat /\ Len(b) <= Len(c)
  BY DEF EndsWith
<1>2. Len(b) - d \in Places(b) /\ Len(c) - d \in Places(c)
  BY <1>1 DEF Places
<1>3. Len(b) - d + 1 \in 1 .. Len(b)
  BY <1>1
<1>4. At(b, Len(b) - d) = b[Len(b) - d + 1] /\ At(c, Len(c) - d) = c[Len(c) - d + 1]
  BY <1>2, Zenon DEF At
<1>5. b[Len(b) - d + 1] \in Byte
  BY <1>3 DEF EndsWith
<1> QED
  BY <1>4, <1>5 DEF EndsWith

LEMMA U16Stays ==
  ASSUME NEW b, NEW c, EndsWith(c, b), NEW d \in 2 .. Len(b)
  PROVE  U16(c, Len(c) - d) = U16(b, Len(b) - d)
<1>1. Len(b) \in Nat /\ Len(c) \in Nat /\ d - 1 \in 1 .. Len(b) /\ d \in 1 .. Len(b)
  BY DEF EndsWith
<1>2. Len(b) - (d - 1) = Len(b) - d + 1 /\ Len(c) - (d - 1) = Len(c) - d + 1
  BY <1>1
<1>3. At(c, Len(c) - d + 1) = At(b, Len(b) - d + 1)
  BY <1>1, <1>2, AtStays
<1> QED
  BY <1>1, <1>3, AtStays DEF U16

LEMMA I32Stays ==
  ASSUME NEW b, NEW c, EndsWith(c, b), NEW d \in 4 .. Len(b)
  PROVE  I32(c, Len(c) - d) = I32(b, Len(b) - d)
<1>1. /\ Len(b) \in Nat /\ Len(c) \in Nat
      /\ d \in 1 .. Len(b) /\ d - 1 \in 1 .. Len(b) /\ d - 2 \in 1 .. Len(b) /\ d - 3 \in 1 .. Len(b)
  BY DEF EndsWith
<1>2. /\ Len(b) - (d - 1) = Len(b) - d + 1 /\ Len(c) - (d - 1) = Len(c) - d + 1
      /\ Len(b) - (d - 2) = Len(b) - d + 2 /\ Len(c) - (d - 2) = Len(c) - d + 2
      /\ Len(b) - (d - 3) = Len(b) - d + 3 /\ Len(c) - (d - 3) = Len(c) - d + 3
  BY <1>1
<1>3. /\ At(c, Len(c) - d) = At(b, Len(b) - d)
      /\ At(c, Len(c) - (d - 1)) = At(b, Len(b) - (d - 1))
      /\ At(c, Len(c) - (d - 2)) = At(b, Len(b) - (d - 2))
      /\ At(c, Len(c) - (d - 3)) = At(b, Len(b) - (d - 3))
  BY <1>1, AtStays, Zenon
<1>4. /\ At(c, Len(c) - d + 1) = At(b, Len(b) - d + 1)
      /\ At(c, Len(c) - d + 2) = At(b, Len(b) - d + 2)
      /\ At(c, Len(c) - d + 3) = At(b, Len(b) - d + 3)
  BY <1>2, <1>3, Zenon
<1> QED
  BY <1>3, <1>4, Zenon DEF I32

\* What stands at a distance from the end: the bytes s.
Stands(b, d, s) ==
  /\ Len(s) <= d /\ d <= Len(b)
  /\ \A k \in 1 .. Len(s) : b[Len(b) - d + k] = s[k]

LEMMA StandsAt ==
  ASSUME NEW b \in Seq(Byte), NEW d \in Nat, NEW s \in Seq(Byte), Stands(b, d, s),
         NEW k \in 1 .. Len(s)
  PROVE  At(b, Len(b) - d + k - 1) = s[k]
<1>1. Len(b) \in Nat /\ Len(s) \in Nat /\ Len(s) <= d /\ d <= Len(b)
  BY DEF Stands
<1>2. Len(b) - d + k - 1 \in Places(b) /\ (Len(b) - d + k - 1) + 1 = Len(b) - d + k
  BY <1>1 DEF Places
<1>3. At(b, Len(b) - d + k - 1) = b[Len(b) - d + k]
  BY <1>2, Zenon DEF At
<1> QED
  BY <1>3 DEF Stands

LEMMA StandsStays ==
  ASSUME NEW b, NEW c, EndsWith(c, b), NEW d \in Nat, NEW s \in Seq(Byte), Stands(b, d, s)
  PROVE  Stands(c, d, s)
<1>1. /\ Len(b) \in Nat /\ Len(c) \in Nat /\ Len(s) \in Nat /\ Len(b) <= Len(c)
      /\ Len(s) <= d /\ d <= Len(b)
  BY DEF Stands, EndsWith
<1>2. ASSUME NEW k \in 1 .. Len(s) PROVE c[Len(c) - d + k] = s[k]
  <2>1. d - k + 1 \in 1 .. Len(b)
    BY <1>1
  <2>2. c[Len(c) - (d - k + 1) + 1] = b[Len(b) - (d - k + 1) + 1]
    BY <2>1 DEF EndsWith
  <2>3. /\ Len(c) - (d - k + 1) + 1 = Len(c) - d + k
        /\ Len(b) - (d - k + 1) + 1 = Len(b) - d + k
    BY <1>1
  <2> QED
    BY <2>2, <2>3 DEF Stands
<1> QED
  BY <1>1, <1>2 DEF Stands

LEMMA StandsPrepended ==
  ASSUME NEW b \in Seq(Byte), NEW s \in Seq(Byte)
  PROVE  Stands(s \o b, Len(b) + Len(s), s)
BY DEF Stands

\* Reading back a number that stands somewhere.
LEMMA Read16 ==
  ASSUME NEW b \in Seq(Byte), NEW d \in Nat, NEW n, Unsigned16(n),
         Stands(b, d, LittleEndian(n, 2))
  PROVE  U16(b, Len(b) - d) = n
<1> DEFINE s == LittleEndian(n, 2)
<1>1. s \in Seq(Byte) /\ Len(s) = 2
  <2>1. n \in Int /\ 2 \in Nat
    BY DEF Unsigned16
  <2> QED
    BY <2>1, LittleEndianType, Zenon
<1>2. s[1] + 256 * s[2] = n
  BY Stored16, Zenon
<1> HIDE DEF s
<1>3. Stands(b, d, s)
  BY DEF s
<1>4. /\ At(b, Len(b) - d + 1 - 1) = s[1]
      /\ At(b, Len(b) - d + 2 - 1) = s[2]
  <2>1. 1 \in 1 .. Len(s) /\ 2 \in 1 .. Len(s)
    BY <1>1
  <2> QED
    BY <1>1, <1>3, <2>1, StandsAt, Zenon
<1>5. Len(b) - d + 1 - 1 = Len(b) - d /\ Len(b) - d + 2 - 1 = Len(b) - d + 1
  OBVIOUS
<1> QED
  BY <1>2, <1>4, <1>5 DEF U16

LEMMA Read32 ==
  ASSUME NEW b \in Seq(Byte), NEW d \in Nat, NEW n, Signed32(n),
         Stands(b, d, LittleEndian(n, 4))
  PROVE  I32(b, Len(b) - d) = n
<1> DEFINE s == LittleEndian(n, 4)
<1>1. s \in Seq(Byte) /\ Len(s) = 4
  <2>1. n \in Int /\ 4 \in Nat
    BY DEF Signed32
  <2> QED
    BY <2>1, LittleEndianType, Zenon
<1>2. s[1] + 256 * (s[2] + 256 * (s[3] + 256 *
         (IF s[4] < 128 THEN s[4] ELSE s[4] - 256))) = n
  BY Stored32
<1> HIDE DEF s
<1>3. Stands(b, d, s)
  BY DEF s
<1>4. /\ At(b, Len(b) - d + 1 - 1) = s[1]
      /\ At(b, Len(b) - d + 2 - 1) = s[2]
      /\ At(b, Len(b) - d + 3 - 1) = s[3]
      /\ At(b, Len(b) - d + 4 - 1) = s[4]
  <2>1. 1 \in 1 .. Len(s) /\ 2 \in 1 .. Len(s) /\ 3 \in 1 .. Len(s) /\ 4 \in 1 .. Len(s)
    BY <1>1
  <2> QED
    BY <1>1, <1>3, <2>1, StandsAt, Zenon
<1>5. /\ Len(b) - d + 1 - 1 = Len(b) - d /\ Len(b) - d + 2 - 1 = Len(b) - d + 1
      /\ Len(b) - d + 3 - 1 = Len(b) - d + 2 /\ Len(b) - d + 4 - 1 = Len(b) - d + 3
  OBVIOUS
<1>6. /\ At(b, Len(b) - d) = s[1] /\ At(b, Len(b) - d + 1) = s[2]
      /\ At(b, Len(b) - d + 2) = s[3] /\ At(b, Len(b) - d + 3) = s[4]
  BY <1>4, <1>5
<1>7. I32(b, Len(b) - d) = s[1] + 256 * (s[2] + 256 * (s[3] + 256 *
         (IF s[4] < 128 THEN s[4] ELSE s[4] - 256)))
  BY <1>6, SMT DEF I32
<1> QED
  BY <1>2, <1>7

------------------------------------------------------------------------------
(* A builder whose assertions have held so far.                             *)

Alignments == {1, 2, 4, 8}

Builders ==
  [bytes : Seq(Byte), reserved : Nat, fields : Seq([off : Nat, id : Nat]),
   vtables : Seq(Nat), offsets : Seq(Nat), maxv : Nat, minalign : Alignments,
   nested : BOOLEAN, finished : BOOLEAN, pool : SUBSET Nat, result : Nat,
   force : BOOLEAN, dedup : BOOLEAN, asserts : BOOLEAN]

Sound(f) ==
  /\ f \in Builders
  /\ Size(f) + ScratchSize(f) <= f.reserved
  /\ f.offsets = <<>> /\ f.force = FALSE /\ f.dedup = TRUE
  /\ f.asserts = TRUE

\* What a call that writes bytes leaves alone.
Frame(f, g) ==
  /\ g.fields = f.fields /\ g.vtables = f.vtables /\ g.maxv = f.maxv
  /\ g.nested = f.nested /\ g.finished = f.finished

LEMMA MaxSizeNat == MaxSize \in Nat
BY SMT DEF MaxSize

LEMMA SizeNat ==
  ASSUME NEW f, Sound(f)
  PROVE  /\ f.bytes \in Seq(Byte) /\ Size(f) = Len(f.bytes) /\ Size(f) \in Nat
         /\ ScratchSize(f) = 8 * Len(f.fields) + 4 * Len(f.vtables)
         /\ ScratchSize(f) \in Nat /\ f.reserved \in Nat /\ f.result \in Nat
         /\ f.minalign \in Alignments /\ f.maxv \in Nat
<1>1. f \in Builders /\ f.offsets = <<>>
  BY DEF Sound
<1>2. /\ f.bytes \in Seq(Byte) /\ f.fields \in Seq([off : Nat, id : Nat])
      /\ f.vtables \in Seq(Nat) /\ f.reserved \in Nat /\ f.result \in Nat
      /\ f.minalign \in Alignments /\ f.maxv \in Nat
  BY <1>1 DEF Builders
<1>3. Len(f.fields) \in Nat /\ Len(f.vtables) \in Nat /\ Len(f.bytes) \in Nat
  BY <1>2
<1>4. ScratchSize(f) = 8 * Len(f.fields) + 4 * Len(f.vtables)
  BY <1>1, <1>3 DEF ScratchSize
<1>5. \A m, n \in Nat : 8 * m + 4 * n \in Nat
  BY SMT
<1>6. Size(f) = Len(f.bytes)
  BY DEF Size
<1> QED
  BY <1>2, <1>3, <1>4, <1>5, <1>6

LEMMA GrowsEnough ==
  ASSUME NEW f, NEW n \in Nat, f.reserved \in Nat
  PROVE  Grown(f, n) \in Nat /\ f.reserved + n <= Grown(f, n)
<1> DEFINE half == IF f.reserved = 0 THEN InitialSize ELSE f.reserved \div 2
           more == IF n > half THEN n ELSE half
<1>1. half \in Nat
  BY InitialSizeAssumption, SMT
<1> HIDE DEF half
<1>2. more \in Nat /\ n <= more
  BY <1>1
<1> HIDE DEF more
<1>3. PICK r \in Nat : r = f.reserved
  OBVIOUS
<1>4. \A m \in Nat : ((m + 7) \div 8) * 8 \in Nat /\ m <= ((m + 7) \div 8) * 8
  BY SMT
<1>5. r + more \in Nat
  BY <1>2, <1>3
<1>6. Grown(f, n) = ((r + more + 7) \div 8) * 8
  BY <1>3, Zenon DEF Grown, half, more
<1>7. Grown(f, n) \in Nat /\ r + more <= Grown(f, n)
  BY <1>4, <1>5, <1>6
<1> QED
  BY <1>2, <1>3, <1>7

LEMMA Ensured ==
  ASSUME NEW f, Sound(f), NEW n \in Nat, Size(f) < MaxSize
  PROVE  \E r \in Nat : /\ EnsureSpace(f, n) = [f EXCEPT !.reserved = r]
                        /\ Size(f) + ScratchSize(f) + n <= r
<1> DEFINE r == IF n > f.reserved - Size(f) - ScratchSize(f) THEN Grown(f, n) ELSE f.reserved
<1>1. f.reserved \in Nat /\ Size(f) \in Nat /\ ScratchSize(f) \in Nat
  BY SizeNat
<1>2. r \in Nat /\ Size(f) + ScratchSize(f) + n <= r
  BY <1>1, GrowsEnough DEF Sound
<1>3. Asserting(f, Size(f) < MaxSize) = f
  BY DEF Asserting, Sound, Builders
<1>4. EnsureSpace(f, n) = [f EXCEPT !.reserved = r]
  BY <1>3 DEF EnsureSpace
<1> QED
  BY <1>2, <1>4

LEMMA PushIs ==
  ASSUME NEW f, Sound(f), NEW s \in Seq(Byte), Size(f) < MaxSize
  PROVE  LET g == Push(f, s)
         IN  /\ Sound(g) /\ Frame(f, g)
             /\ g.bytes = s \o f.bytes
             /\ g.minalign = f.minalign /\ g.result = f.result
<1>1. CASE s = <<>>
  <2>1. Push(f, s) = f
    BY <1>1 DEF Push
  <2>2. s \o f.bytes = f.bytes
    BY <1>1, SizeNat
  <2> QED
    BY <2>1, <2>2 DEF Frame
<1>2. CASE s # <<>>
  <2>1. Len(s) \in Nat
    OBVIOUS
  <2>2. PICK r \in Nat : /\ EnsureSpace(f, Len(s)) = [f EXCEPT !.reserved = r]
                         /\ Size(f) + ScratchSize(f) + Len(s) <= r
    BY <2>1, Ensured
  <2> DEFINE g == [f EXCEPT !.reserved = r, !.bytes = s \o @]
  <2>3. f \in Builders /\ f.bytes \in Seq(Byte) /\ Size(f) \in Nat /\ ScratchSize(f) \in Nat
    BY SizeNat DEF Sound
  <2>4. s \o f.bytes \in Seq(Byte) /\ Len(s \o f.bytes) = Len(s) + Len(f.bytes)
    BY <2>3
  <2>5. g \in Builders
    BY <2>3, <2>4 DEF Builders
  <2>6. /\ g.bytes = s \o f.bytes /\ g.reserved = r /\ Frame(f, g)
        /\ g.minalign = f.minalign /\ g.result = f.result
        /\ g.offsets = f.offsets /\ g.force = f.force /\ g.dedup = f.dedup
        /\ g.asserts = f.asserts
    BY <2>3 DEF Frame, Builders
  <2>7. Push(f, s) = Asserting(g, Size(g) + ScratchSize(g) <= g.reserved)
    BY <1>2, <2>2, <2>3 DEF Push, Fitted, Builders
  <2> HIDE DEF g
  <2>8. Size(g) = Len(s) + Size(f) /\ ScratchSize(g) = ScratchSize(f)
    BY <2>4, <2>6 DEF Size, ScratchSize, Frame
  <2>9. Size(g) + ScratchSize(g) <= g.reserved
    BY <2>1, <2>2, <2>3, <2>6, <2>8
  <2>10. Sound(g)
    BY <2>5, <2>6, <2>9 DEF Sound
  <2>11. Push(f, s) = g
    BY <2>7, <2>9, <2>10 DEF Asserting, Sound, Builders
  <2> QED
    BY <2>6, <2>10, <2>11
<1> QED
  BY <1>1, <1>2

LEMMA PaddingIs ==
  ASSUME NEW n \in Nat, NEW a \in Alignments
  PROVE  /\ PaddingBytes(n, a) \in Nat /\ PaddingBytes(n, a) < a
         /\ (n + PaddingBytes(n, a)) % a = 0
         /\ n % a = 0 => PaddingBytes(n, a) = 0
<1>1. CASE a = 1
  BY <1>1, SMT DEF PaddingBytes
<1>2. CASE a = 2
  BY <1>2, SMT DEF PaddingBytes
<1>3. CASE a = 4
  BY <1>3, SMT DEF PaddingBytes
<1>4. CASE a = 8
  BY <1>4, SMT DEF PaddingBytes
<1> QED
  BY <1>1, <1>2, <1>3, <1>4 DEF Alignments

LEMMA NextMultiple ==
  ASSUME NEW n \in Nat, NEW a, a = 1 \/ a = 2 \/ a = 4 \/ a = 8, n % a = 0
  PROVE  (n + a) % a = 0
<1>1. CASE a = 1
  BY <1>1, SMT
<1>2. CASE a = 2
  BY <1>2, SMT
<1>3. CASE a = 4
  BY <1>3, SMT
<1>4. CASE a = 8
  BY <1>4, SMT
<1> QED
  BY <1>1, <1>2, <1>3, <1>4

LEMMA ZerosType ==
  ASSUME NEW n \in Nat
  PROVE  Zeros(n) \in Seq(Byte) /\ Len(Zeros(n)) = n /\ \A k \in 1 .. n : Zeros(n)[k] = 0
<1>1. Zeros(n) \in [1 .. n -> Byte]
  BY DEF Zeros, Byte
<1> QED
  BY <1>1 DEF Zeros

\* A builder that has written some more, and nothing else.
Grows(f, g) ==
  /\ Sound(g) /\ Frame(f, g)
  /\ EndsWith(g.bytes, f.bytes)
  /\ f.minalign <= g.minalign

LEMMA GrowsTransitive ==
  ASSUME NEW f, NEW g, NEW h, Sound(f), Grows(f, g), Grows(g, h)
  PROVE  Grows(f, h)
<1>1. EndsWith(h.bytes, f.bytes)
  BY EndsWithTransitive DEF Grows
<1>2. f.minalign \in Alignments /\ g.minalign \in Alignments /\ h.minalign \in Alignments
  BY SizeNat DEF Grows
<1>3. f.minalign <= h.minalign
  BY <1>2 DEF Grows, Alignments
<1> QED
  BY <1>1, <1>3 DEF Grows, Frame

LEMMA GrowsItself ==
  ASSUME NEW f, Sound(f)
  PROVE  Grows(f, f)
<1>1. f.bytes \in Seq(Byte) /\ f.minalign \in Alignments
  BY SizeNat
<1> QED
  BY <1>1, EndsWithItself DEF Grows, Frame, Alignments

LEMMA TrackMinAlignIs ==
  ASSUME NEW f, Sound(f), NEW a \in Alignments
  PROVE  LET g == TrackMinAlign(f, a)
         IN  /\ Grows(f, g) /\ g.bytes = f.bytes /\ g.result = f.result
             /\ a <= g.minalign
<1> DEFINE g == TrackMinAlign(f, a)
           m == IF a > f.minalign THEN a ELSE f.minalign
<1>1. f \in Builders /\ f.bytes \in Seq(Byte) /\ f.minalign \in Alignments
  BY SizeNat DEF Sound
<1>2. m \in Alignments /\ a <= m /\ f.minalign <= m
  BY <1>1 DEF Alignments
<1>3. g = [f EXCEPT !.minalign = m]
  BY DEF TrackMinAlign
<1> HIDE DEF m, g
<1>4. g \in Builders
  BY <1>1, <1>2, <1>3 DEF Builders
<1>5. /\ g.minalign = m /\ g.bytes = f.bytes /\ g.result = f.result /\ Frame(f, g)
      /\ g.reserved = f.reserved /\ g.offsets = f.offsets /\ g.force = f.force
      /\ g.dedup = f.dedup /\ g.asserts = f.asserts
  BY <1>1, <1>3 DEF Builders, Frame
<1>6. Sound(g)
  BY <1>4, <1>5 DEF Sound, Size, ScratchSize, Frame
<1> QED
  BY <1>1, <1>2, <1>5, <1>6, EndsWithItself DEF Grows, g

\* Push as a step of a longer call.
LEMMA PushGrows ==
  ASSUME NEW f, Sound(f), NEW s \in Seq(Byte), Size(f) < MaxSize
  PROVE  LET g == Push(f, s)
         IN  /\ Grows(f, g) /\ g.bytes = s \o f.bytes
             /\ Size(g) = Size(f) + Len(s)
             /\ g.result = f.result /\ g.minalign = f.minalign
<1> DEFINE g == Push(f, s)
<1>1. /\ Sound(g) /\ Frame(f, g) /\ g.bytes = s \o f.bytes
      /\ g.minalign = f.minalign /\ g.result = f.result
  BY PushIs
<1>2. f.bytes \in Seq(Byte) /\ f.minalign \in Alignments
  BY SizeNat
<1> HIDE DEF g
<1>3. EndsWith(g.bytes, f.bytes) /\ Len(g.bytes) = Len(s) + Len(f.bytes)
  BY <1>1, <1>2, Prepended
<1>4. Grows(f, g)
  BY <1>1, <1>2, <1>3 DEF Grows, Alignments
<1>5. Size(g) = Size(f) + Len(s)
  <2>1. Len(s) \in Nat /\ Len(f.bytes) \in Nat
    BY <1>2
  <2> QED
    BY <1>3, <2>1 DEF Size
<1> QED
  BY <1>1, <1>4, <1>5 DEF g

\* Zeros until the size, with n bytes more, is a multiple of a.
LEMMA PaddedIs ==
  ASSUME NEW f, Sound(f), NEW a \in Alignments, NEW n \in Nat, Size(f) < MaxSize
  PROVE  LET pad == PaddingBytes(Size(f) + n, a)
             g == Push(TrackMinAlign(f, a), Zeros(pad))
         IN  /\ Grows(f, g) /\ g.bytes = Zeros(pad) \o f.bytes
             /\ pad \in Nat /\ pad < a
             /\ Size(g) = Size(f) + pad
             /\ (Size(g) + n) % a = 0
             /\ g.result = f.result /\ a <= g.minalign
<1> DEFINE pad == PaddingBytes(Size(f) + n, a)
           e == TrackMinAlign(f, a)
           g == Push(e, Zeros(pad))
<1>1. Size(f) \in Nat
  BY SizeNat
<1>2. pad \in Nat /\ pad < a /\ ((Size(f) + n) + pad) % a = 0
  BY <1>1, PaddingIs
<1>3. Grows(f, e) /\ e.bytes = f.bytes /\ e.result = f.result /\ a <= e.minalign
  BY TrackMinAlignIs
<1> HIDE DEF pad, e
<1>4. Sound(e) /\ Size(e) = Size(f)
  BY <1>3 DEF Grows, Size
<1>5. Zeros(pad) \in Seq(Byte) /\ Len(Zeros(pad)) = pad
  BY <1>2, ZerosType
<1>6. /\ Grows(e, g) /\ g.bytes = Zeros(pad) \o e.bytes /\ Size(g) = Size(e) + Len(Zeros(pad))
      /\ g.result = e.result /\ g.minalign = e.minalign
  BY <1>4, <1>5, PushGrows
<1> HIDE DEF g
<1>7. Grows(f, g)
  BY <1>3, <1>6, GrowsTransitive
<1>8. Size(g) = Size(f) + pad
  BY <1>4, <1>5, <1>6
<1>9. Size(g) + n = (Size(f) + n) + pad
  BY <1>1, <1>2, <1>8
<1> QED
  BY <1>2, <1>3, <1>6, <1>7, <1>8, <1>9 DEF pad, e, g

LEMMA AlignIs ==
  ASSUME NEW f, Sound(f), NEW a \in Alignments, Size(f) < MaxSize
  PROVE  LET pad == PaddingBytes(Size(f), a)
             g == Align(f, a)
         IN  /\ Grows(f, g) /\ g.bytes = Zeros(pad) \o f.bytes
             /\ pad \in Nat /\ pad < a
             /\ Size(g) = Size(f) + pad /\ Size(g) % a = 0
             /\ g.result = f.result /\ a <= g.minalign
             /\ Size(f) % a = 0 => g.bytes = f.bytes /\ pad = 0
<1> DEFINE pad == PaddingBytes(Size(f), a)
           g == Align(f, a)
<1>0. Size(f) \in Nat /\ f.bytes \in Seq(Byte)
  BY SizeNat
<1>1. Size(f) \in Nat /\ Size(f) + 0 = Size(f) /\ f.bytes \in Seq(Byte) /\ 0 \in Nat
  BY <1>0
<1>2. g = Push(TrackMinAlign(f, a), Zeros(pad))
  BY DEF Align
<1>3. /\ Grows(f, g) /\ g.bytes = Zeros(pad) \o f.bytes
      /\ pad \in Nat /\ pad < a
      /\ Size(g) = Size(f) + pad /\ (Size(g) + 0) % a = 0
      /\ g.result = f.result /\ a <= g.minalign
  <2>1. pad = PaddingBytes(Size(f) + 0, a)
    BY <1>1
  <2> HIDE DEF pad, g
  <2> QED
    BY <1>1, <1>2, <2>1, PaddedIs
<1> HIDE DEF g
<1>4. Size(g) + 0 = Size(g)
  BY <1>1, <1>3
<1>5. ASSUME Size(f) % a = 0
      PROVE  g.bytes = f.bytes /\ pad = 0
  <2>1. pad = 0
    BY <1>1, <1>5, PaddingIs
  <2>2. Zeros(0) \o f.bytes = f.bytes
    <3>1. Zeros(0) = <<>>
      BY DEF Zeros
    <3> QED
      BY <3>1, <1>1
  <2> QED
    BY <1>3, <2>1, <2>2
<1> QED
  BY <1>3, <1>4, <1>5 DEF g

\* An element is aligned to its own size.
LEMMA PushElementIs ==
  ASSUME NEW f, Sound(f), NEW s \in Seq(Byte), Len(s) \in Alignments, Size(f) + 7 < MaxSize
  PROVE  LET g == PushElement(f, s)
         IN  /\ Grows(f, g) /\ g.result = Size(g)
             /\ Size(g) % Len(s) = 0 /\ Len(s) <= g.minalign
             /\ Size(f) + Len(s) <= Size(g) /\ Size(g) < Size(f) + 2 * Len(s)
             /\ Stands(g.bytes, Size(g), s)
             /\ Size(f) % Len(s) = 0 => g.bytes = s \o f.bytes
<1> DEFINE a == Len(s)
           e == Align(f, a)
           h == Push(e, s)
           g == PushElement(f, s)
<1>1. f.bytes \in Seq(Byte) /\ Size(f) \in Nat /\ a \in Nat /\ Size(f) < MaxSize
  <2>1. MaxSize \in Nat /\ f.bytes \in Seq(Byte) /\ Size(f) \in Nat
    BY SizeNat, MaxSizeNat
  <2>2. Size(f) < MaxSize
    BY <2>1
  <2> QED
    BY <2>1, <2>2
<1> HIDE DEF a
<1>2. PICK pad : /\ pad = PaddingBytes(Size(f), a)
                 /\ Grows(f, e) /\ e.bytes = Zeros(pad) \o f.bytes
                 /\ pad \in Nat /\ pad < a
                 /\ Size(e) = Size(f) + pad /\ Size(e) % a = 0
                 /\ a <= e.minalign
                 /\ Size(f) % a = 0 => e.bytes = f.bytes /\ pad = 0
  BY <1>1, AlignIs DEF a
<1> HIDE DEF e
<1>3. Sound(e) /\ Size(e) < MaxSize
  <2>1. a <= 8 /\ MaxSize \in Nat
    <3>1. a = 1 \/ a = 2 \/ a = 4 \/ a = 8
      BY DEF Alignments, a
    <3> QED
      BY <3>1, MaxSizeNat
  <2> QED
    BY <1>1, <1>2, <2>1 DEF Grows
<1>4. /\ Grows(e, h) /\ h.bytes = s \o e.bytes /\ Size(h) = Size(e) + a
      /\ h.minalign = e.minalign
  BY <1>3, PushGrows DEF a
<1>5. g = [h EXCEPT !.result = Size(h)]
  BY DEF PushElement, GetSize, a, e
<1> HIDE DEF h, g
<1>6. Sound(h) /\ h.bytes \in Seq(Byte) /\ Size(h) \in Nat /\ Size(h) = Len(h.bytes)
      /\ h.minalign \in Alignments
  BY <1>4, SizeNat DEF Grows
<1>7. /\ g \in Builders /\ g.bytes = h.bytes /\ g.result = Size(h) /\ Frame(h, g)
      /\ g.minalign = h.minalign /\ g.reserved = h.reserved
      /\ g.offsets = h.offsets /\ g.force = h.force /\ g.dedup = h.dedup /\ g.asserts = h.asserts
  BY <1>5, <1>6 DEF Sound, Builders, Frame
<1>8. Sound(g) /\ Size(g) = Size(h)
  BY <1>6, <1>7 DEF Sound, Size, ScratchSize, Frame
<1>9. Grows(h, g)
  BY <1>6, <1>7, <1>8, EndsWithItself DEF Grows, Alignments
<1>10. Grows(f, g)
  <2>1. Grows(f, h)
    BY <1>2, <1>4, GrowsTransitive
  <2> QED
    BY <1>9, <2>1, GrowsTransitive
<1>11. Size(g) % a = 0
  <2>1. (Size(e) + a) % a = 0
    <3>1. Size(e) \in Nat
      BY <1>3, SizeNat
    <3>2. a = 1 \/ a = 2 \/ a = 4 \/ a = 8
      BY DEF Alignments, a
    <3> QED
      BY <1>2, <3>1, <3>2, NextMultiple
  <2> QED
    BY <1>4, <1>8, <2>1
<1>12. Stands(g.bytes, Size(g), s)
  <2>1. e.bytes \in Seq(Byte) /\ Size(e) = Len(e.bytes)
    BY <1>3, SizeNat
  <2>2. Stands(s \o e.bytes, Len(e.bytes) + Len(s), s)
    BY <2>1, StandsPrepended
  <2> QED
    BY <1>4, <1>7, <1>8, <2>1, <2>2 DEF a
<1>13. Size(f) + a <= Size(g) /\ Size(g) < Size(f) + 2 * a
  BY <1>1, <1>2, <1>4, <1>8
<1>14. Size(f) % a = 0 => g.bytes = s \o f.bytes
  BY <1>2, <1>4, <1>7
<1> QED
  BY <1>2, <1>4, <1>7, <1>8, <1>10, <1>11, <1>12, <1>13, <1>14 DEF g, a

------------------------------------------------------------------------------
(* Strings.                                                                 *)

\* Between two calls: no table or vector is being built.
Outside(f) == Sound(f) /\ f.nested = FALSE /\ f.fields = <<>> /\ f.maxv = 0

LEMMA OutsideNotNested ==
  ASSUME NEW f, Outside(f)
  PROVE  NotNested(f) = f
BY DEF Outside, Sound, Builders, NotNested, Asserting

\* A string at a distance from the end: its length, its bytes and a 0.
StringIs(b, d, s) ==
  /\ d \in Nat /\ d % 4 = 0
  /\ Len(s) + 5 <= d
  /\ Stands(b, d, LittleEndian(Len(s), 4))
  /\ Stands(b, d - 4, s)
  /\ Stands(b, d - 4 - Len(s), <<0>>)

LEMMA LengthBytes ==
  ASSUME NEW n \in Int
  PROVE  LittleEndian(n, 4) \in Seq(Byte) /\ Len(LittleEndian(n, 4)) = 4
BY LittleEndianType

LEMMA ZeroByte == <<0>> \in Seq(Byte) /\ Len(<<0>>) = 1
BY DEF Byte

LEMMA CreateStringIs ==
  ASSUME NEW f, Outside(f), NEW s \in Seq(Byte), Size(f) + Len(s) + 20 < MaxSize
  PROVE  LET g == CreateString(f, s)
         IN  /\ Grows(f, g) /\ g.result = Size(g)
             /\ StringIs(g.bytes, Size(g), s)
             /\ Size(g) < Size(f) + Len(s) + 9 /\ 4 <= g.minalign
<1> DEFINE n == Len(s)
           pad == PaddingBytes(Size(f) + (n + 1), 4)
           h == Push(TrackMinAlign(f, 4), Zeros(pad))
           i == Push(h, <<0>>)
           j == Push(i, s)
           g == PushElement(j, LittleEndian(n, 4))
<1>1. /\ Sound(f) /\ Size(f) \in Nat /\ n \in Nat /\ n + 1 # 0 /\ n + 1 \in Nat
      /\ MaxSize \in Nat /\ Size(f) < MaxSize
  <2>1. Sound(f)
    BY DEF Outside
  <2>2. Size(f) \in Nat /\ MaxSize \in Nat
    BY <2>1, SizeNat, MaxSizeNat
  <2>3. n \in Nat
    OBVIOUS
  <2> QED
    BY <2>1, <2>2, <2>3
<1>2. CreateString(f, s) = g
  <2>1. PreAlign(f, n + 1, 4) = h
    BY <1>1, Zenon DEF PreAlign
  <2> QED
    BY <2>1, OutsideNotNested, Zenon DEF CreateString
<1>3. /\ Grows(f, h) /\ pad \in Nat /\ pad < 4 /\ Size(h) = Size(f) + pad
      /\ (Size(h) + (n + 1)) % 4 = 0 /\ 4 <= h.minalign
  <2>1. 4 \in Alignments
    BY DEF Alignments
  <2> HIDE DEF n
  <2> QED
    BY <1>1, <2>1, PaddedIs
<1> HIDE DEF pad, h
<1>4. Sound(h) /\ Size(h) < MaxSize
  BY <1>1, <1>3 DEF Grows
<1>5. Grows(h, i) /\ i.bytes = <<0>> \o h.bytes /\ Size(i) = Size(h) + 1
      /\ i.minalign = h.minalign
  BY <1>4, ZeroByte, PushGrows
<1> HIDE DEF i
<1>6. Sound(i) /\ Size(i) < MaxSize /\ Size(h) \in Nat /\ Size(i) \in Nat
  BY <1>1, <1>3, <1>4, <1>5 DEF Grows
<1>7. Grows(i, j) /\ j.bytes = s \o i.bytes /\ Size(j) = Size(i) + n
      /\ j.minalign = i.minalign
  BY <1>6, PushGrows
<1> HIDE DEF j
<1>8. Sound(j) /\ Size(j) \in Nat /\ Size(j) = Size(f) + pad + 1 + n /\ Size(j) + 7 < MaxSize
      /\ Size(j) % 4 = 0
  <2>1. Size(j) = Size(h) + (n + 1)
    BY <1>1, <1>5, <1>6, <1>7
  <2>2. Size(j) = Size(f) + pad + 1 + n
    BY <1>1, <1>3, <2>1
  <2>3. Size(j) \in Nat /\ Size(j) + 7 < MaxSize
    <3>1. Size(f) + n + 20 < MaxSize
      OBVIOUS
    <3> HIDE DEF n
    <3>2. pad \in Nat /\ pad < 4
      BY <1>3, Zenon
    <3>3. Size(f) \in Nat /\ n \in Nat /\ MaxSize \in Nat
      BY <1>1, Zenon
    <3> QED
      BY <2>2, <3>1, <3>2, <3>3
  <2>4. Size(j) % 4 = 0
    BY <1>3, <2>1
  <2>5. Sound(j)
    BY <1>7 DEF Grows
  <2> QED
    BY <2>2, <2>3, <2>4, <2>5
<1>9. LittleEndian(n, 4) \in Seq(Byte) /\ Len(LittleEndian(n, 4)) = 4 /\ 4 \in Alignments
  BY <1>1, LengthBytes DEF Alignments
<1>10. /\ Grows(j, g) /\ g.result = Size(g) /\ Size(g) % 4 = 0 /\ 4 <= g.minalign
       /\ Stands(g.bytes, Size(g), LittleEndian(n, 4))
       /\ g.bytes = LittleEndian(n, 4) \o j.bytes
  <2> DEFINE le == LittleEndian(n, 4)
  <2>1. le \in Seq(Byte) /\ Len(le) = 4 /\ Len(le) \in Alignments
    BY <1>9
  <2> HIDE DEF le, g
  <2>2. g = PushElement(j, le)
    BY DEF g, le
  <2>3. /\ Grows(j, g) /\ g.result = Size(g) /\ Size(g) % Len(le) = 0 /\ Len(le) <= g.minalign
        /\ Stands(g.bytes, Size(g), le)
        /\ Size(j) % Len(le) = 0 => g.bytes = le \o j.bytes
    BY <1>8, <2>1, <2>2, PushElementIs
  <2>4. g.bytes = le \o j.bytes /\ Size(g) % 4 = 0 /\ 4 <= g.minalign
    BY <1>8, <2>1, <2>3
  <2> QED
    BY <2>3, <2>4 DEF le
<1> HIDE DEF g
<1>11. Size(g) = Size(j) + 4
  <2>1. j.bytes \in Seq(Byte) /\ Size(j) = Len(j.bytes) /\ Size(g) = Len(g.bytes)
    BY <1>8, SizeNat DEF Size
  <2>2. Len(LittleEndian(n, 4) \o j.bytes) = Len(LittleEndian(n, 4)) + Len(j.bytes)
    BY <1>9, <2>1, Prepended, Zenon
  <2>3. Len(g.bytes) = Len(LittleEndian(n, 4)) + Len(j.bytes)
    BY <1>10, <2>2, Zenon
  <2>4. Len(g.bytes) = 4 + Len(j.bytes)
    BY <1>9, <2>3, Zenon
  <2> QED
    BY <1>8, <2>1, <2>4
<1>12. Grows(f, g)
  <2>1. Grows(f, i)
    BY <1>1, <1>3, <1>5, GrowsTransitive
  <2>2. Grows(f, j)
    BY <1>1, <1>7, <2>1, GrowsTransitive
  <2> QED
    BY <1>1, <1>10, <2>2, GrowsTransitive
<1>13. Stands(g.bytes, Size(j), s)
  <2>1. Stands(j.bytes, Size(j), s)
    <3>1. i.bytes \in Seq(Byte) /\ Size(i) = Len(i.bytes)
      BY <1>6, SizeNat
    <3> QED
      BY <1>7, <3>1, StandsPrepended
  <2>2. EndsWith(g.bytes, j.bytes)
    BY <1>10 DEF Grows
  <2> QED
    BY <1>8, <2>1, <2>2, StandsStays
<1>14. Stands(g.bytes, Size(i), <<0>>)
  <2>1. Stands(i.bytes, Size(i), <<0>>)
    <3>1. h.bytes \in Seq(Byte) /\ Size(h) = Len(h.bytes)
      BY <1>4, SizeNat
    <3> QED
      BY <1>5, <3>1, ZeroByte, StandsPrepended
  <2>2. EndsWith(j.bytes, i.bytes) /\ EndsWith(g.bytes, j.bytes)
    BY <1>7, <1>10 DEF Grows
  <2>3. EndsWith(g.bytes, i.bytes)
    BY <2>2, EndsWithTransitive
  <2> QED
    BY <1>6, <2>1, <2>3, ZeroByte, StandsStays
<1>15. Size(g) - 4 = Size(j) /\ Size(g) - 4 - n = Size(i) /\ n + 5 <= Size(g) /\ Size(g) \in Nat
  <2> HIDE DEF n
  <2>1. Size(g) - 4 = Size(j) /\ Size(g) \in Nat
    BY <1>8, <1>11
  <2>2. Size(j) - n = Size(i)
    BY <1>1, <1>6, <1>7
  <2>3. n + 1 <= Size(j)
    BY <1>1, <1>3, <1>5, <1>6, <1>7
  <2> QED
    BY <1>1, <1>8, <1>11, <2>1, <2>2, <2>3
<1>16. StringIs(g.bytes, Size(g), s)
  BY <1>10, <1>13, <1>14, <1>15 DEF StringIs
<1>17. Size(g) < Size(f) + n + 9
  BY <1>1, <1>3, <1>8, <1>11
<1> QED
  BY <1>2, <1>10, <1>12, <1>16, <1>17

LEMMA StringStays ==
  ASSUME NEW b, NEW c, EndsWith(c, b), NEW d, NEW s \in Seq(Byte), StringIs(b, d, s)
  PROVE  StringIs(c, d, s)
<1>1. d \in Nat /\ d - 4 \in Nat /\ d - 4 - Len(s) \in Nat /\ Len(s) \in Int
  BY DEF StringIs
<1>2. LittleEndian(Len(s), 4) \in Seq(Byte)
  BY <1>1, LengthBytes
<1> QED
  BY <1>1, <1>2, ZeroByte, StandsStays DEF StringIs

------------------------------------------------------------------------------
(* Distances.                                                               *)

LEMMA ReferToIs ==
  ASSUME NEW f, Sound(f), NEW off \in Nat, off # 0, off <= Size(f), Size(f) < MaxSize
  PROVE  LET e == ReferTo(f, off)
         IN  /\ Grows(f, e) /\ e.result = Size(e) + 4 - off /\ Size(e) % 4 = 0
             /\ Size(f) <= Size(e) /\ Size(e) < Size(f) + 4
             /\ Size(f) % 4 = 0 => e.bytes = f.bytes
<1> DEFINE a == Align(f, 4)
           e == ReferTo(f, off)
<1>1. Size(f) \in Nat /\ 4 \in Alignments
  BY SizeNat DEF Alignments
<1>2. PICK pad \in Nat : /\ Grows(f, a) /\ pad < 4 /\ Size(a) = Size(f) + pad /\ Size(a) % 4 = 0
                         /\ Size(f) % 4 = 0 => a.bytes = f.bytes
  BY <1>1, AlignIs
<1> HIDE DEF a
<1>3. Sound(a) /\ a \in Builders /\ a.asserts = TRUE /\ a.bytes \in Seq(Byte)
  BY <1>2, SizeNat DEF Grows, Sound
<1>4. off <= Size(a)
  BY <1>1, <1>2
<1>5. Asserting(a, off # 0 /\ off <= Size(a)) = a
  BY <1>3, <1>4 DEF Asserting, Builders
<1>6. e = [a EXCEPT !.result = Size(a) - off + 4]
  BY <1>5 DEF ReferTo, Refer, a
<1>7. Size(a) - off + 4 \in Nat /\ Size(a) - off + 4 = Size(a) + 4 - off
  BY <1>1, <1>2, <1>4
<1> HIDE DEF e
<1>8. /\ e \in Builders /\ e.bytes = a.bytes /\ e.result = Size(a) - off + 4 /\ Frame(a, e)
      /\ e.minalign = a.minalign /\ e.reserved = a.reserved
      /\ e.offsets = a.offsets /\ e.force = a.force /\ e.dedup = a.dedup /\ e.asserts = a.asserts
  BY <1>3, <1>6, <1>7 DEF Builders, Frame
<1>9. Sound(e) /\ Size(e) = Size(a)
  BY <1>3, <1>8 DEF Sound, Size, ScratchSize, Frame
<1>10. Grows(a, e)
  <2>1. a.minalign \in Alignments
    BY <1>3, SizeNat
  <2> QED
    BY <1>3, <1>8, <1>9, <2>1, EndsWithItself DEF Grows, Alignments
<1>11. Grows(f, e)
  BY <1>2, <1>10, GrowsTransitive
<1>12. Size(f) <= Size(e) /\ Size(e) < Size(f) + 4
  BY <1>1, <1>2, <1>9
<1> QED
  BY <1>2, <1>7, <1>8, <1>9, <1>11, <1>12 DEF e

\* A distance is stored in four bytes, from where they begin.
LEMMA PushOffsetIs ==
  ASSUME NEW f, Sound(f), NEW off \in Nat, off # 0, off <= Size(f), Size(f) + 11 < MaxSize
  PROVE  LET g == PushOffset(f, off)
         IN  /\ Grows(f, g) /\ g.result = Size(g)
             /\ Size(g) % 4 = 0 /\ 4 <= g.minalign
             /\ Size(f) + 4 <= Size(g) /\ Size(g) < Size(f) + 8
             /\ Stands(g.bytes, Size(g), LittleEndian(Size(g) - off, 4))
             /\ Size(f) % 4 = 0 => Size(g) = Size(f) + 4
<1> DEFINE e == ReferTo(f, off)
           s == LittleEndian(e.result, 4)
           g == PushOffset(f, off)
<1>1. Size(f) \in Nat /\ MaxSize \in Nat /\ Size(f) < MaxSize
  <2>1. Size(f) \in Nat /\ MaxSize \in Nat
    BY SizeNat, MaxSizeNat
  <2> QED
    BY <2>1
<1>2. /\ Grows(f, e) /\ e.result = Size(e) + 4 - off /\ Size(e) % 4 = 0
      /\ Size(f) <= Size(e) /\ Size(e) < Size(f) + 4
      /\ Size(f) % 4 = 0 => e.bytes = f.bytes
  BY <1>1, ReferToIs
<1>3. g = PushElement(e, s)
  BY DEF PushOffset, PushResult, Result
<1> HIDE DEF e
<1>4. Sound(e) /\ Size(e) \in Nat /\ e.result \in Nat /\ e.bytes \in Seq(Byte) /\ Size(e) = Len(e.bytes)
  BY <1>2, SizeNat DEF Grows
<1>5. Size(e) + 7 < MaxSize
  BY <1>1, <1>2, <1>4
<1>6. s \in Seq(Byte) /\ Len(s) = 4 /\ Len(s) \in Alignments
  BY <1>4, LengthBytes DEF Alignments
<1> HIDE DEF s, g
<1>7. /\ Grows(e, g) /\ g.result = Size(g)
      /\ Size(g) % Len(s) = 0 /\ Len(s) <= g.minalign
      /\ Stands(g.bytes, Size(g), s)
      /\ Size(e) % Len(s) = 0 => g.bytes = s \o e.bytes
  BY <1>3, <1>4, <1>5, <1>6, PushElementIs
<1>8. Size(g) = Size(e) + 4
  <2>1. g.bytes = s \o e.bytes
    BY <1>2, <1>6, <1>7
  <2>2. Len(s \o e.bytes) = 4 + Len(e.bytes)
    BY <1>4, <1>6, Prepended
  <2> QED
    BY <1>4, <2>1, <2>2 DEF Size
<1>9. Size(g) - off = e.result
  BY <1>2, <1>4, <1>8
<1>10. Grows(f, g)
  BY <1>2, <1>7, GrowsTransitive
<1>11. Size(f) + 4 <= Size(g) /\ Size(g) < Size(f) + 8
  BY <1>1, <1>2, <1>4, <1>8
<1>12. Size(f) % 4 = 0 => Size(g) = Size(f) + 4
  BY <1>2, <1>8 DEF Size
<1> QED
  BY <1>6, <1>7, <1>9, <1>10, <1>11, <1>12 DEF s, g

------------------------------------------------------------------------------
(* The fields of a table.                                                   *)

LEMMA TrackFieldIs ==
  ASSUME NEW f, Sound(f), NEW id \in Nat, Size(f) < MaxSize
  PROVE  LET g == TrackField(f, id)
         IN  /\ Sound(g) /\ g.bytes = f.bytes /\ g.result = f.result
             /\ g.fields = Append(f.fields, [off |-> f.result, id |-> id])
             /\ g.maxv = IF id > f.maxv THEN id ELSE f.maxv
             /\ g.vtables = f.vtables /\ g.minalign = f.minalign
             /\ g.nested = f.nested /\ g.finished = f.finished
<1> DEFINE l == [off |-> f.result, id |-> id]
           m == IF id > f.maxv THEN id ELSE f.maxv
<1>1. /\ f \in Builders /\ Size(f) \in Nat /\ ScratchSize(f) \in Nat
      /\ f.fields \in Seq([off : Nat, id : Nat]) /\ f.result \in Nat /\ f.maxv \in Nat
      /\ ScratchSize(f) = 8 * Len(f.fields) + 4 * Len(f.vtables)
  <2>1. f \in Builders
    BY DEF Sound
  <2>2. f.fields \in Seq([off : Nat, id : Nat])
    BY <2>1 DEF Builders
  <2> QED
    BY <2>1, <2>2, SizeNat
<1>2. PICK r \in Nat : /\ EnsureSpace(f, 8) = [f EXCEPT !.reserved = r]
                       /\ Size(f) + ScratchSize(f) + 8 <= r
  BY Ensured
<1> DEFINE g == [f EXCEPT !.reserved = r, !.fields = Append(@, l), !.maxv = m]
<1>3. TrackField(f, id) = Asserting(g, Size(g) + ScratchSize(g) <= g.reserved)
  BY <1>1, <1>2 DEF TrackField, Fitted, Builders
<1>4. l \in [off : Nat, id : Nat] /\ m \in Nat
  BY <1>1
<1>5. Append(f.fields, l) \in Seq([off : Nat, id : Nat]) /\ Len(Append(f.fields, l)) = Len(f.fields) + 1
  <2> HIDE DEF l
  <2> QED
    BY <1>1, <1>4
<1> HIDE DEF l, m
<1>6. g \in Builders
  BY <1>1, <1>4, <1>5 DEF Builders
<1>7. /\ g.bytes = f.bytes /\ g.result = f.result /\ g.fields = Append(f.fields, l)
      /\ g.maxv = m /\ g.vtables = f.vtables /\ g.minalign = f.minalign
      /\ g.nested = f.nested /\ g.finished = f.finished /\ g.reserved = r
      /\ g.offsets = f.offsets /\ g.force = f.force /\ g.dedup = f.dedup /\ g.asserts = f.asserts
  BY <1>1 DEF Builders
<1> HIDE DEF g
<1>8. Size(g) + ScratchSize(g) <= g.reserved
  <2>1. Size(g) = Size(f)
    BY <1>7 DEF Size
  <2>2. f.offsets = <<>>
    BY DEF Sound
  <2>3. Len(f.fields) \in Nat /\ Len(f.vtables) \in Nat
    BY <1>1 DEF Builders
  <2>4. ScratchSize(g) = 8 * (Len(f.fields) + 1) + 4 * Len(f.vtables)
    BY <1>5, <1>7, <2>2, <2>3 DEF ScratchSize
  <2>5. ScratchSize(g) = ScratchSize(f) + 8
    <3>1. ScratchSize(f) = 8 * Len(f.fields) + 4 * Len(f.vtables)
      BY <1>1
    <3>2. \A m1, n1 \in Nat : 8 * (m1 + 1) + 4 * n1 = (8 * m1 + 4 * n1) + 8
      BY SMT
    <3> QED
      BY <2>3, <2>4, <3>1, <3>2
  <2>6. Size(f) \in Nat /\ ScratchSize(f) \in Nat
    BY <1>1
  <2>7. Size(g) + ScratchSize(g) = Size(f) + ScratchSize(f) + 8
    BY <2>1, <2>5, <2>6
  <2> QED
    BY <1>2, <1>7, <2>7
<1>9. Sound(g)
  BY <1>6, <1>7, <1>8 DEF Sound
<1>10. TrackField(f, id) = g
  BY <1>3, <1>8, <1>9 DEF Asserting, Sound, Builders
<1> QED
  BY <1>7, <1>9, <1>10 DEF l, m

\* What a field takes in a table, and how a value is stored in it: a distance
\* leads back from the field to what has been written before.
FieldSize(field) == IF IsScalar(field) THEN SizeOf[field.type] ELSE 4
FieldBytes(field, arg, off) ==
  IF IsScalar(field) THEN LittleEndian(arg, FieldSize(field)) ELSE LittleEndian(off - arg, 4)

FieldIs(b, off, field, arg) ==
  /\ off \in Nat /\ off % FieldSize(field) = 0
  /\ Stands(b, off, FieldBytes(field, arg, off))
  /\ IsScalar(field) \/ arg + 4 <= off

\* A field of the protocol with an argument that Create is called with.
Argument(f, field, arg) ==
  /\ FieldSize(field) \in Alignments
  /\ Default(field) = 0
  /\ IF IsScalar(field) THEN arg \in Int ELSE arg \in Nat /\ arg # 0 /\ arg <= Size(f)

\* One more field.
Tracks(f, g, id, field, arg) ==
  /\ Sound(g) /\ EndsWith(g.bytes, f.bytes) /\ f.minalign <= g.minalign
  /\ g.vtables = f.vtables /\ g.nested = f.nested /\ g.finished = f.finished
  /\ g.fields = Append(f.fields, [off |-> Size(g), id |-> id])
  /\ g.maxv = IF id > f.maxv THEN id ELSE f.maxv
  /\ FieldIs(g.bytes, Size(g), field, arg)
  /\ FieldSize(field) <= g.minalign
  /\ Size(f) + FieldSize(field) <= Size(g) /\ Size(g) < Size(f) + 16

LEMMA DefaultBytes ==
  ASSUME NEW w \in Nat
  PROVE  LittleEndian(0, w) = Zeros(w)
<1>1. ASSUME NEW k \in 1 .. w PROVE LittleEndian(0, w)[k] = 0
  BY SMT DEF LittleEndian
<1>2. Zeros(w) = [k \in 1 .. w |-> 0]
  BY DEF Zeros
<1>3. LittleEndian(0, w) \in [1 .. w -> Byte]
  BY LittleEndianType
<1> QED
  BY <1>1, <1>2, <1>3

LEMMA EightNat == \A a \in Alignments : a \in Nat /\ 1 <= a /\ a <= 8
BY DEF Alignments

\* A scalar or a distance, pushed and noted.
LEMMA AddElementIs ==
  ASSUME NEW f, Sound(f), NEW s \in Seq(Byte), Len(s) \in Alignments, NEW id \in Nat,
         Size(f) + 30 < MaxSize
  PROVE  LET g == TrackField(PushElement(f, s), id)
         IN  /\ Sound(g) /\ EndsWith(g.bytes, f.bytes) /\ f.minalign <= g.minalign
             /\ g.vtables = f.vtables /\ g.nested = f.nested /\ g.finished = f.finished
             /\ g.fields = Append(f.fields, [off |-> Size(g), id |-> id])
             /\ g.maxv = IF id > f.maxv THEN id ELSE f.maxv
             /\ Size(g) % Len(s) = 0 /\ Len(s) <= g.minalign
             /\ Stands(g.bytes, Size(g), s)
             /\ Size(f) + Len(s) <= Size(g) /\ Size(g) < Size(f) + 2 * Len(s)
             /\ Size(f) % Len(s) = 0 => g.bytes = s \o f.bytes
<1> DEFINE e == PushElement(f, s)
           g == TrackField(e, id)
<1>1. Size(f) \in Nat /\ MaxSize \in Nat
  BY SizeNat, MaxSizeNat
<1>2. Size(f) + 7 < MaxSize
  BY <1>1
<1>3. /\ Grows(f, e) /\ e.result = Size(e)
      /\ Size(e) % Len(s) = 0 /\ Len(s) <= e.minalign
      /\ Size(f) + Len(s) <= Size(e) /\ Size(e) < Size(f) + 2 * Len(s)
      /\ Stands(e.bytes, Size(e), s)
      /\ Size(f) % Len(s) = 0 => e.bytes = s \o f.bytes
  BY <1>2, PushElementIs
<1> HIDE DEF e
<1>4. Sound(e) /\ Size(e) \in Nat
  BY <1>3, SizeNat DEF Grows
<1>5. Size(e) < MaxSize
  <2>1. Len(s) \in Nat /\ Len(s) <= 8
    BY EightNat
  <2> QED
    BY <1>1, <1>3, <1>4, <2>1
<1>6. /\ Sound(g) /\ g.bytes = e.bytes
      /\ g.fields = Append(e.fields, [off |-> e.result, id |-> id])
      /\ g.maxv = IF id > e.maxv THEN id ELSE e.maxv
      /\ g.vtables = e.vtables /\ g.minalign = e.minalign
      /\ g.nested = e.nested /\ g.finished = e.finished
  BY <1>4, <1>5, TrackFieldIs
<1> HIDE DEF g
<1>7. Size(g) = Size(e)
  BY <1>6 DEF Size
<1> QED
  BY <1>3, <1>6, <1>7 DEF e, g, Grows, Frame

LEMMA AddFieldIs ==
  ASSUME NEW f, Sound(f), NEW i \in Nat, NEW field, NEW arg, Argument(f, field, arg),
         Size(f) + 40 < MaxSize
  PROVE  LET g == AddField(f, i, field, arg)
         IN  \/ Tracks(f, g, VT(i), field, arg)
             \/ g = f /\ IsScalar(field) /\ LittleEndian(arg, FieldSize(field)) = Zeros(FieldSize(field))
<1> DEFINE w == FieldSize(field)
           id == VT(i)
           g == AddField(f, i, field, arg)
<1>1. w \in Alignments /\ w \in Nat /\ w <= 8 /\ id \in Nat /\ f.force = FALSE
      /\ Size(f) \in Nat /\ MaxSize \in Nat
  <2>1. w \in Alignments /\ f.force = FALSE
    BY DEF Argument, Sound
  <2>2. id \in Nat
    BY DEF VT
  <2> HIDE DEF w, id
  <2> QED
    BY <2>1, <2>2, EightNat, SizeNat, MaxSizeNat
<1>2. CASE IsScalar(field)
  <2> DEFINE s == LittleEndian(arg, w)
  <2>1. arg \in Int /\ Default(field) = 0 /\ w = SizeOf[field.type]
    BY <1>2 DEF Argument, FieldSize
  <2>2. s \in Seq(Byte) /\ Len(s) = w
    BY <1>1, <2>1, LittleEndianType
  <2>3. g = IF s = Zeros(w) THEN f ELSE TrackField(PushElement(f, s), id)
    <3>1. g = AddElement(f, id, s, LittleEndian(0, w))
      BY <1>2, <2>1, Zenon DEF AddField
    <3>2. LittleEndian(0, w) = Zeros(w)
      BY <1>1, DefaultBytes
    <3> QED
      BY <1>1, <3>1, <3>2, Zenon DEF AddElement
  <2>4. CASE s = Zeros(w)
    BY <1>2, <2>3, <2>4
  <2>5. CASE s # Zeros(w)
    <3>1. g = TrackField(PushElement(f, s), id)
      BY <2>3, <2>5
    <3>2. FieldBytes(field, arg, Size(g)) = s
      BY <1>2 DEF FieldBytes
    <3> HIDE DEF s, w, id, g
    <3>3. Size(f) + 30 < MaxSize
      BY <1>1
    <3>4. /\ Sound(g) /\ EndsWith(g.bytes, f.bytes) /\ f.minalign <= g.minalign
          /\ g.vtables = f.vtables /\ g.nested = f.nested /\ g.finished = f.finished
          /\ g.fields = Append(f.fields, [off |-> Size(g), id |-> id])
          /\ g.maxv = IF id > f.maxv THEN id ELSE f.maxv
          /\ Size(g) % w = 0 /\ w <= g.minalign
          /\ Stands(g.bytes, Size(g), s)
          /\ Size(f) + w <= Size(g) /\ Size(g) < Size(f) + 2 * w
      BY <1>1, <2>2, <3>1, <3>3, AddElementIs
    <3>5. Size(g) \in Nat
      BY <3>4, SizeNat
    <3>6. Size(g) < Size(f) + 16
      BY <1>1, <3>4, <3>5
    <3>7. FieldIs(g.bytes, Size(g), field, arg)
      BY <1>2, <3>2, <3>4, <3>5 DEF FieldIs, w
    <3> QED
      BY <3>4, <3>6, <3>7 DEF Tracks, w, id, g
  <2> QED
    BY <2>4, <2>5
<1>3. CASE ~IsScalar(field)
  <2> DEFINE e == ReferTo(f, arg)
             s == LittleEndian(e.result, 4)
  <2>1. arg \in Nat /\ arg # 0 /\ arg <= Size(f) /\ w = 4 /\ Size(f) < MaxSize
    BY <1>1, <1>3 DEF Argument, FieldSize
  <2>2. /\ Grows(f, e) /\ e.result = Size(e) + 4 - arg /\ Size(e) % 4 = 0
        /\ Size(f) <= Size(e) /\ Size(e) < Size(f) + 4
    BY <2>1, ReferToIs
  <2>3. g = AddElement(e, id, s, Zeros(4))
    BY <1>3, <2>1, Zenon DEF AddField, AddOffset, AddResult, Result
  <2> HIDE DEF e
  <2>4. Sound(e) /\ Size(e) \in Nat /\ Size(e) = Len(e.bytes) /\ e.bytes \in Seq(Byte)
        /\ e.force = FALSE
    <3>1. Sound(e)
      BY <2>2 DEF Grows
    <3> QED
      BY <3>1, SizeNat DEF Sound
  <2>5. e.result \in Nat /\ 4 <= e.result /\ e.result <= Size(f) + 8
    BY <1>1, <2>1, <2>2, <2>4
  <2>6. s \in Seq(Byte) /\ Len(s) = 4 /\ Len(s) \in Alignments
    BY <2>5, LengthBytes DEF Alignments
  <2>7. s # Zeros(4)
    <3>1. Signed32(e.result)
      BY <1>1, <2>5 DEF Signed32
    <3>2. s[1] + 256 * (s[2] + 256 * (s[3] + 256 *
            (IF s[4] < 128 THEN s[4] ELSE s[4] - 256))) = e.result
      BY <3>1, Stored32
    <3>3. Zeros(4)[1] = 0 /\ Zeros(4)[2] = 0 /\ Zeros(4)[3] = 0 /\ Zeros(4)[4] = 0
      BY DEF Zeros
    <3> HIDE DEF s
    <3> QED
      BY <2>5, <3>2, <3>3
  <2>8. g = TrackField(PushElement(e, s), id)
    BY <2>3, <2>7, Zenon DEF AddElement
  <2> HIDE DEF s, w, id, g
  <2>9. Size(e) + 30 < MaxSize
    BY <1>1, <2>2, <2>4
  <2>10. /\ Sound(g) /\ EndsWith(g.bytes, e.bytes) /\ e.minalign <= g.minalign
         /\ g.vtables = e.vtables /\ g.nested = e.nested /\ g.finished = e.finished
         /\ g.fields = Append(e.fields, [off |-> Size(g), id |-> id])
         /\ g.maxv = IF id > e.maxv THEN id ELSE e.maxv
         /\ Size(g) % Len(s) = 0 /\ Len(s) <= g.minalign
         /\ Stands(g.bytes, Size(g), s)
         /\ Size(e) % Len(s) = 0 => g.bytes = s \o e.bytes
    <3>1. id \in Nat /\ Sound(e) /\ s \in Seq(Byte) /\ Len(s) \in Alignments
      BY <1>1, <2>4, <2>6
    <3> QED
      BY <2>8, <2>9, <3>1, AddElementIs, Zenon
  <2>11. Size(g) = Size(e) + 4
    <3>1. g.bytes = s \o e.bytes
      BY <2>2, <2>6, <2>10
    <3>2. Len(s \o e.bytes) = 4 + Len(e.bytes)
      BY <2>4, <2>6, Prepended
    <3> QED
      BY <2>4, <3>1, <3>2 DEF Size
  <2>12. FieldBytes(field, arg, Size(g)) = s
    <3>1. Size(g) - arg = e.result
      BY <2>1, <2>2, <2>4, <2>11
    <3> QED
      BY <1>3, <3>1 DEF FieldBytes, s
  <2>13. FieldIs(g.bytes, Size(g), field, arg)
    <3>1. Size(g) \in Nat
      BY <2>4, <2>11
    <3>2. Size(g) % w = 0
      BY <2>1, <2>6, <2>10
    <3>3. arg + 4 <= Size(g)
      BY <1>1, <2>1, <2>2, <2>4, <2>11
    <3> QED
      BY <2>10, <2>12, <3>1, <3>2, <3>3 DEF FieldIs, w
  <2>14. Size(f) + w <= Size(g) /\ Size(g) < Size(f) + 16
    BY <1>1, <2>1, <2>2, <2>4, <2>11
  <2>15. EndsWith(g.bytes, f.bytes) /\ f.minalign <= g.minalign
    <3>1. EndsWith(g.bytes, f.bytes)
      BY <2>2, <2>10, EndsWithTransitive DEF Grows
    <3>2. f.minalign \in Alignments /\ e.minalign \in Alignments /\ g.minalign \in Alignments
      BY <2>4, <2>10, SizeNat
    <3>3. f.minalign \in Nat /\ e.minalign \in Nat /\ g.minalign \in Nat
      BY <3>2, EightNat
    <3> QED
      BY <2>2, <2>10, <3>1, <3>3 DEF Grows
  <2>16. w <= g.minalign
    BY <2>1, <2>6, <2>10
  <2> QED
    BY <2>2, <2>10, <2>13, <2>14, <2>15, <2>16 DEF Tracks, Grows, Frame, w, id, g
<1> QED
  BY <1>2, <1>3

\* A table of the protocol: up to three fields, each added once.
LaidOut(table) ==
  /\ DOMAIN table.fields \subseteq 1 .. 3
  /\ table.adds \in Seq(Nat) /\ Len(table.adds) <= 3
  /\ \A m \in 1 .. Len(table.adds) : table.adds[m] \in DOMAIN table.fields
  /\ \A m, n \in 1 .. Len(table.adds) : table.adds[m] = table.adds[n] => m = n
  /\ \A i \in DOMAIN table.fields : \E m \in 1 .. Len(table.adds) : table.adds[m] = i
  /\ \A i \in DOMAIN table.fields : table.fields[i].required => ~IsScalar(table.fields[i])

GoodArguments(f, table, args) ==
  \A i \in DOMAIN table.fields : Argument(f, table.fields[i], args[i])

\* The default of a field, which is not stored.
IsDefault(field, arg) ==
  IsScalar(field) /\ LittleEndian(arg, FieldSize(field)) = Zeros(FieldSize(field))

\* An entry for a field that has been added to a table begun by f.
EntryIs(f, g, table, args, l, i) ==
  /\ l.id = VT(i) /\ l.id <= g.maxv
  /\ FieldIs(g.bytes, l.off, table.fields[i], args[i])
  /\ FieldSize(table.fields[i]) <= g.minalign
  /\ Size(f) + FieldSize(table.fields[i]) <= l.off /\ l.off <= Size(g)

\* The table begun by f after n fields have been added.
Adding(f, g, table, args, n) ==
  /\ Sound(g) /\ EndsWith(g.bytes, f.bytes) /\ f.minalign <= g.minalign
  /\ g.vtables = f.vtables /\ g.nested = TRUE /\ g.finished = f.finished
  /\ Size(g) <= Size(f) + 16 * n
  /\ \A k \in DOMAIN g.fields : \E m \in 1 .. n : EntryIs(f, g, table, args, g.fields[k], table.adds[m])
  /\ \A j, k \in DOMAIN g.fields : g.fields[j].id = g.fields[k].id => j = k
  /\ \A m \in 1 .. n :
       \/ IsDefault(table.fields[table.adds[m]], args[table.adds[m]])
       \/ \E k \in DOMAIN g.fields : g.fields[k].id = VT(table.adds[m])
  /\ IF g.fields = <<>> THEN g.maxv = 0 ELSE \E k \in DOMAIN g.fields : g.fields[k].id = g.maxv

LEMMA ArgumentStays ==
  ASSUME NEW f, NEW g, Size(f) \in Nat, Size(g) \in Nat, Size(f) <= Size(g),
         NEW field, NEW arg, Argument(f, field, arg)
  PROVE  Argument(g, field, arg)
BY DEF Argument

LEMMA FieldBytesType ==
  ASSUME NEW f, NEW field, NEW arg, Argument(f, field, arg), NEW off \in Nat
  PROVE  FieldBytes(field, arg, off) \in Seq(Byte) /\ Len(FieldBytes(field, arg, off)) = FieldSize(field)
         /\ FieldSize(field) \in Nat /\ 1 <= FieldSize(field) /\ FieldSize(field) <= 8
<1>1. FieldSize(field) \in Nat /\ 1 <= FieldSize(field) /\ FieldSize(field) <= 8
  BY EightNat DEF Argument
<1>2. CASE IsScalar(field)
  <2>1. arg \in Int
    BY <1>2 DEF Argument
  <2> QED
    BY <1>1, <1>2, <2>1, LittleEndianType DEF FieldBytes
<1>3. CASE ~IsScalar(field)
  <2>1. off - arg \in Int /\ FieldSize(field) = 4
    BY <1>3 DEF Argument, FieldSize
  <2> QED
    BY <1>1, <1>3, <2>1, LengthBytes DEF FieldBytes
<1> QED
  BY <1>2, <1>3

LEMMA FieldStays ==
  ASSUME NEW f, NEW field, NEW arg, Argument(f, field, arg),
         NEW b, NEW c, EndsWith(c, b), NEW off, FieldIs(b, off, field, arg)
  PROVE  FieldIs(c, off, field, arg)
<1>1. off \in Nat /\ Stands(b, off, FieldBytes(field, arg, off))
  BY DEF FieldIs
<1>2. FieldBytes(field, arg, off) \in Seq(Byte)
  BY <1>1, FieldBytesType
<1>3. Stands(c, off, FieldBytes(field, arg, off))
  BY <1>1, <1>2, StandsStays
<1> QED
  BY <1>3 DEF FieldIs

LEMMA AddingStart ==
  ASSUME NEW f, Outside(f), NEW table, NEW args
  PROVE  Adding(f, StartTable(f), table, args, 0)
<1> DEFINE g == StartTable(f)
<1>1. g = [f EXCEPT !.nested = TRUE]
  BY OutsideNotNested DEF StartTable
<1>2. Sound(f) /\ f \in Builders /\ f.fields = <<>> /\ f.maxv = 0
  BY DEF Outside, Sound
<1>3. f.bytes \in Seq(Byte) /\ f.minalign \in Alignments /\ Size(f) \in Nat
  BY <1>2, SizeNat
<1> HIDE DEF g
<1>4. /\ g \in Builders /\ g.bytes = f.bytes /\ g.fields = f.fields /\ g.vtables = f.vtables
      /\ g.maxv = f.maxv /\ g.minalign = f.minalign /\ g.nested = TRUE /\ g.finished = f.finished
      /\ g.reserved = f.reserved /\ g.offsets = f.offsets /\ g.force = f.force
      /\ g.dedup = f.dedup /\ g.asserts = f.asserts
  BY <1>1, <1>2 DEF Builders
<1>5. Size(g) = Size(f) /\ ScratchSize(g) = ScratchSize(f)
  BY <1>4 DEF Size, ScratchSize
<1>6. Sound(g)
  BY <1>2, <1>4, <1>5 DEF Sound
<1>7. EndsWith(g.bytes, f.bytes) /\ f.minalign <= g.minalign
  BY <1>3, <1>4, EndsWithItself DEF Alignments
<1>8. Size(g) <= Size(f) + 16 * 0
  BY <1>3, <1>5
<1>9. DOMAIN g.fields = {} /\ g.fields = <<>>
  BY <1>2, <1>4
<1>10. 1 .. 0 = {}
  OBVIOUS
<1> QED
  BY <1>2, <1>4, <1>6, <1>7, <1>8, <1>9, <1>10 DEF Adding, g

\* What an entry says stays true while the builder grows.
LEMMA EntryStays ==
  ASSUME NEW f, NEW g, NEW h, NEW table, NEW args, NEW l, NEW i \in DOMAIN table.fields,
         GoodArguments(f, table, args), EntryIs(f, g, table, args, l, i),
         EndsWith(h.bytes, g.bytes), l.id \in Nat, Size(g) \in Nat, Size(h) \in Nat,
         g.maxv \in Nat, h.maxv \in Nat, g.minalign \in Nat, h.minalign \in Nat,
         g.maxv <= h.maxv, g.minalign <= h.minalign, Size(g) <= Size(h)
  PROVE  EntryIs(f, h, table, args, l, i)
<1>1. Argument(f, table.fields[i], args[i])
  BY DEF GoodArguments
<1>2. FieldIs(g.bytes, l.off, table.fields[i], args[i])
  BY DEF EntryIs
<1>3. FieldIs(h.bytes, l.off, table.fields[i], args[i])
  BY <1>1, <1>2, FieldStays
<1>4. FieldSize(table.fields[i]) \in Nat /\ l.off \in Nat
  BY <1>1, <1>2, EightNat DEF Argument, FieldIs
<1>5. FieldSize(table.fields[i]) <= h.minalign
  BY <1>4 DEF EntryIs
<1>6. l.id <= h.maxv
  BY DEF EntryIs
<1>7. l.off <= Size(h)
  BY <1>4 DEF EntryIs
<1> QED
  BY <1>3, <1>5, <1>6, <1>7 DEF EntryIs

LEMMA AddingStep ==
  ASSUME NEW f, Sound(f), NEW g, NEW table, NEW args, LaidOut(table), GoodArguments(f, table, args),
         NEW n \in 1 .. Len(table.adds), Adding(f, g, table, args, n - 1), Size(f) + 100 < MaxSize
  PROVE  LET i == table.adds[n]
         IN  Adding(f, AddField(g, i, table.fields[i], args[i]), table, args, n)
<1> DEFINE i == table.adds[n]
           field == table.fields[i]
           arg == args[i]
           h == AddField(g, i, field, arg)
<1>1. /\ Sound(g) /\ Size(f) \in Nat /\ Size(g) \in Nat /\ MaxSize \in Nat /\ Len(table.adds) \in Nat
      /\ n \in Nat /\ n <= 3
  <2>1. Sound(g) /\ Len(table.adds) \in Nat /\ Len(table.adds) <= 3
    BY DEF Adding, LaidOut
  <2>2. Size(f) \in Nat /\ Size(g) \in Nat
    BY <2>1, SizeNat
  <2> QED
    BY <2>1, <2>2, MaxSizeNat
<1>2. i \in DOMAIN table.fields /\ i \in Nat
  <2>1. i \in DOMAIN table.fields /\ DOMAIN table.fields \subseteq 1 .. 3
    BY DEF LaidOut
  <2> QED
    BY <2>1
<1>3. Size(g) <= Size(f) + 16 * (n - 1) /\ Size(f) <= Size(g) /\ Size(g) + 40 < MaxSize
  <2>1. Size(g) <= Size(f) + 16 * (n - 1)
    BY DEF Adding
  <2>2. Size(f) <= Size(g)
    BY DEF Adding, EndsWith, Size
  <2> QED
    BY <1>1, <2>1, <2>2
<1>4. Argument(g, field, arg)
  <2>1. Argument(f, field, arg)
    BY <1>2 DEF GoodArguments
  <2> QED
    BY <1>1, <1>3, <2>1, ArgumentStays
<1>5. Tracks(g, h, VT(i), field, arg) \/ (h = g /\ IsDefault(field, arg))
  BY <1>1, <1>2, <1>3, <1>4, AddFieldIs DEF IsDefault
<1>6. n - 1 \in Nat /\ 1 .. n = (1 .. n - 1) \cup {n}
  BY <1>1
<1>7. CASE h = g /\ IsDefault(field, arg)
  <2>1. Size(g) <= Size(f) + 16 * n
    BY <1>1, <1>3
  <2>2. \A m \in 1 .. n :
          \/ IsDefault(table.fields[table.adds[m]], args[table.adds[m]])
          \/ \E k \in DOMAIN g.fields : g.fields[k].id = VT(table.adds[m])
    BY <1>6, <1>7, Zenon DEF Adding
  <2>3. \A k \in DOMAIN g.fields :
          \E m \in 1 .. n : EntryIs(f, g, table, args, g.fields[k], table.adds[m])
    BY <1>6, Zenon DEF Adding
  <2>4. Adding(f, g, table, args, n)
    BY <2>1, <2>2, <2>3, Zenon DEF Adding
  <2> QED
    BY <1>7, <2>4, Zenon
<1>8. CASE Tracks(g, h, VT(i), field, arg)
  <2> DEFINE final == [off |-> Size(h), id |-> VT(i)]
             K == Len(g.fields)
  <2>1. /\ Sound(h) /\ EndsWith(h.bytes, g.bytes) /\ g.minalign <= h.minalign
        /\ h.vtables = g.vtables /\ h.nested = g.nested /\ h.finished = g.finished
        /\ h.fields = Append(g.fields, final)
        /\ h.maxv = IF VT(i) > g.maxv THEN VT(i) ELSE g.maxv
        /\ FieldIs(h.bytes, Size(h), field, arg)
        /\ FieldSize(field) <= h.minalign
        /\ Size(g) + FieldSize(field) <= Size(h) /\ Size(h) < Size(g) + 16
    BY <1>8, Zenon DEF Tracks
  <2>2. /\ g.fields \in Seq([off : Nat, id : Nat]) /\ g.maxv \in Nat /\ h.maxv \in Nat
        /\ Size(h) \in Nat /\ K \in Nat /\ VT(i) \in Nat
        /\ f.minalign \in Nat /\ g.minalign \in Nat /\ h.minalign \in Nat
    <3>1. g.fields \in Seq([off : Nat, id : Nat]) /\ g.maxv \in Nat
      BY <1>1 DEF Sound, Builders
    <3>2. h.maxv \in Nat /\ Size(h) \in Nat
      BY <2>1, SizeNat
    <3>3. f.minalign \in Alignments /\ g.minalign \in Alignments /\ h.minalign \in Alignments
      BY <1>1, <2>1, SizeNat
    <3>4. VT(i) \in Nat
      BY <1>2 DEF VT
    <3> QED
      BY <3>1, <3>2, <3>3, <3>4, EightNat
  <2>3. g.maxv <= h.maxv /\ VT(i) <= h.maxv
    <3> HIDE DEF h, i
    <3>1. h.maxv = IF VT(i) > g.maxv THEN VT(i) ELSE g.maxv
      BY <2>1
    <3> QED
      BY <2>2, <3>1
  <2>4. Size(g) <= Size(h) /\ FieldSize(field) \in Nat
    <3>1. FieldSize(field) \in Nat
      BY <1>4, EightNat DEF Argument
    <3>2. Size(g) + FieldSize(field) <= Size(h)
      BY <2>1
    <3> HIDE DEF h, field
    <3> QED
      BY <1>1, <2>2, <3>1, <3>2
  <2>5. /\ DOMAIN h.fields = 1 .. K + 1 /\ h.fields[K + 1] = final
        /\ \A k \in 1 .. K : h.fields[k] = g.fields[k]
        /\ DOMAIN g.fields = 1 .. K
        /\ 1 .. K + 1 = (1 .. K) \cup {K + 1} /\ K + 1 \notin 1 .. K
    <3> HIDE DEF final
    <3>1. h.fields = Append(g.fields, final)
      BY <2>1
    <3>2. g.fields \in Seq([off : Nat, id : Nat]) /\ K \in Nat
      BY <2>2
    <3>3. DOMAIN h.fields = 1 .. K + 1 /\ h.fields[K + 1] = final
      BY <3>1, <3>2
    <3>4. \A k \in 1 .. K : h.fields[k] = g.fields[k]
      BY <3>1, <3>2
    <3>5. DOMAIN g.fields = 1 .. K
      BY <3>2
    <3>6. 1 .. K + 1 = (1 .. K) \cup {K + 1} /\ K + 1 \notin 1 .. K
      BY <3>2
    <3> QED
      BY <3>3, <3>4, <3>5, <3>6
  <2>6. EntryIs(f, h, table, args, final, i)
    <3>1. final.id = VT(i) /\ final.off = Size(h)
      OBVIOUS
    <3>2. Size(f) + FieldSize(field) <= Size(h)
      <4>1. Size(g) + FieldSize(field) <= Size(h)
        BY <2>1
      <4> HIDE DEF h, field
      <4> QED
        BY <1>1, <1>3, <2>2, <2>4, <4>1
    <3>3. Size(h) <= Size(h)
      BY <2>2
    <3> HIDE DEF final, h
    <3> QED
      BY <2>1, <2>3, <3>1, <3>2, <3>3 DEF EntryIs
  <2>7. \A k \in DOMAIN g.fields :
          \E m \in 1 .. n - 1 : EntryIs(f, h, table, args, g.fields[k], table.adds[m])
    <3> SUFFICES ASSUME NEW k \in DOMAIN g.fields
                 PROVE \E m \in 1 .. n - 1 : EntryIs(f, h, table, args, g.fields[k], table.adds[m])
      OBVIOUS
    <3>1. PICK m \in 1 .. n - 1 : EntryIs(f, g, table, args, g.fields[k], table.adds[m])
      BY DEF Adding
    <3>2. table.adds[m] \in DOMAIN table.fields
      <4>1. m \in 1 .. Len(table.adds)
        BY <1>1
      <4> QED
        BY <4>1 DEF LaidOut
    <3>3. g.fields[k].id \in Nat
      <4> DEFINE R == [off : Nat, id : Nat]
      <4>1. g.fields \in Seq(R)
        BY <2>2
      <4> HIDE DEF R
      <4>2. g.fields[k] \in R
        BY <4>1
      <4>3. g.fields[k] \in [off : Nat, id : Nat]
        BY <4>2 DEF R
      <4> QED
        BY <4>3
    <3> HIDE DEF h
    <3> QED
      BY <1>1, <2>1, <2>2, <2>3, <2>4, <3>1, <3>2, <3>3, EntryStays
  <2> HIDE DEF final, K, h
  <2>8. \A k \in DOMAIN h.fields :
          \E m \in 1 .. n : EntryIs(f, h, table, args, h.fields[k], table.adds[m])
    <3> SUFFICES ASSUME NEW k \in DOMAIN h.fields
                 PROVE  \E m \in 1 .. n : EntryIs(f, h, table, args, h.fields[k], table.adds[m])
      OBVIOUS
    <3>1. CASE k = K + 1
      BY <1>6, <2>5, <2>6, <3>1, Zenon
    <3>2. CASE k \in 1 .. K
      BY <1>6, <2>5, <2>7, <3>2, Zenon
    <3> QED
      BY <2>5, <3>1, <3>2
  \* No entry has the new one's id, as the earlier fields are others.
  <2>9. \A k \in DOMAIN g.fields : g.fields[k].id # VT(i)
    <3> SUFFICES ASSUME NEW k \in DOMAIN g.fields, g.fields[k].id = VT(i) PROVE FALSE
      OBVIOUS
    <3>1. PICK m \in 1 .. n - 1 : g.fields[k].id = VT(table.adds[m])
      BY DEF Adding, EntryIs
    <3>2. m \in 1 .. Len(table.adds) /\ m # n
      BY <1>1
    <3>3. table.adds[m] \in Nat
      BY <3>2 DEF LaidOut
    <3>4. table.adds[m] = i
      BY <1>2, <3>1, <3>3 DEF VT
    <3> QED
      BY <3>2, <3>4 DEF LaidOut
  <2>10. \A j, k \in DOMAIN h.fields : h.fields[j].id = h.fields[k].id => j = k
    <3>1. final.id = VT(i)
      BY DEF final
    <3>2. \A j, k \in DOMAIN g.fields : g.fields[j].id = g.fields[k].id => j = k
      BY DEF Adding
    <3> QED
      BY <2>5, <2>9, <3>1, <3>2
  <2>11. \A m \in 1 .. n :
           \/ IsDefault(table.fields[table.adds[m]], args[table.adds[m]])
           \/ \E k \in DOMAIN h.fields : h.fields[k].id = VT(table.adds[m])
    <3> SUFFICES ASSUME NEW m \in 1 .. n,
                        ~IsDefault(table.fields[table.adds[m]], args[table.adds[m]])
                 PROVE  \E k \in DOMAIN h.fields : h.fields[k].id = VT(table.adds[m])
      OBVIOUS
    <3>1. CASE m = n
      <4>1. h.fields[K + 1].id = VT(table.adds[m])
        BY <2>5, <3>1 DEF final
      <4> QED
        BY <2>5, <4>1
    <3>2. CASE m \in 1 .. n - 1
      <4>1. PICK k \in DOMAIN g.fields : g.fields[k].id = VT(table.adds[m])
        BY <3>2 DEF Adding
      <4> QED
        BY <2>5, <4>1
    <3> QED
      BY <1>6, <3>1, <3>2
  <2>12. IF h.fields = <<>> THEN h.maxv = 0 ELSE \E k \in DOMAIN h.fields : h.fields[k].id = h.maxv
    <3>1. h.fields # <<>>
      BY <2>2, <2>5
    <3>2. CASE h.maxv = VT(i)
      <4>1. h.fields[K + 1].id = h.maxv
        BY <2>5, <3>2 DEF final
      <4> QED
        BY <2>5, <3>1, <4>1
    <3>3. CASE h.maxv # VT(i)
      <4>1. h.maxv = g.maxv /\ VT(i) <= g.maxv /\ 2 <= VT(i)
        BY <1>2, <2>1, <2>2, <3>3 DEF VT
      <4>2. g.maxv # 0
        BY <2>2, <4>1
      <4>3. PICK k \in DOMAIN g.fields : g.fields[k].id = g.maxv
        BY <4>2 DEF Adding
      <4> QED
        BY <2>5, <3>1, <4>1, <4>3
    <3> QED
      BY <3>2, <3>3
  <2>13. Size(h) <= Size(f) + 16 * n
    BY <1>1, <1>3, <2>1, <2>2
  <2>14. EndsWith(h.bytes, f.bytes) /\ f.minalign <= h.minalign
    <3>1. EndsWith(g.bytes, f.bytes) /\ f.minalign <= g.minalign
      BY DEF Adding
    <3> QED
      BY <2>1, <2>2, <3>1, EndsWithTransitive
  <2>15. h.vtables = f.vtables /\ h.nested = TRUE /\ h.finished = f.finished
    BY <2>1 DEF Adding
  <2>16. Adding(f, h, table, args, n)
    BY <2>1, <2>8, <2>10, <2>11, <2>12, <2>13, <2>14, <2>15, Zenon DEF Adding
  <2> QED
    BY <2>16 DEF h
<1> QED
  BY <1>5, <1>7, <1>8

LEMMA AddFieldsIs ==
  ASSUME NEW f, Outside(f), NEW table, NEW args, LaidOut(table), GoodArguments(f, table, args),
         Size(f) + 100 < MaxSize
  PROVE  Adding(f, AddFields(StartTable(f), table, args), table, args, Len(table.adds))
<1> DEFINE N == Len(table.adds)
           e == StartTable(f)
           P == [n \in 0 .. N |-> {g \in Builders : Adding(f, g, table, args, n)}]
           step == [x \in Builders \X (1 .. N) |->
                      AddField(x[1], table.adds[x[2]], table.fields[table.adds[x[2]]],
                               args[table.adds[x[2]]])]
           Is(r) == r = [n \in 0 .. N |->
                      IF n = 0 THEN e
                      ELSE LET i == table.adds[n] IN AddField(r[n - 1], i, table.fields[i], args[i])]
           added == CHOOSE r : Is(r)
<1>1. N \in Nat /\ Sound(f)
  BY DEF LaidOut, Outside
<1>2. AddFields(e, table, args) = added[N]
  BY Zenon DEF AddFields
<1>3. e \in P[0]
  <2>1. Adding(f, e, table, args, 0)
    BY AddingStart
  <2>2. e \in Builders
    BY <2>1 DEF Adding, Sound
  <2> HIDE DEF e
  <2> QED
    BY <1>1, <2>1, <2>2
<1>4. ASSUME NEW n \in 1 .. N, NEW x \in P[n - 1]
      PROVE  LET i == table.adds[n] IN AddField(x, i, table.fields[i], args[i]) \in P[n]
  <2> DEFINE i == table.adds[n]
             h == AddField(x, i, table.fields[i], args[i])
  <2>1. n - 1 \in 0 .. N /\ n \in 0 .. N
    BY <1>1
  <2>2. x \in Builders /\ Adding(f, x, table, args, n - 1)
    BY <2>1
  <2>3. Adding(f, h, table, args, n)
    BY <1>1, <2>2, AddingStep
  <2>4. h \in Builders
    BY <2>3 DEF Adding, Sound
  <2> HIDE DEF h
  <2>5. h \in P[n]
    BY <2>1, <2>3, <2>4
  <2> QED
    BY <2>5 DEF h
<1>5. \A n \in 0 .. N : P[n] \subseteq Builders
  OBVIOUS
<1>6. \A n \in 1 .. N : \A x \in P[n - 1] :
        step[<<x, n>>] = LET i == table.adds[n] IN AddField(x, i, table.fields[i], args[i])
  <2> SUFFICES ASSUME NEW n \in 1 .. N, NEW x \in P[n - 1]
               PROVE  step[<<x, n>>] = LET i == table.adds[n] IN AddField(x, i, table.fields[i], args[i])
    OBVIOUS
  <2>1. n - 1 \in 0 .. N
    BY <1>1
  <2>2. x \in Builders
    BY <1>5, <2>1
  <2>3. <<x, n>> \in Builders \X (1 .. N)
    BY <2>2
  <2> QED
    BY <2>3
<1> HIDE DEF P
<1>7. PICK g \in [0 .. N -> Builders] :
        g[0] = e /\ \A n \in 1 .. N : g[n] = step[<<g[n - 1], n>>]
  <2>1. \A n \in 1 .. N : \A x \in P[n - 1] : step[<<x, n>>] \in P[n]
    BY <1>4, <1>6
  <2> HIDE DEF step, e, N
  <2> QED
    <3>1. Steps(N, Builders, P, e, step)
      BY <1>1, <1>3, <1>5, <2>1 DEF Steps
    <3> QED
      BY <3>1, Recursion
<1>8. \A n \in 0 .. N : g[n] \in P[n]
  <2>1. ASSUME NEW n \in 1 .. N, g[n - 1] \in P[n - 1] PROVE g[n] \in P[n]
    <3>1. g[n] = step[<<g[n - 1], n>>]
      BY <1>7
    <3> HIDE DEF step
    <3>2. step[<<g[n - 1], n>>] \in P[n]
      BY <1>4, <1>6, <2>1
    <3> QED
      BY <3>1, <3>2
  <2> HIDE DEF step, e, N
  <2> QED
    BY <1>1, <1>3, <1>7, <2>1, Along
<1>9. Is(g)
  <2>1. \A n \in 1 .. N : g[n] = LET i == table.adds[n] IN AddField(g[n - 1], i, table.fields[i], args[i])
    <3> SUFFICES ASSUME NEW n \in 1 .. N
                 PROVE g[n] = LET i == table.adds[n] IN AddField(g[n - 1], i, table.fields[i], args[i])
      OBVIOUS
    <3>1. n - 1 \in 0 .. N
      BY <1>1
    <3> QED
      BY <1>6, <1>7, <1>8, <3>1
  <2> HIDE DEF e
  <2> QED
    BY <1>1, <1>7, <2>1
<1>10. Is(added)
  BY <1>9, Zenon
<1> HIDE DEF added
<1>11. added[0] = e /\ \A n \in 1 .. N : added[n] = LET i == table.adds[n] IN AddField(added[n - 1], i, table.fields[i], args[i])
  <2> HIDE DEF e, N
  <2>1. added[0] = e
    BY <1>1, <1>10
  <2>2. ASSUME NEW n \in 1 .. N
        PROVE added[n] = LET i == table.adds[n] IN AddField(added[n - 1], i, table.fields[i], args[i])
    <3>1. n \in 0 .. N /\ n # 0
      BY <1>1
    <3> QED
      BY <1>10, <3>1, Zenon
  <2> QED
    BY <2>1, <2>2
<1>12. \A n \in 0 .. N : added[n] \in P[n]
  <2>1. \A n \in 1 .. N : added[n - 1] \in P[n - 1] => added[n] \in P[n]
    BY <1>4, <1>11
  <2> HIDE DEF e, N
  <2> QED
    BY <1>1, <1>3, <1>11, <2>1, Along
<1>13. added[N] \in P[N] /\ N \in 0 .. N
  BY <1>1, <1>12
<1> QED
  BY <1>2, <1>13 DEF P

------------------------------------------------------------------------------
(* The end of a table: its vtable.                                          *)

\* What VTableBytes puts at place v of a vtable.
VEntry(f, size, start, v) ==
  CASE v = 0 -> size
    [] v = 2 -> f.result - start
    [] OTHER -> IF {l \in Range(f.fields) : l.id = v} = {} THEN 0
                ELSE f.result - (CHOOSE l \in {l \in Range(f.fields) : l.id = v} : TRUE).off

LEMMA PairOf ==
  ASSUME NEW j \in Nat
  PROVE  /\ ((2 * j + 1) - 1) \div 2 = j /\ ((2 * j + 1) - 1) % 2 = 0
         /\ ((2 * j + 2) - 1) \div 2 = j /\ ((2 * j + 2) - 1) % 2 = 1
BY SMT

LEMMA HalfOf ==
  ASSUME NEW n \in Nat, NEW k \in 1 .. 2 * n
  PROVE  (k - 1) \div 2 \in Nat /\ (k - 1) \div 2 < n
         /\ ((k - 1) % 2 = 0 \/ (k - 1) % 2 = 1)
BY SMT

LEMMA VTableBytesIs ==
  ASSUME NEW f, NEW n \in Nat, NEW size, size = 2 * n, NEW start,
         \A j \in 0 .. n - 1 : Unsigned16(VEntry(f, size, start, 2 * j))
  PROVE  LET vt == VTableBytes(f, size, start)
         IN  /\ vt \in Seq(Byte) /\ Len(vt) = size
             /\ \A j \in 0 .. n - 1 : /\ vt[2 * j + 1] = LittleEndian(VEntry(f, size, start, 2 * j), 2)[1]
                                      /\ vt[2 * j + 2] = LittleEndian(VEntry(f, size, start, 2 * j), 2)[2]
<1> DEFINE entry(v) == VEntry(f, size, start, v)
           vt == [k \in 1 .. size |-> LittleEndian(entry(2 * ((k - 1) \div 2)), 2)[((k - 1) % 2) + 1]]
<1>1. VTableBytes(f, size, start) = vt
  BY Zenon DEF VTableBytes, VEntry
<1>2. \A j \in 0 .. n - 1 : /\ LittleEndian(entry(2 * j), 2)[1] \in Byte
                            /\ LittleEndian(entry(2 * j), 2)[2] \in Byte
  <2> SUFFICES ASSUME NEW j \in 0 .. n - 1
               PROVE  /\ LittleEndian(entry(2 * j), 2)[1] \in Byte
                      /\ LittleEndian(entry(2 * j), 2)[2] \in Byte
    OBVIOUS
  <2>1. entry(2 * j) \in Int
    BY DEF Unsigned16
  <2> HIDE DEF entry
  <2>2. LittleEndian(entry(2 * j), 2) \in [1 .. 2 -> Byte]
    BY <2>1, LittleEndianType
  <2> QED
    BY <2>2
<1> HIDE DEF entry
<1>3. ASSUME NEW k \in 1 .. size PROVE vt[k] \in Byte
  <2> DEFINE j == (k - 1) \div 2
  <2>1. j \in 0 .. n - 1 /\ ((k - 1) % 2 = 0 \/ (k - 1) % 2 = 1)
    BY HalfOf
  <2>2. vt[k] = LittleEndian(entry(2 * j), 2)[((k - 1) % 2) + 1]
    OBVIOUS
  <2> HIDE DEF vt, j
  <2>3. CASE (k - 1) % 2 = 0
    <3>1. vt[k] = LittleEndian(entry(2 * j), 2)[1]
      BY <2>2, <2>3
    <3> QED
      BY <1>2, <2>1, <3>1
  <2>4. CASE (k - 1) % 2 = 1
    <3>1. vt[k] = LittleEndian(entry(2 * j), 2)[2]
      BY <2>2, <2>4
    <3> QED
      BY <1>2, <2>1, <3>1
  <2> QED
    BY <2>1, <2>3, <2>4
<1>4. vt \in [1 .. size -> Byte] /\ size \in Nat
  <2>1. DOMAIN vt = 1 .. size /\ vt = [k \in 1 .. size |-> vt[k]]
    OBVIOUS
  <2> HIDE DEF vt
  <2> QED
    BY <1>3, <2>1
<1>5. vt \in Seq(Byte) /\ Len(vt) = size
  <2> HIDE DEF vt
  <2> QED
    BY <1>4
<1>6. ASSUME NEW j \in 0 .. n - 1
      PROVE  vt[2 * j + 1] = LittleEndian(entry(2 * j), 2)[1] /\ vt[2 * j + 2] = LittleEndian(entry(2 * j), 2)[2]
  <2>1. 2 * j + 1 \in 1 .. size /\ 2 * j + 2 \in 1 .. size
    OBVIOUS
  <2>2. /\ vt[2 * j + 1] = LittleEndian(entry(2 * (((2 * j + 1) - 1) \div 2)), 2)[(((2 * j + 1) - 1) % 2) + 1]
        /\ vt[2 * j + 2] = LittleEndian(entry(2 * (((2 * j + 2) - 1) \div 2)), 2)[(((2 * j + 2) - 1) % 2) + 1]
    <3>1. \A k \in 1 .. size : vt[k] = LittleEndian(entry(2 * ((k - 1) \div 2)), 2)[((k - 1) % 2) + 1]
      OBVIOUS
    <3> HIDE DEF vt
    <3> QED
      BY <2>1, <3>1, Zenon
  <2>3. /\ ((2 * j + 1) - 1) \div 2 = j /\ ((2 * j + 1) - 1) % 2 = 0
        /\ ((2 * j + 2) - 1) \div 2 = j /\ ((2 * j + 2) - 1) % 2 = 1 /\ 0 + 1 = 1 /\ 1 + 1 = 2
    <3>1. j \in Nat
      OBVIOUS
    <3> QED
      BY <3>1, PairOf
  <2> HIDE DEF vt
  <2> QED
    BY <2>2, <2>3, Zenon
<1> HIDE DEF vt
<1> QED
  BY <1>1, <1>5, <1>6 DEF entry

Entries(f, n, start) == \A j \in 0 .. n - 1 : Unsigned16(VEntry(f, 2 * n, start, 2 * j))

\* An entry of a vtable that stands somewhere is read back.
LEMMA EntriesRead ==
  ASSUME NEW f, NEW n \in Nat, NEW start, Entries(f, n, start),
         NEW b \in Seq(Byte), NEW v \in Nat, Stands(b, v, VTableBytes(f, 2 * n, start)),
         NEW j \in 0 .. n - 1
  PROVE  U16(b, Len(b) - v + 2 * j) = VEntry(f, 2 * n, start, 2 * j)
<1> DEFINE size == 2 * n
           vt == VTableBytes(f, size, start)
           x == VEntry(f, size, start, 2 * j)
           s == LittleEndian(x, 2)
<1>0. /\ size = 2 * n /\ size \in Nat /\ \A i \in 0 .. n - 1 : Unsigned16(VEntry(f, size, start, 2 * i))
      /\ Stands(b, v, vt)
  BY DEF Entries
<1> HIDE DEF size
<1>1. /\ vt \in Seq(Byte) /\ Len(vt) = size
      /\ vt[2 * j + 1] = s[1] /\ vt[2 * j + 2] = s[2]
  BY <1>0, VTableBytesIs
<1>2. Unsigned16(x)
  BY <1>0
<1>3. s \in Seq(Byte) /\ Len(s) = 2
  <2>1. x \in Int /\ 2 \in Nat
    BY <1>2 DEF Unsigned16
  <2> HIDE DEF x
  <2> QED
    BY <2>1, LittleEndianType, Zenon
<1> HIDE DEF vt, x, s
<1>4. v - 2 * j \in Nat /\ 2 <= v - 2 * j /\ Len(b) \in Nat /\ v <= Len(b) /\ size <= v
  <2>1. Stands(b, v, vt)
    BY <1>0 DEF vt
  <2>2. size <= v /\ v <= Len(b)
    BY <1>1, <2>1 DEF Stands
  <2>3. 2 * j + 2 <= size
    BY <1>0
  <2> QED
    BY <1>0, <2>2, <2>3
<1>5. Stands(b, v - 2 * j, s)
  <2>1. /\ b[Len(b) - v + (2 * j + 1)] = vt[2 * j + 1]
        /\ b[Len(b) - v + (2 * j + 2)] = vt[2 * j + 2]
    <3>1. 2 * j + 1 \in 1 .. Len(vt) /\ 2 * j + 2 \in 1 .. Len(vt)
      BY <1>0, <1>1
    <3>2. Stands(b, v, vt)
      BY <1>0 DEF vt
    <3> QED
      BY <3>1, <3>2 DEF Stands
  <2>2. /\ Len(b) - v + (2 * j + 1) = Len(b) - (v - 2 * j) + 1
        /\ Len(b) - v + (2 * j + 2) = Len(b) - (v - 2 * j) + 2
    BY <1>4
  <2>3. 2 <= v - 2 * j /\ v - 2 * j <= Len(b)
    BY <1>4
  <2>4. \A k \in 1 .. Len(s) : k = 1 \/ k = 2
    BY <1>3
  <2> QED
    BY <1>1, <1>3, <2>1, <2>2, <2>3, <2>4 DEF Stands
<1>6. U16(b, Len(b) - (v - 2 * j)) = x
  BY <1>2, <1>4, <1>5, Read16 DEF s
<1>7. Len(b) - (v - 2 * j) = Len(b) - v + 2 * j
  BY <1>4
<1> QED
  BY <1>6, <1>7 DEF x, size

\* Some bytes are overwritten: those before and after them stay.
LEMMA WriteIs ==
  ASSUME NEW f, f \in Builders, NEW off \in Nat, NEW s \in Seq(Byte), Len(s) <= off, off <= Size(f)
  PROVE  LET g == Write(f, off, s)
         IN  /\ g = [f EXCEPT !.bytes = g.bytes]
             /\ g.bytes \in Seq(Byte) /\ Len(g.bytes) = Size(f)
             /\ Stands(g.bytes, off, s)
             /\ \A d \in 1 .. Size(f) : d > off \/ d <= off - Len(s) =>
                  g.bytes[Size(f) - d + 1] = f.bytes[Size(f) - d + 1]
<1> DEFINE b == f.bytes
           first == Size(f) - off
           c == [p \in DOMAIN b |-> IF p - first \in 1 .. Len(s) THEN s[p - first] ELSE b[p]]
           g == Write(f, off, s)
<1>1. g = [f EXCEPT !.bytes = c]
  BY DEF Write
<1>2. b \in Seq(Byte) /\ Size(f) = Len(b) /\ Len(b) \in Nat /\ DOMAIN b = 1 .. Len(b)
  <2>1. b \in Seq(Byte)
    BY DEF Builders
  <2> HIDE DEF b
  <2>2. Len(b) \in Nat /\ DOMAIN b = 1 .. Len(b)
    BY <2>1
  <2> QED
    BY <2>1, <2>2 DEF Size, b
<1> HIDE DEF b
<1>3. first \in Nat /\ Len(s) \in Nat
  BY <1>2
<1>4. c \in [1 .. Len(b) -> Byte]
  <2>1. \A p \in 1 .. Len(b) : b[p] \in Byte
    BY <1>2
  <2>2. \A p \in 1 .. Len(b) : p - first \in 1 .. Len(s) => s[p - first] \in Byte
    OBVIOUS
  <2> QED
    BY <1>2, <2>1, <2>2
<1>5. c \in Seq(Byte) /\ Len(c) = Len(b)
  <2> HIDE DEF c
  <2> QED
    BY <1>2, <1>4
<1>6. g.bytes = c /\ g = [f EXCEPT !.bytes = g.bytes]
  <2> HIDE DEF c
  <2> QED
    BY <1>1 DEF Builders
<1>7. Stands(c, off, s)
  <2>1. ASSUME NEW k \in 1 .. Len(s) PROVE c[Len(c) - off + k] = s[k]
    <3>1. first + k \in 1 .. Len(b) /\ (first + k) - first = k
      BY <1>2, <1>3
    <3>2. c[first + k] = s[k]
      BY <1>2, <3>1
    <3> QED
      BY <1>2, <1>5, <3>2
  <2> HIDE DEF c
  <2> QED
    BY <1>2, <1>5, <2>1 DEF Stands
<1>8. ASSUME NEW d \in 1 .. Size(f), d > off \/ d <= off - Len(s)
      PROVE  c[Size(f) - d + 1] = b[Size(f) - d + 1]
  <2>1. Size(f) - d + 1 \in 1 .. Len(b)
    BY <1>2
  <2>2. (Size(f) - d + 1) - first \notin 1 .. Len(s)
    BY <1>2, <1>3, <1>8
  <2> QED
    BY <1>2, <2>1, <2>2
<1> HIDE DEF c, g
<1> QED
  BY <1>2, <1>5, <1>6, <1>7, <1>8, Zenon DEF g, b

\* The place of a vtable is noted in the scratch pad.
LEMMA KeepVTableIs ==
  ASSUME NEW f, Sound(f), Size(f) < MaxSize
  PROVE  LET g == KeepVTable(f)
         IN  /\ Sound(g) /\ g.bytes = f.bytes /\ g.result = f.result
             /\ g.vtables = Append(f.vtables, Size(f))
             /\ g.fields = f.fields /\ g.maxv = f.maxv /\ g.minalign = f.minalign
             /\ g.nested = f.nested /\ g.finished = f.finished
<1> DEFINE g == KeepVTable(f)
<1>1. PICK r \in Nat : /\ EnsureSpace(f, 4) = [f EXCEPT !.reserved = r]
                       /\ Size(f) + ScratchSize(f) + 4 <= r
  BY Ensured
<1> DEFINE h == [[f EXCEPT !.reserved = r] EXCEPT !.vtables = Append(@, Size(f))]
<1>2. f \in Builders /\ f.asserts = TRUE /\ f.offsets = <<>>
  BY DEF Sound
<1>3. Append(f.vtables, Size(f)) \in Seq(Nat) /\ Len(Append(f.vtables, Size(f))) = Len(f.vtables) + 1
  <2>1. f.vtables \in Seq(Nat) /\ Size(f) \in Nat
    BY <1>2, SizeNat DEF Builders
  <2> QED
    BY <2>1
<1>4. /\ h \in Builders
      /\ h.bytes = f.bytes /\ h.reserved = r /\ h.fields = f.fields /\ h.offsets = f.offsets
      /\ h.vtables = Append(f.vtables, Size(f))
      /\ h.maxv = f.maxv /\ h.minalign = f.minalign /\ h.nested = f.nested
      /\ h.finished = f.finished /\ h.result = f.result /\ h.force = f.force
      /\ h.dedup = f.dedup /\ h.asserts = f.asserts
  <2> DEFINE w == Append(f.vtables, Size(f))
  <2>1. w \in Seq(Nat)
    BY <1>3
  <2> HIDE DEF w
  <2>2. h = [[f EXCEPT !.reserved = r] EXCEPT !.vtables = w]
    BY <1>2 DEF w, Builders
  <2> HIDE DEF h
  <2>3. /\ h \in Builders
        /\ h.bytes = f.bytes /\ h.reserved = r /\ h.fields = f.fields /\ h.offsets = f.offsets
        /\ h.vtables = w
        /\ h.maxv = f.maxv /\ h.minalign = f.minalign /\ h.nested = f.nested
        /\ h.finished = f.finished /\ h.result = f.result /\ h.force = f.force
        /\ h.dedup = f.dedup /\ h.asserts = f.asserts
    BY <1>2, <2>1, <2>2 DEF Builders
  <2> QED
    BY <2>3 DEF w
<1> HIDE DEF h
<1>5. Size(h) + ScratchSize(h) <= h.reserved
  <2>1. Size(h) = Size(f)
    BY <1>4 DEF Size
  <2>2. Len(f.fields) \in Nat /\ Len(f.vtables) \in Nat
    <3>1. f.fields \in Seq([off : Nat, id : Nat]) /\ f.vtables \in Seq(Nat)
      BY <1>2 DEF Builders
    <3> QED
      BY <3>1
  <2>3. Len(h.vtables) = Len(f.vtables) + 1
    BY <1>3, <1>4
  <2>4. ScratchSize(h) = 8 * Len(f.fields) + 4 * (Len(f.vtables) + 1)
    BY <1>2, <1>4, <2>2, <2>3 DEF ScratchSize
  <2>5. ScratchSize(f) = 8 * Len(f.fields) + 4 * Len(f.vtables)
    BY SizeNat
  <2>6. \A m1, n1 \in Nat : 8 * m1 + 4 * (n1 + 1) = (8 * m1 + 4 * n1) + 4
    BY SMT
  <2>7. ScratchSize(h) = ScratchSize(f) + 4
    BY <2>2, <2>4, <2>5, <2>6
  <2>8. Size(f) \in Nat /\ ScratchSize(f) \in Nat
    BY SizeNat
  <2> QED
    BY <1>1, <1>4, <2>1, <2>7, <2>8
<1>6. g = Fitted(h)
  BY <1>1 DEF h, KeepVTable, Size
<1>7. Fitted(h) = h
  BY <1>2, <1>4, <1>5 DEF Fitted, Asserting, Builders
<1> HIDE DEF g
<1> QED
  BY <1>2, <1>4, <1>5, <1>6, <1>7 DEF Sound, g

\* The vtables that may be shared: they lie in the buffer, at even distances.
VTables(b, vtables) ==
  \A k \in DOMAIN vtables :
    /\ vtables[k] \in Nat /\ vtables[k] % 2 = 0
    /\ 4 <= vtables[k] /\ vtables[k] <= Len(b)
    /\ U16(b, Len(b) - vtables[k]) <= vtables[k]

LEMMA VTablesStay ==
  ASSUME NEW b, NEW c, EndsWith(c, b), NEW vtables, VTables(b, vtables)
  PROVE  VTables(c, vtables)
<1> SUFFICES ASSUME NEW k \in DOMAIN vtables
             PROVE  /\ vtables[k] <= Len(c)
                    /\ U16(c, Len(c) - vtables[k]) <= vtables[k]
  BY DEF VTables
<1> DEFINE d == vtables[k]
<1>1. d \in Nat /\ 4 <= d /\ d <= Len(b) /\ U16(b, Len(b) - d) <= d
  BY DEF VTables
<1> HIDE DEF d
<1>2. Len(b) \in Nat /\ Len(c) \in Nat /\ Len(b) <= Len(c)
  BY DEF EndsWith
<1>3. d \in 2 .. Len(b)
  BY <1>1, <1>2
<1>4. U16(c, Len(c) - d) = U16(b, Len(b) - d)
  BY <1>3, U16Stays
<1> QED
  BY <1>1, <1>2, <1>4 DEF d

LEMMA VTablesKept ==
  ASSUME NEW b \in Seq(Byte), NEW vtables \in Seq(Nat), VTables(b, vtables), NEW d \in Nat, d % 2 = 0,
         4 <= d, d <= Len(b), U16(b, Len(b) - d) <= d
  PROVE  VTables(b, Append(vtables, d))
<1> DEFINE w == Append(vtables, d)
<1>1. /\ DOMAIN w = 1 .. Len(vtables) + 1 /\ Len(vtables) \in Nat
      /\ w[Len(vtables) + 1] = d
      /\ \A k \in 1 .. Len(vtables) : w[k] = vtables[k] /\ k \in DOMAIN vtables
  OBVIOUS
<1> HIDE DEF w
<1>2. ASSUME NEW k \in DOMAIN w PROVE w[k] = d \/ \E j \in DOMAIN vtables : w[k] = vtables[j]
  <2>1. k \in 1 .. Len(vtables) \/ k = Len(vtables) + 1
    BY <1>1
  <2> QED
    BY <1>1, <2>1
<1>3. VTables(b, w)
  BY <1>2 DEF VTables
<1> QED
  BY <1>3 DEF w

\* The last bytes pushed are taken back.
LEMMA PopIs ==
  ASSUME NEW f, Sound(f), NEW s \in Seq(Byte), NEW b \in Seq(Byte), f.bytes = s \o b
  PROVE  LET g == Pop(f, Len(s))
         IN  /\ Sound(g) /\ Frame(f, g) /\ g.bytes = b
             /\ g.result = f.result /\ g.minalign = f.minalign
<1> DEFINE n == Len(s)
           c == s \o b
           e == SubSeq(c, n + 1, Len(c))
<1>1. n \in Nat /\ Len(b) \in Nat /\ c \in Seq(Byte) /\ Len(c) = n + Len(b)
  OBVIOUS
<1>2. e = b
  <2>1. e \in Seq(Byte) /\ Len(e) = Len(b)
    BY <1>1
  <2>2. ASSUME NEW k \in 1 .. Len(b) PROVE e[k] = b[k]
    <3>1. e[k] = c[n + k]
      BY <1>1
    <3>2. c[n + k] = b[k]
      BY <1>1
    <3> QED
      BY <3>1, <3>2
  <2> HIDE DEF e
  <2> QED
    BY <2>1, <2>2
<1>3. Pop(f, n) = [f EXCEPT !.bytes = b]
  <2>1. Pop(f, n) = [f EXCEPT !.bytes = SubSeq(f.bytes, n + 1, Len(f.bytes))]
    BY DEF Pop, Sound, Builders
  <2> QED
    BY <1>2, <2>1
<1> DEFINE g == Pop(f, n)
<1>4. /\ g \in Builders /\ g.bytes = b /\ g.reserved = f.reserved /\ g.fields = f.fields
      /\ g.offsets = f.offsets /\ g.vtables = f.vtables
      /\ g.maxv = f.maxv /\ g.minalign = f.minalign /\ g.nested = f.nested
      /\ g.finished = f.finished /\ g.result = f.result /\ g.force = f.force
      /\ g.dedup = f.dedup /\ g.asserts = f.asserts
  BY <1>3 DEF Sound, Builders
<1> HIDE DEF g
<1>5. Size(g) <= Size(f) /\ Size(g) \in Nat
  BY <1>1, <1>4 DEF Size
<1>6. ScratchSize(g) = ScratchSize(f)
  BY <1>4 DEF ScratchSize
<1>7. Size(f) + ScratchSize(f) <= f.reserved /\ Size(f) \in Nat /\ ScratchSize(f) \in Nat /\ f.reserved \in Nat
  BY SizeNat DEF Sound
<1>8. Sound(g)
  BY <1>4, <1>5, <1>6, <1>7 DEF Sound
<1> QED
  BY <1>4, <1>8 DEF Frame, g, n

\* WriteIs, of a builder whose assertions hold.
LEMMA WriteSound ==
  ASSUME NEW f, Sound(f), NEW off \in Nat, NEW s \in Seq(Byte), Len(s) <= off, off <= Size(f)
  PROVE  LET g == Write(f, off, s)
         IN  /\ Sound(g) /\ Frame(f, g)
             /\ g.result = f.result /\ g.minalign = f.minalign
             /\ Size(g) = Size(f)
             /\ Stands(g.bytes, off, s)
             /\ \A d \in 1 .. Size(f) : d > off \/ d <= off - Len(s) =>
                  g.bytes[Size(f) - d + 1] = f.bytes[Size(f) - d + 1]
<1> DEFINE g == Write(f, off, s)
<1>1. f \in Builders
  BY DEF Sound
<1>2. /\ g = [f EXCEPT !.bytes = g.bytes]
      /\ g.bytes \in Seq(Byte) /\ Len(g.bytes) = Size(f)
      /\ Stands(g.bytes, off, s)
      /\ \A d \in 1 .. Size(f) : d > off \/ d <= off - Len(s) =>
           g.bytes[Size(f) - d + 1] = f.bytes[Size(f) - d + 1]
  BY <1>1, WriteIs
<1> HIDE DEF g
<1>3. /\ g \in Builders /\ g.reserved = f.reserved /\ g.fields = f.fields
      /\ g.offsets = f.offsets /\ g.vtables = f.vtables
      /\ g.maxv = f.maxv /\ g.minalign = f.minalign /\ g.nested = f.nested
      /\ g.finished = f.finished /\ g.result = f.result /\ g.force = f.force
      /\ g.dedup = f.dedup /\ g.asserts = f.asserts
  <2> DEFINE c == g.bytes
  <2>1. g = [f EXCEPT !.bytes = c] /\ c \in Seq(Byte)
    BY <1>2
  <2> HIDE DEF c
  <2> QED
    BY <1>1, <2>1 DEF Builders
<1>4. Size(g) = Size(f) /\ ScratchSize(g) = ScratchSize(f)
  BY <1>2, <1>3 DEF Size, ScratchSize
<1>5. Sound(g) /\ Frame(f, g)
  BY <1>3, <1>4 DEF Sound, Frame
<1> QED
  BY <1>2, <1>3, <1>4, <1>5 DEF g

\* What lies before or after the bytes that were overwritten.
LEMMA OverwrittenEnd ==
  ASSUME NEW b, NEW c \in Seq(Byte), NEW e \in Seq(Byte), Len(e) = Len(c), EndsWith(c, b),
         NEW off \in Nat, NEW n \in Nat, Len(b) <= off - n,
         \A d \in 1 .. Len(c) : d > off \/ d <= off - n => e[Len(c) - d + 1] = c[Len(c) - d + 1]
  PROVE  EndsWith(e, b)
<1>1. Len(b) \in Nat /\ Len(b) <= Len(c) /\ b \in Seq(Byte) /\ Len(c) \in Nat
  BY DEF EndsWith
<1>2. ASSUME NEW d \in 1 .. Len(b) PROVE e[Len(e) - d + 1] = b[Len(b) - d + 1]
  <2>1. d \in 1 .. Len(c) /\ d <= off - n
    BY <1>1
  <2>2. e[Len(c) - d + 1] = c[Len(c) - d + 1]
    BY <2>1
  <2>3. c[Len(c) - d + 1] = b[Len(b) - d + 1]
    BY DEF EndsWith
  <2> QED
    BY <2>2, <2>3
<1> QED
  BY <1>1, <1>2 DEF EndsWith

LEMMA OverwrittenStart ==
  ASSUME NEW c \in Seq(Byte), NEW e \in Seq(Byte), Len(e) = Len(c),
         NEW off \in Nat, NEW n \in Nat, NEW v \in Nat, NEW s \in Seq(Byte), Stands(c, v, s),
         off <= v - Len(s),
         \A d \in 1 .. Len(c) : d > off \/ d <= off - n => e[Len(c) - d + 1] = c[Len(c) - d + 1]
  PROVE  Stands(e, v, s)
<1>1. Len(s) \in Nat /\ Len(s) <= v /\ v <= Len(c) /\ Len(c) \in Nat
  BY DEF Stands
<1>2. ASSUME NEW k \in 1 .. Len(s) PROVE e[Len(e) - v + k] = s[k]
  <2> DEFINE d == v - k + 1
  <2>1. d \in 1 .. Len(c) /\ d > off /\ Len(c) - d + 1 = Len(c) - v + k
    BY <1>1
  <2> HIDE DEF d
  <2>2. e[Len(c) - d + 1] = c[Len(c) - d + 1]
    BY <2>1
  <2>3. c[Len(c) - v + k] = s[k]
    BY DEF Stands
  <2> QED
    BY <2>1, <2>2, <2>3
<1> QED
  BY <1>1, <1>2 DEF Stands

Short(n) == n < 65536

\* The vtable goes before the table, and the fields are forgotten.
LEMMA PushVTableIs ==
  ASSUME NEW f, Sound(f), NEW vt \in Seq(Byte), NEW start, Short(f.result - start),
         \A i, j \in DOMAIN f.fields : f.fields[i].id = f.fields[j].id => i = j,
         Size(f) < MaxSize
  PROVE  LET g == PushVTable(f, vt, start)
         IN  /\ Sound(g) /\ g.bytes = vt \o f.bytes
             /\ g.fields = <<>> /\ g.maxv = 0 /\ g.vtables = f.vtables
             /\ g.minalign = f.minalign /\ g.nested = f.nested
             /\ g.finished = f.finished /\ g.result = f.result
<1> DEFINE p == Push(f, vt)
<1>1. /\ Sound(p) /\ Frame(f, p) /\ p.bytes = vt \o f.bytes
      /\ p.minalign = f.minalign /\ p.result = f.result
  BY PushIs
<1> DEFINE cond == /\ f.result - start < 65536
                   /\ \A i, j \in DOMAIN f.fields : f.fields[i].id = f.fields[j].id => i = j
<1>2. PushVTable(f, vt, start) = ClearOffsets(Asserting(p, TRUE))
  <2>1. cond = TRUE
    BY SMT DEF Short
  <2>2. PushVTable(f, vt, start) = ClearOffsets(Asserting(p, cond))
    BY DEF PushVTable
  <2> HIDE DEF cond
  <2> QED
    BY <2>1, <2>2
<1> HIDE DEF p, cond
<1>3. Asserting(p, TRUE) = p
  BY <1>1 DEF Asserting, Sound, Builders
<1> DEFINE g == ClearOffsets(p)
<1>4. /\ g \in Builders /\ g.bytes = p.bytes /\ g.reserved = p.reserved /\ g.fields = <<>>
      /\ g.offsets = p.offsets /\ g.vtables = p.vtables
      /\ g.maxv = 0 /\ g.minalign = p.minalign /\ g.nested = p.nested
      /\ g.finished = p.finished /\ g.result = p.result /\ g.force = p.force
      /\ g.dedup = p.dedup /\ g.asserts = p.asserts
  <2>1. <<>> \in Seq([off : Nat, id : Nat])
    OBVIOUS
  <2>2. p \in Builders
    BY <1>1 DEF Sound
  <2>3. g = [p EXCEPT !.fields = <<>>, !.maxv = 0]
    BY DEF ClearOffsets
  <2> HIDE DEF g
  <2> QED
    BY <2>1, <2>2, <2>3 DEF Builders
<1> HIDE DEF g
<1>5. Size(g) = Size(p)
  BY <1>4 DEF Size
<1>6. ScratchSize(g) <= ScratchSize(p) /\ ScratchSize(g) \in Nat
  <2>1. p.fields \in Seq([off : Nat, id : Nat]) /\ p.vtables \in Seq(Nat) /\ p.offsets = <<>>
    BY <1>1 DEF Sound, Builders
  <2>2. Len(p.fields) \in Nat /\ Len(p.vtables) \in Nat
    BY <2>1
  <2>3. ScratchSize(g) = 8 * 0 + 4 * (Len(p.vtables) + 0)
    BY <1>4, <2>1 DEF ScratchSize
  <2>4. ScratchSize(p) = 8 * Len(p.fields) + 4 * (Len(p.vtables) + 0)
    BY <2>1 DEF ScratchSize
  <2>5. \A x, y \in Nat : /\ 8 * 0 + 4 * (y + 0) <= 8 * x + 4 * (y + 0)
                          /\ 8 * 0 + 4 * (y + 0) \in Nat
    BY SMT
  <2> QED
    BY <2>2, <2>3, <2>4, <2>5
<1>7. Size(p) + ScratchSize(p) <= p.reserved /\ Size(p) \in Nat /\ ScratchSize(p) \in Nat /\ p.reserved \in Nat
  BY <1>1, SizeNat DEF Sound
<1>8. Size(g) + ScratchSize(g) <= g.reserved
  BY <1>4, <1>5, <1>6, <1>7
<1>9. Sound(g)
  BY <1>1, <1>4, <1>8 DEF Sound
<1> QED
  BY <1>1, <1>2, <1>3, <1>4, <1>9 DEF g, Frame

\* A vtable that is the same as an earlier one: that one can be read in its place.
LEMMA SameVTableIs ==
  ASSUME NEW f, Sound(f), NEW b, EndsWith(f.bytes, b), NEW old \in Nat, NEW vt \in Seq(Byte),
         4 <= old, old <= Len(b), U16(b, Len(b) - old) <= old, SameVTable(f, old, vt)
  PROVE  Stands(b, old, vt)
<1> DEFINE c == f.bytes
<1>1. /\ c \in Seq(Byte) /\ b \in Seq(Byte) /\ Len(b) \in Nat /\ Len(c) \in Nat /\ Len(b) <= Len(c)
      /\ Size(f) = Len(c) /\ Len(vt) \in Nat
  BY DEF EndsWith, Size
<1>2. EndsWith(c, b) /\ U16(c, Len(c) - old) = Len(vt)
      /\ \A k \in 1 .. Len(vt) : At(c, Len(c) - old + k - 1) = vt[k]
  BY <1>1 DEF SameVTable
<1> HIDE DEF c
<1>3. U16(c, Len(c) - old) = U16(b, Len(b) - old)
  BY <1>1, <1>2, U16Stays
<1>4. Len(vt) <= old
  BY <1>2, <1>3
<1>5. ASSUME NEW k \in 1 .. Len(vt) PROVE b[Len(b) - old + k] = vt[k]
  <2> DEFINE d == old - k + 1
  <2>1. d \in 1 .. Len(b) /\ Len(c) - old + k - 1 = Len(c) - d /\ Len(b) - d + 1 = Len(b) - old + k
    BY <1>1, <1>4
  <2> HIDE DEF d
  <2>2. At(c, Len(c) - d) = At(b, Len(b) - d) /\ At(b, Len(b) - d) = b[Len(b) - d + 1]
    BY <1>2, <2>1, AtStays
  <2>3. At(c, Len(c) - d) = vt[k]
    BY <1>2, <2>1
  <2> QED
    BY <2>1, <2>2, <2>3
<1> QED
  BY <1>1, <1>4, <1>5 DEF Stands

\* What EndTable has to begin with, once the distance to the vtable is there: b is what
\* was there before that distance, and 2 * n the size of the vtable.
Ending(e, b, n, start) ==
  /\ Sound(e) /\ e.result = Size(e) /\ Size(e) % 4 = 0
  /\ b \in Seq(Byte) /\ EndsWith(e.bytes, b) /\ Len(b) + 4 <= Size(e)
  /\ VTables(b, e.vtables)
  /\ n \in Nat /\ 2 <= n /\ n <= 5
  /\ start \in Int /\ Short(e.result - start)
  /\ \A i, j \in DOMAIN e.fields : e.fields[i].id = e.fields[j].id => i = j
  /\ \A j \in 0 .. n - 1 : Unsigned16(VEntry(e, 2 * n, start, 2 * j))
  /\ Size(e) + 100 < MaxSize

\* The table has its vtable.
Ended(h, e, b, n, start) ==
  /\ Sound(h) /\ h.fields = <<>> /\ h.maxv = 0
  /\ h.nested = e.nested /\ h.finished = e.finished
  /\ h.result = e.result /\ h.minalign = e.minalign
  /\ EndsWith(h.bytes, b) /\ VTables(h.bytes, h.vtables)
  /\ Size(e) <= Size(h) /\ Size(h) <= Size(e) + 10
  /\ \E v \in Nat :
       /\ v % 2 = 0 /\ 2 * n <= v /\ v <= Size(h)
       /\ Signed32(v - Size(e))
       /\ Stands(h.bytes, Size(e), LittleEndian(v - Size(e), 4))
       /\ \A j \in 0 .. n - 1 : U16(h.bytes, Size(h) - v + 2 * j) = VEntry(e, 2 * n, start, 2 * j)

LEMMA EndingFacts ==
  ASSUME NEW e, NEW b, NEW n, NEW start, Ending(e, b, n, start)
  PROVE  LET vt == VTableBytes(e, 2 * n, start)
         IN  /\ vt \in Seq(Byte) /\ Len(vt) = 2 * n /\ 2 * n \in Nat
             /\ e.bytes \in Seq(Byte) /\ Size(e) = Len(e.bytes) /\ Size(e) \in Nat
             /\ Len(b) \in Nat
<1>1. n \in Nat /\ \A j \in 0 .. n - 1 : Unsigned16(VEntry(e, 2 * n, start, 2 * j))
  BY DEF Ending
<1>2. VTableBytes(e, 2 * n, start) \in Seq(Byte) /\ Len(VTableBytes(e, 2 * n, start)) = 2 * n
  BY <1>1, VTableBytesIs
<1>3. Sound(e) /\ b \in Seq(Byte)
  BY DEF Ending
<1>4. e.bytes \in Seq(Byte) /\ Size(e) = Len(e.bytes) /\ Size(e) \in Nat
  BY <1>3, SizeNat
<1>5. Len(b) \in Nat /\ 2 * n \in Nat
  BY <1>1, <1>3
<1> QED
  BY <1>2, <1>4, <1>5

Even(n) == n % 2 = 0

VTableOf(f, n, start) == VTableBytes(f, 2 * n, start)

\* A vtable lies at the distance v.
HasVTable(b, v, f, n, start) ==
  /\ n \in Nat /\ Entries(f, n, start)
  /\ b \in Seq(Byte) /\ v \in Nat /\ Stands(b, v, VTableOf(f, n, start))
ReadsVTable(b, v, f, n, start) ==
  \A j \in 0 .. n - 1 : U16(b, Len(b) - v + 2 * j) = VEntry(f, 2 * n, start, 2 * j)

LEMMA VTableRead ==
  ASSUME NEW b, NEW v, NEW f, NEW n, NEW start, HasVTable(b, v, f, n, start)
  PROVE  ReadsVTable(b, v, f, n, start)
<1> USE DEF HasVTable
<1> SUFFICES ASSUME NEW j \in 0 .. n - 1
             PROVE  U16(b, Len(b) - v + 2 * j) = VEntry(f, 2 * n, start, 2 * j)
  BY DEF ReadsVTable
<1>1. n \in Nat /\ Entries(f, n, start) /\ b \in Seq(Byte) /\ v \in Nat
      /\ Stands(b, v, VTableBytes(f, 2 * n, start))
  BY DEF VTableOf
<1> QED
  BY <1>1, EntriesRead

\* What has been written before, p, and the distance v of the vtable.
Placing(e, b, n, start, p, v) ==
  /\ Sound(p) /\ EndsWith(p.bytes, e.bytes) /\ Size(p) <= Size(e) + 10
  /\ p.fields = <<>> /\ p.maxv = 0 /\ p.nested = e.nested /\ p.finished = e.finished
  /\ p.result = e.result /\ p.minalign = e.minalign
  /\ p.vtables \in Seq(Nat) /\ VTables(p.bytes, p.vtables)
  /\ \A k \in DOMAIN p.vtables : p.vtables[k] <= Len(b) \/ p.vtables[k] = v
  /\ v \in Nat /\ v % 2 = 0 /\ 2 * n <= v
  /\ \/ v = Size(p) /\ 2 * n = Size(p) - Size(e) /\ Stands(p.bytes, v, VTableOf(e, n, start))
     \/ v <= Len(b) /\ Stands(b, v, VTableOf(e, n, start))

\* The table's first bytes are overwritten with the distance to its vtable, which lies
\* after the table or before it.
LEMMA EndedIs ==
  ASSUME NEW e, NEW b, NEW n, NEW start, Ending(e, b, n, start),
         NEW p, NEW v, Placing(e, b, n, start, p, v)
  PROVE  Ended(Write(p, p.result, LittleEndian(v - p.result, 4)), e, b, n, start)
<1> DEFINE top == Size(e)
           s == LittleEndian(v - top, 4)
           h == Write(p, top, s)
           vt == VTableOf(e, n, start)
<1>1. /\ vt \in Seq(Byte) /\ Len(vt) = 2 * n /\ 2 * n \in Nat
      /\ e.bytes \in Seq(Byte) /\ Size(e) = Len(e.bytes) /\ Size(e) \in Nat
      /\ Len(b) \in Nat
  BY EndingFacts DEF VTableOf
<1>2. /\ e.result = top /\ b \in Seq(Byte) /\ EndsWith(e.bytes, b) /\ Len(b) + 4 <= top
      /\ VTables(b, e.vtables) /\ n \in Nat /\ 2 <= n /\ n <= 5 /\ top + 100 < MaxSize
      /\ Entries(e, n, start)
  BY DEF Ending, Entries
<1>21. /\ Sound(p) /\ EndsWith(p.bytes, e.bytes) /\ Size(p) <= Size(e) + 10
       /\ p.fields = <<>> /\ p.maxv = 0 /\ p.nested = e.nested /\ p.finished = e.finished
       /\ p.result = e.result /\ p.minalign = e.minalign
  BY DEF Placing
<1>22. v \in Nat /\ 2 * n <= v
  BY DEF Placing
<1>23. Even(v)
  BY DEF Placing, Even
<1>24. \/ v = Size(p) /\ 2 * n = Size(p) - Size(e) /\ Stands(p.bytes, v, vt)
       \/ v <= Len(b) /\ Stands(b, v, vt)
  BY DEF Placing
<1>3. p.bytes \in Seq(Byte) /\ Size(p) = Len(p.bytes) /\ Size(p) \in Nat /\ top <= Size(p)
  BY <1>1, <1>21, SizeNat DEF EndsWith
<1>20. top = Size(e)
  OBVIOUS
<1> HIDE DEF top, vt
<1>4. v - top \in Int /\ s \in Seq(Byte) /\ Len(s) = 4
  <2>1. v - top \in Int
    BY <1>1, <1>20, <1>22
  <2> DEFINE m == v - top
  <2>2. m \in Int
    BY <2>1
  <2> HIDE DEF m
  <2>3. LittleEndian(m, 4) \in Seq(Byte) /\ Len(LittleEndian(m, 4)) = 4
    BY <2>2, LengthBytes
  <2> QED
    BY <2>1, <2>3 DEF m
<1> HIDE DEF s
<1>5. top \in Nat /\ Len(s) <= top /\ top <= Size(p)
  BY <1>1, <1>2, <1>3, <1>4 DEF top
<1>6. /\ Sound(h) /\ Frame(p, h) /\ h.result = p.result /\ h.minalign = p.minalign
      /\ Size(h) = Size(p) /\ Stands(h.bytes, top, s)
      /\ \A d \in 1 .. Size(p) : d > top \/ d <= top - Len(s) =>
           h.bytes[Size(p) - d + 1] = p.bytes[Size(p) - d + 1]
  BY <1>4, <1>5, <1>21, WriteSound
<1> HIDE DEF h
<1>7. h.bytes \in Seq(Byte) /\ Size(h) = Len(h.bytes) /\ Len(h.bytes) = Len(p.bytes)
  BY <1>3, <1>6, SizeNat
<1>8. EndsWith(p.bytes, b)
  BY <1>2, <1>21, EndsWithTransitive
<1>9. \A d \in 1 .. Len(p.bytes) : d > top \/ d <= top - 4 =>
        h.bytes[Len(p.bytes) - d + 1] = p.bytes[Len(p.bytes) - d + 1]
  BY <1>3, <1>4, <1>6
<1>10. EndsWith(h.bytes, b)
  <2>1. Len(b) <= top - 4 /\ 4 \in Nat
    BY <1>1, <1>2, <1>5
  <2> QED
    BY <1>3, <1>5, <1>7, <1>8, <1>9, <2>1, OverwrittenEnd
<1>11. ASSUME NEW w \in Nat, Stands(p.bytes, w, vt), top <= w - 2 * n
       PROVE  Stands(h.bytes, w, vt)
  <2>1. top <= w - Len(vt) /\ vt \in Seq(Byte)
    BY <1>1, <1>11 DEF vt
  <2>2. 4 \in Nat
    OBVIOUS
  <2> QED
    BY <1>3, <1>5, <1>7, <1>9, <1>11, <2>1, <2>2, OverwrittenStart
<1>12. Stands(h.bytes, v, vt) /\ v <= Size(h)
  <2>1. CASE v = Size(p) /\ 2 * n = Size(p) - Size(e) /\ Stands(p.bytes, v, vt)
    <3>1. top <= v - 2 * n
      <4> DEFINE m == 2 * n
      <4>1. m \in Int /\ m = v - top /\ v \in Int /\ top \in Int
        BY <1>2, <1>3, <1>5, <1>20, <2>1
      <4> HIDE DEF m
      <4>2. top <= v - m
        BY <4>1
      <4> QED
        BY <4>2 DEF m
    <3> QED
      BY <1>3, <1>6, <1>11, <1>22, <2>1, <3>1
  <2>2. CASE v <= Len(b) /\ Stands(b, v, vt)
    <3>1. vt \in Seq(Byte)
      BY <1>1 DEF vt
    <3>2. Stands(h.bytes, v, vt)
      BY <1>10, <1>22, <2>2, <3>1, StandsStays
    <3>3. v <= Size(h)
      BY <1>1, <1>2, <1>3, <1>5, <1>6, <1>22, <2>2
    <3> QED
      BY <3>2, <3>3
  <2> QED
    BY <1>24, <2>1, <2>2
<1>13. \A j \in 0 .. n - 1 : U16(h.bytes, Size(h) - v + 2 * j) = VEntry(e, 2 * n, start, 2 * j)
  <2>1. HasVTable(h.bytes, v, e, n, start)
    BY <1>2, <1>7, <1>12, <1>22 DEF vt, HasVTable
  <2>2. \A j \in 0 .. n - 1 : U16(h.bytes, Len(h.bytes) - v + 2 * j) = VEntry(e, 2 * n, start, 2 * j)
    BY <2>1, VTableRead DEF ReadsVTable
  <2> QED
    BY <1>7, <2>2
<1>14. Signed32(v - top)
  <2>1. v <= top + 10 /\ 0 <= v /\ top + 100 < MaxSize /\ MaxSize \in Nat
    BY <1>2, <1>3, <1>5, <1>6, <1>12, <1>20, <1>21, <1>22, MaxSizeNat
  <2> QED
    BY <1>5, <1>22, <2>1 DEF Signed32
<1>15. VTables(h.bytes, h.vtables)
  <2> DEFINE w == p.vtables
  <2>1. h.vtables = w
    BY <1>6 DEF Frame
  <2>2. SUFFICES ASSUME NEW k \in DOMAIN w
                 PROVE  /\ w[k] \in Nat /\ w[k] % 2 = 0 /\ 4 <= w[k] /\ w[k] <= Len(h.bytes)
                        /\ U16(h.bytes, Len(h.bytes) - w[k]) <= w[k]
    BY <2>1 DEF VTables
  <2>3. /\ w[k] \in Nat /\ Even(w[k]) /\ 4 <= w[k] /\ w[k] <= Len(p.bytes)
        /\ U16(p.bytes, Len(p.bytes) - w[k]) <= w[k]
    BY DEF Placing, VTables, Even
  <2>4. w[k] <= Len(b) \/ w[k] = v
    BY DEF Placing
  <2> HIDE DEF w
  <2>5. U16(h.bytes, Len(h.bytes) - w[k]) <= w[k]
    <3>1. CASE w[k] <= Len(b)
      <4>1. w[k] \in 2 .. Len(b)
        BY <1>1, <2>3, <3>1
      <4>2. U16(h.bytes, Len(h.bytes) - w[k]) = U16(b, Len(b) - w[k])
        BY <1>10, <4>1, U16Stays
      <4>3. U16(p.bytes, Len(p.bytes) - w[k]) = U16(b, Len(b) - w[k])
        BY <1>8, <4>1, U16Stays
      <4> QED
        BY <2>3, <4>2, <4>3
    <3>2. CASE w[k] = v
      <4>1. 0 \in 0 .. n - 1 /\ 2 * 0 = 0
        BY <1>2
      <4>2. U16(h.bytes, Size(h) - v + 2 * 0) = VEntry(e, 2 * n, start, 2 * 0)
        BY <1>13, <4>1
      <4>3. VEntry(e, 2 * n, start, 2 * 0) = 2 * n
        BY <4>1 DEF VEntry
      <4>4. Size(h) - v + 2 * 0 = Len(h.bytes) - w[k]
        BY <1>3, <1>7, <1>22, <3>2
      <4> QED
        BY <1>22, <3>2, <4>2, <4>3, <4>4
    <3> QED
      BY <2>4, <3>1, <3>2
  <2>6. w[k] <= Len(h.bytes)
    BY <1>7, <2>3
  <2> QED
    BY <2>3, <2>5, <2>6 DEF Even
<1>16. h = Write(p, p.result, LittleEndian(v - p.result, 4))
  BY <1>2, <1>21 DEF h, s
<1>17. /\ h.fields = <<>> /\ h.maxv = 0 /\ h.nested = e.nested /\ h.finished = e.finished
       /\ h.result = e.result /\ h.minalign = e.minalign
       /\ Size(e) <= Size(h) /\ Size(h) <= Size(e) + 10
  BY <1>3, <1>5, <1>6, <1>20, <1>21 DEF Frame
<1>18. Stands(h.bytes, Size(e), LittleEndian(v - Size(e), 4)) /\ Signed32(v - Size(e))
  BY <1>6, <1>14 DEF top, s
<1>19. Ended(h, e, b, n, start)
  BY <1>6, <1>10, <1>12, <1>13, <1>15, <1>17, <1>18, <1>22, <1>23, Zenon DEF Ended, Even
<1> QED
  BY <1>16, <1>19

LEMMA FreshVTable ==
  ASSUME NEW e, NEW b, NEW n, NEW start, Ending(e, b, n, start),
         NEW q, Sound(q), q.bytes = VTableOf(e, n, start) \o e.bytes,
         q.fields = <<>>, q.maxv = 0, q.vtables = e.vtables,
         q.minalign = e.minalign, q.nested = e.nested,
         q.finished = e.finished, q.result = e.result
  PROVE  Placing(e, b, n, start, KeepVTable(q), Size(q))
<1> DEFINE vt == VTableOf(e, n, start)
           p == KeepVTable(q)
           v == Size(q)
<1>1. /\ vt \in Seq(Byte) /\ Len(vt) = 2 * n /\ 2 * n \in Nat
      /\ e.bytes \in Seq(Byte) /\ Size(e) = Len(e.bytes) /\ Size(e) \in Nat
      /\ Len(b) \in Nat
  BY EndingFacts DEF VTableOf
<1>2. /\ b \in Seq(Byte) /\ EndsWith(e.bytes, b) /\ Len(b) + 4 <= Size(e)
      /\ n \in Nat /\ 2 <= n /\ n <= 5 /\ Size(e) + 100 < MaxSize
  BY DEF Ending
<1>3. /\ VTables(b, e.vtables) /\ Entries(e, n, start)
      /\ Even(Size(e))
  <2>1. Size(e) % 4 = 0
    BY DEF Ending
  <2>2. \A x \in Nat : x % 4 = 0 => x % 2 = 0
    BY SMT
  <2>3. Even(Size(e))
    BY <1>1, <2>1, <2>2 DEF Even
  <2> QED
    BY <2>3 DEF Ending, Entries
<1> HIDE DEF vt
<1>4. /\ q.bytes \in Seq(Byte) /\ Len(q.bytes) = Len(vt) + Len(e.bytes)
      /\ EndsWith(q.bytes, e.bytes) /\ Stands(q.bytes, Len(e.bytes) + Len(vt), vt)
  BY <1>1, Prepended, StandsPrepended DEF vt
<1> DEFINE m == 2 * n
<1>18. m \in Nat /\ 4 <= m /\ m <= 10 /\ Len(vt) = m
  <2>1. m \in Nat /\ 4 <= m /\ m <= 10
    BY <1>2
  <2> QED
    BY <1>1, <2>1
<1>19. m = 2 * n
  OBVIOUS
<1> HIDE DEF m
<1>5. v = Size(e) + m /\ v \in Nat /\ v = Len(q.bytes)
  <2>1. v = Len(q.bytes)
    BY DEF Size
  <2> HIDE DEF v
  <2>2. Len(e.bytes) \in Nat
    BY <1>1
  <2>3. Len(q.bytes) = m + Size(e)
    BY <1>1, <1>4, <1>18
  <2> QED
    BY <1>1, <1>18, <2>1, <2>3
<1>6. Stands(q.bytes, v, vt)
  BY <1>1, <1>4, <1>5
<1> HIDE DEF v
<1>7. v < MaxSize
  BY <1>1, <1>2, <1>5, <1>18, MaxSizeNat
<1>8. /\ Sound(p) /\ p.bytes = q.bytes /\ p.result = q.result
      /\ p.vtables = Append(q.vtables, v)
      /\ p.fields = q.fields /\ p.maxv = q.maxv /\ p.minalign = q.minalign
      /\ p.nested = q.nested /\ p.finished = q.finished
  BY <1>7, KeepVTableIs DEF v
<1> HIDE DEF p
<1>9. Even(v)
  <2>1. \A x, y \in Nat : x % 2 = 0 => (x + 2 * y) % 2 = 0
    BY SMT
  <2> QED
    BY <1>1, <1>2, <1>3, <1>5, <1>19, <2>1 DEF Even
<1>10. U16(q.bytes, Len(q.bytes) - v) <= v
  <2>1. \A j \in 0 .. n - 1 : U16(q.bytes, Len(q.bytes) - v + 2 * j) = VEntry(e, 2 * n, start, 2 * j)
    <3>1. HasVTable(q.bytes, v, e, n, start)
      BY <1>2, <1>3, <1>4, <1>5, <1>6 DEF vt, HasVTable
    <3>2. ReadsVTable(q.bytes, v, e, n, start)
      BY <3>1, VTableRead
    <3> QED
      BY <3>2, Zenon DEF ReadsVTable
  <2>2. 0 \in 0 .. n - 1 /\ 2 * 0 = 0
    BY <1>2
  <2>3. VEntry(e, 2 * n, start, 2 * 0) = 2 * n
    BY <2>2 DEF VEntry
  <2>4. Len(q.bytes) - v + 2 * 0 = Len(q.bytes) - v
    BY <1>4, <1>5
  <2>5. m <= v
    BY <1>1, <1>5, <1>18
  <2> QED
    BY <1>19, <2>1, <2>2, <2>3, <2>4, <2>5
<1>11. EndsWith(q.bytes, b)
  BY <1>2, <1>4, EndsWithTransitive
<1>12. q.vtables \in Seq(Nat)
  BY DEF Sound, Builders
<1>13. VTables(q.bytes, Append(q.vtables, v))
  <2>1. VTables(q.bytes, q.vtables)
    BY <1>3, <1>11, VTablesStay
  <2>2. v % 2 = 0 /\ 4 <= v /\ v <= Len(q.bytes)
    <3>1. v % 2 = 0
      BY <1>9 DEF Even
    <3>2. Size(e) \in Nat
      BY <1>1
    <3>3. 4 <= v
      BY <1>5, <1>18, <3>2
    <3>4. v <= Len(q.bytes)
      BY <1>5
    <3> QED
      BY <3>1, <3>3, <3>4
  <2> QED
    BY <1>4, <1>5, <1>10, <1>12, <2>1, <2>2, VTablesKept
<1>14. \A k \in DOMAIN p.vtables : p.vtables[k] <= Len(b) \/ p.vtables[k] = v
  <2>1. \A k \in DOMAIN q.vtables : q.vtables[k] <= Len(b)
    BY <1>3 DEF VTables
  <2> DEFINE w == q.vtables
  <2>2. w \in Seq(Nat) /\ p.vtables = Append(w, v) /\ \A k \in DOMAIN w : w[k] <= Len(b)
    BY <1>8, <1>12, <2>1
  <2> HIDE DEF w
  <2>3. ASSUME NEW k \in DOMAIN Append(w, v) PROVE Append(w, v)[k] <= Len(b) \/ Append(w, v)[k] = v
    BY <2>2
  <2> QED
    BY <2>2, <2>3
<1>15. Append(q.vtables, v) \in Seq(Nat)
  BY <1>5, <1>12
<1>16. Size(p) = v /\ Size(p) <= Size(e) + 10 /\ 2 * n = Size(p) - Size(e) /\ 2 * n <= v
  <2>1. Size(p) = v
    BY <1>5, <1>8 DEF Size
  <2>2. v <= Size(e) + 10 /\ m = v - Size(e) /\ m <= v
    BY <1>1, <1>5, <1>18
  <2> QED
    BY <1>19, <2>1, <2>2
<1>17. Placing(e, b, n, start, p, v)
  BY <1>4, <1>5, <1>6, <1>8, <1>9, <1>13, <1>14, <1>15, <1>16, Zenon DEF Placing, Even, vt
<1> QED
  BY <1>17 DEF p, v

LEMMA OldVTable ==
  ASSUME NEW e, NEW b, NEW n, NEW start, Ending(e, b, n, start),
         NEW q, Sound(q), q.bytes = VTableOf(e, n, start) \o e.bytes,
         q.fields = <<>>, q.maxv = 0, q.vtables = e.vtables,
         q.minalign = e.minalign, q.nested = e.nested,
         q.finished = e.finished, q.result = e.result,
         NEW k \in DOMAIN q.vtables, SameVTable(q, q.vtables[k], VTableOf(e, n, start))
  PROVE  Placing(e, b, n, start, Pop(q, Size(q) - q.result), q.vtables[k])
<1> DEFINE vt == VTableOf(e, n, start)
           p == Pop(q, Len(vt))
           v == q.vtables[k]
<1>1. /\ vt \in Seq(Byte) /\ Len(vt) = 2 * n /\ 2 * n \in Nat
      /\ e.bytes \in Seq(Byte) /\ Size(e) = Len(e.bytes) /\ Size(e) \in Nat
      /\ Len(b) \in Nat
  BY EndingFacts DEF VTableOf
<1>2. /\ b \in Seq(Byte) /\ EndsWith(e.bytes, b) /\ Len(b) + 4 <= Size(e)
      /\ n \in Nat /\ 2 <= n /\ n <= 5 /\ Size(e) + 100 < MaxSize
      /\ VTables(b, e.vtables) /\ e.result = Size(e)
  BY DEF Ending
<1> HIDE DEF vt
<1>4. /\ q.bytes \in Seq(Byte) /\ Len(q.bytes) = Len(vt) + Len(e.bytes)
      /\ EndsWith(q.bytes, e.bytes)
  BY <1>1, Prepended DEF vt
<1>5. Size(q) - q.result = Len(vt)
  BY <1>1, <1>2, <1>4 DEF Size
<1>6. /\ Sound(p) /\ Frame(q, p) /\ p.bytes = e.bytes
      /\ p.result = q.result /\ p.minalign = q.minalign
  BY <1>1, PopIs DEF vt
<1> HIDE DEF p
<1>7. EndsWith(q.bytes, b)
  BY <1>2, <1>4, EndsWithTransitive
<1>8. /\ v \in Nat /\ Even(v) /\ 4 <= v /\ v <= Len(b)
      /\ U16(b, Len(b) - v) <= v
  BY <1>2 DEF VTables, Even
<1> HIDE DEF v
<1>9. SameVTable(q, v, vt)
  BY DEF v, vt
<1>10. Stands(b, v, vt)
  BY <1>1, <1>7, <1>8, <1>9, SameVTableIs
<1>11. 2 * n <= v
  BY <1>1, <1>10 DEF Stands
<1>12. p.vtables = e.vtables /\ p.vtables \in Seq(Nat)
  BY <1>6 DEF Frame, Sound, Builders
<1>13. VTables(p.bytes, p.vtables)
  BY <1>2, <1>6, <1>12, VTablesStay
<1>14. \A i \in DOMAIN p.vtables : p.vtables[i] <= Len(b)
  BY <1>2, <1>12 DEF VTables
<1>15. EndsWith(p.bytes, e.bytes) /\ Size(p) = Size(e) /\ Size(p) <= Size(e) + 10
  <2>1. Size(p) = Size(e)
    BY <1>6 DEF Size
  <2> QED
    BY <1>1, <1>6, <2>1, EndsWithItself
<1>16. Placing(e, b, n, start, p, v)
  BY <1>6, <1>8, <1>10, <1>11, <1>12, <1>13, <1>14, <1>15, Zenon DEF Placing, Even, Frame, vt
<1> QED
  BY <1>5, <1>16 DEF p, v

LEMMA AddVTableIs ==
  ASSUME NEW e, NEW b, NEW n, NEW start, Ending(e, b, n, start)
  PROVE  Ended(AddVTable(e, VTableOf(e, n, start), start), e, b, n, start)
<1> DEFINE vt == VTableOf(e, n, start)
           q == PushVTable(e, vt, start)
           same == {k \in DOMAIN q.vtables : q.dedup /\ SameVTable(q, q.vtables[k], vt)}
<1>1. /\ vt \in Seq(Byte) /\ Len(vt) = 2 * n /\ 2 * n \in Nat
      /\ e.bytes \in Seq(Byte) /\ Size(e) = Len(e.bytes) /\ Size(e) \in Nat
  BY EndingFacts DEF VTableOf
<1>2. AddVTable(e, vt, start) = ShareVTable(q, same)
  BY DEF AddVTable, FindVTable
<1> HIDE DEF vt
<1>3. /\ Sound(q) /\ q.bytes = vt \o e.bytes
      /\ q.fields = <<>> /\ q.maxv = 0 /\ q.vtables = e.vtables
      /\ q.minalign = e.minalign /\ q.nested = e.nested
      /\ q.finished = e.finished /\ q.result = e.result
  <2>1. /\ Sound(e) /\ Short(e.result - start) /\ Size(e) + 100 < MaxSize
        /\ \A i, j \in DOMAIN e.fields : e.fields[i].id = e.fields[j].id => i = j
    BY DEF Ending
  <2>2. Size(e) < MaxSize
    BY <1>1, <2>1, MaxSizeNat
  <2> QED
    BY <1>1, <2>1, <2>2, PushVTableIs
<1> HIDE DEF q
<1>4. CASE same = {}
  <2> DEFINE p == KeepVTable(q)
             v == Size(q)
  <2>1. Placing(e, b, n, start, p, v)
    BY <1>3, FreshVTable DEF vt
  <2>2. AddVTable(e, vt, start) = Write(p, q.result, LittleEndian(v - q.result, 4))
    BY <1>2, <1>4 DEF ShareVTable
  <2>3. p.result = q.result
    BY <1>3, <2>1 DEF Placing
  <2> HIDE DEF p, v
  <2>4. Ended(Write(p, p.result, LittleEndian(v - p.result, 4)), e, b, n, start)
    BY <2>1, EndedIs
  <2> QED
    BY <2>2, <2>3, <2>4 DEF vt
<1>5. CASE same # {}
  <2> DEFINE k == CHOOSE k \in same : \A j \in same : k <= j
             p == Pop(q, Size(q) - q.result)
             v == q.vtables[k]
  <2>1. k \in same
    <3>1. same \subseteq Nat
      BY <1>3 DEF Sound, Builders
    <3> HIDE DEF same
    <3>2. \E m \in same : \A j \in same : m <= j
      BY <1>5, <3>1, LeastNat
    <3> QED
      BY <3>2
  <2>2. k \in DOMAIN q.vtables /\ SameVTable(q, q.vtables[k], vt)
    BY <2>1
  <2>3. AddVTable(e, vt, start) = Write(p, q.result, LittleEndian(v - q.result, 4))
    BY <1>2, <1>5 DEF ShareVTable
  <2> HIDE DEF k
  <2>4. Placing(e, b, n, start, p, v)
    BY <1>3, <2>2, OldVTable DEF vt
  <2>5. p.result = q.result
    BY <1>3, <2>4 DEF Placing
  <2> HIDE DEF p, v
  <2>6. Ended(Write(p, p.result, LittleEndian(v - p.result, 4)), e, b, n, start)
    BY <2>4, EndedIs
  <2> QED
    BY <2>3, <2>5, <2>6 DEF vt
<1> QED
  BY <1>4, <1>5 DEF vt

\* Where a vtable at distance v leads for field number i of the table at distance top.
FieldEntry(b, a, top, v, size, field, i, arg) ==
  \/ IsDefault(field, arg) /\ (VT(i) < size => U16(b, Len(b) - v + VT(i)) = 0)
  \/ \E off \in Nat :
       /\ VT(i) < size /\ U16(b, Len(b) - v + VT(i)) = top - off
       /\ off + 4 <= top /\ FieldIs(b, off, field, arg) /\ FieldSize(field) <= a

\* A table at a distance from the end that holds these arguments; the buffer will be
\* aligned to a.
TableIs(b, a, top, table, args) ==
  /\ top \in Nat /\ top % 4 = 0 /\ 4 <= top /\ top <= Len(b)
  /\ \E v \in Nat, size \in Nat :
       /\ Even(v) /\ Even(size) /\ 4 <= size /\ size <= v /\ v <= Len(b)
       /\ Signed32(v - top) /\ Stands(b, top, LittleEndian(v - top, 4))
       /\ U16(b, Len(b) - v) = size
       /\ \A i \in DOMAIN table.fields : FieldEntry(b, a, top, v, size, table.fields[i], i, args[i])

LEMMA FieldEntryStays ==
  ASSUME NEW f, NEW field, NEW arg, Argument(f, field, arg),
         NEW b, NEW c, EndsWith(c, b), NEW a, NEW d, a \in Nat, d \in Nat, a <= d,
         NEW top \in Nat, NEW v \in Nat, NEW size \in Nat, Even(size), size <= v, v <= Len(b),
         NEW i \in Nat, FieldEntry(b, a, top, v, size, field, i, arg)
  PROVE  FieldEntry(c, d, top, v, size, field, i, arg)
<1>1. Len(b) \in Nat /\ Len(c) \in Nat
  BY DEF EndsWith
<1>2. VT(i) < size => U16(c, Len(c) - v + VT(i)) = U16(b, Len(b) - v + VT(i))
  <2> SUFFICES ASSUME VT(i) < size
               PROVE  U16(c, Len(c) - v + VT(i)) = U16(b, Len(b) - v + VT(i))
    OBVIOUS
  <2> DEFINE w == VT(i)
             x == v - w
  <2>1. w \in Nat /\ w + 2 <= size
    <3>1. 2 + 2 * i < size /\ size % 2 = 0
      BY DEF VT, Even
    <3>2. 2 + 2 * i + 2 <= size
      BY <3>1, EvenEntry
    <3> QED
      BY <3>2 DEF VT
  <2> HIDE DEF w
  <2>2. /\ x \in 2 .. Len(b)
        /\ Len(c) - x = Len(c) - v + w /\ Len(b) - x = Len(b) - v + w
    BY <1>1, <2>1
  <2> HIDE DEF x
  <2>3. U16(c, Len(c) - x) = U16(b, Len(b) - x)
    BY <2>2, U16Stays
  <2> QED
    BY <2>2, <2>3 DEF w
<1>3. FieldSize(field) \in Nat
  BY DEF Argument, Alignments
<1>4. ASSUME NEW off \in Nat, FieldIs(b, off, field, arg)
      PROVE  FieldIs(c, off, field, arg)
  BY <1>4, FieldStays
<1>5. CASE IsDefault(field, arg) /\ (VT(i) < size => U16(b, Len(b) - v + VT(i)) = 0)
  BY <1>2, <1>5, Zenon DEF FieldEntry
<1>6. CASE \E off \in Nat :
             /\ VT(i) < size /\ U16(b, Len(b) - v + VT(i)) = top - off
             /\ off + 4 <= top /\ FieldIs(b, off, field, arg) /\ FieldSize(field) <= a
  <2>1. PICK off \in Nat :
             /\ VT(i) < size /\ U16(b, Len(b) - v + VT(i)) = top - off
             /\ off + 4 <= top /\ FieldIs(b, off, field, arg) /\ FieldSize(field) <= a
    BY <1>6
  <2>2. FieldIs(c, off, field, arg)
    BY <1>4, <2>1
  <2>3. FieldSize(field) <= d
    BY <1>3, <2>1
  <2>4. U16(c, Len(c) - v + VT(i)) = top - off
    BY <1>2, <2>1
  <2> QED
    BY <2>1, <2>2, <2>3, <2>4, Zenon DEF FieldEntry
<1> QED
  BY <1>5, <1>6 DEF FieldEntry

LEMMA TableStays ==
  ASSUME NEW f, NEW table, NEW args, GoodArguments(f, table, args), DOMAIN table.fields \subseteq Nat,
         NEW b, NEW c, EndsWith(c, b), NEW a, NEW d, a \in Nat, d \in Nat, a <= d,
         NEW top, TableIs(b, a, top, table, args)
  PROVE  TableIs(c, d, top, table, args)
<1>1. PICK v \in Nat, size \in Nat :
       /\ Even(v) /\ Even(size) /\ 4 <= size /\ size <= v /\ v <= Len(b)
       /\ Signed32(v - top) /\ Stands(b, top, LittleEndian(v - top, 4))
       /\ U16(b, Len(b) - v) = size
       /\ \A i \in DOMAIN table.fields : FieldEntry(b, a, top, v, size, table.fields[i], i, args[i])
  BY DEF TableIs
<1>2. top \in Nat /\ top % 4 = 0 /\ 4 <= top /\ top <= Len(b)
  BY DEF TableIs
<1>3. Len(b) \in Nat /\ Len(c) \in Nat /\ Len(b) <= Len(c)
  BY DEF EndsWith
<1>4. Stands(c, top, LittleEndian(v - top, 4))
  <2> DEFINE s == LittleEndian(v - top, 4)
  <2>1. s \in Seq(Byte)
    <3> DEFINE m == v - top
    <3>1. m \in Int
      BY <1>2
    <3> HIDE DEF m
    <3>2. LittleEndian(m, 4) \in Seq(Byte)
      BY <3>1, LengthBytes
    <3> QED
      BY <3>2 DEF m
  <2>2. Stands(b, top, s)
    BY <1>1
  <2> HIDE DEF s
  <2>3. Stands(c, top, s)
    BY <1>2, <2>1, <2>2, StandsStays
  <2> QED
    BY <2>3 DEF s
<1>5. U16(c, Len(c) - v) = size
  <2>1. v \in 2 .. Len(b)
    BY <1>1, <1>3
  <2> QED
    BY <1>1, <2>1, U16Stays
<1>6. ASSUME NEW i \in DOMAIN table.fields
      PROVE  FieldEntry(c, d, top, v, size, table.fields[i], i, args[i])
  <2> DEFINE field == table.fields[i]
             arg == args[i]
  <2>1. Argument(f, field, arg) /\ i \in Nat /\ FieldEntry(b, a, top, v, size, field, i, arg)
    BY <1>1 DEF GoodArguments
  <2> HIDE DEF field, arg
  <2>2. FieldEntry(c, d, top, v, size, field, i, arg)
    <3>1. Even(size) /\ size <= v /\ v <= Len(b) /\ top \in Nat
      BY <1>1, <1>2
    <3> QED
      BY <2>1, <3>1, FieldEntryStays, Zenon
  <2> QED
    BY <2>2 DEF field, arg
<1>7. top <= Len(c) /\ v <= Len(c)
  BY <1>1, <1>2, <1>3
<1> QED
  BY <1>1, <1>2, <1>4, <1>5, <1>6, <1>7, Zenon DEF TableIs

\* The size of a vtable: two entries, and those up to the last field that is stored.
LEMMA VTableSize ==
  ASSUME NEW maxv, maxv = 0 \/ maxv = 4 \/ maxv = 6 \/ maxv = 8
  PROVE  \E n \in Nat : /\ 2 <= n /\ n <= 5
                        /\ (IF maxv + 2 > 4 THEN maxv + 2 ELSE 4) = 2 * n
                        /\ maxv + 2 <= 2 * n
<1>1. CASE maxv = 0
  <2>1. (IF maxv + 2 > 4 THEN maxv + 2 ELSE 4) = 2 * 2 /\ maxv + 2 <= 2 * 2 /\ 2 \in Nat /\ 2 <= 2 /\ 2 <= 5
    BY <1>1
  <2> QED
    BY <2>1
<1>2. CASE maxv = 4
  <2>1. (IF maxv + 2 > 4 THEN maxv + 2 ELSE 4) = 2 * 3 /\ maxv + 2 <= 2 * 3 /\ 3 \in Nat /\ 2 <= 3 /\ 3 <= 5
    BY <1>2
  <2> QED
    BY <2>1
<1>3. CASE maxv = 6
  <2>1. (IF maxv + 2 > 4 THEN maxv + 2 ELSE 4) = 2 * 4 /\ maxv + 2 <= 2 * 4 /\ 4 \in Nat /\ 2 <= 4 /\ 4 <= 5
    BY <1>3
  <2> QED
    BY <2>1
<1>4. CASE maxv = 8
  <2>1. (IF maxv + 2 > 4 THEN maxv + 2 ELSE 4) = 2 * 5 /\ maxv + 2 <= 2 * 5 /\ 5 \in Nat /\ 2 <= 5 /\ 5 <= 5
    BY <1>4
  <2> QED
    BY <2>1
<1> QED
  BY <1>1, <1>2, <1>3, <1>4

\* What has been added, as facts about one field.
LEMMA AddedEntry ==
  ASSUME NEW f, NEW g, NEW table, NEW args, LaidOut(table), GoodArguments(f, table, args),
         Adding(f, g, table, args, Len(table.adds)), Size(f) \in Nat, Size(g) \in Nat,
         NEW l \in Range(g.fields)
  PROVE  /\ l.off \in Nat /\ l.id \in Nat /\ l.id <= g.maxv
         /\ Size(f) <= l.off /\ l.off <= Size(g)
         /\ \E i \in DOMAIN table.fields : l.id = VT(i)
         /\ \A i \in DOMAIN table.fields : l.id = VT(i) =>
              /\ FieldIs(g.bytes, l.off, table.fields[i], args[i])
              /\ FieldSize(table.fields[i]) <= g.minalign
<1>1. g.fields \in Seq([off : Nat, id : Nat]) /\ g.maxv \in Nat
  BY DEF Adding, Sound, Builders
<1>2. PICK k \in DOMAIN g.fields : l = g.fields[k]
  BY DEF Range
<1>3. l.off \in Nat /\ l.id \in Nat
  <2> DEFINE w == g.fields
             R == [off : Nat, id : Nat]
  <2>1. w \in Seq(R) /\ k \in DOMAIN w /\ l = w[k]
    BY <1>1, <1>2
  <2>2. l \in R
    <3> HIDE DEF R, w
    <3> QED
      BY <2>1
  <2> QED
    BY <2>2
<1>4. PICK m \in 1 .. Len(table.adds) : EntryIs(f, g, table, args, l, table.adds[m])
  BY <1>2 DEF Adding
<1> DEFINE i == table.adds[m]
<1>5. i \in DOMAIN table.fields /\ i \in Nat
  <2>1. i \in DOMAIN table.fields /\ DOMAIN table.fields \subseteq 1 .. 3
    BY DEF LaidOut
  <2> HIDE DEF i
  <2> QED
    BY <2>1
<1> HIDE DEF i
<1>6. /\ l.id = VT(i) /\ l.id <= g.maxv
      /\ FieldIs(g.bytes, l.off, table.fields[i], args[i])
      /\ FieldSize(table.fields[i]) <= g.minalign
      /\ Size(f) + FieldSize(table.fields[i]) <= l.off /\ l.off <= Size(g)
  BY <1>4 DEF EntryIs, i
<1>7. \A j \in DOMAIN table.fields : VT(j) = VT(i) => j = i
  <2>1. DOMAIN table.fields \subseteq 1 .. 3
    BY DEF LaidOut
  <2>2. \A j \in DOMAIN table.fields : j \in Nat
    BY <2>1
  <2> QED
    BY <1>5, <2>2 DEF VT
<1>8. Size(f) <= l.off
  <2> DEFINE w == FieldSize(table.fields[i])
  <2>1. w \in Nat
    BY <1>5 DEF GoodArguments, Argument, Alignments
  <2>2. Size(f) + w <= l.off
    BY <1>6
  <2> HIDE DEF w
  <2> QED
    BY <1>3, <2>1, <2>2
<1> QED
  BY <1>3, <1>5, <1>6, <1>7, <1>8

\* A table whose fields have been added.
Filled(f, g, table, args) ==
  /\ Outside(f) /\ VTables(f.bytes, f.vtables) /\ Size(f) + 200 < MaxSize
  /\ LaidOut(table) /\ GoodArguments(f, table, args)
  /\ Adding(f, g, table, args, Len(table.adds))

LEMMA FilledFacts ==
  ASSUME NEW f, NEW g, NEW table, NEW args, Filled(f, g, table, args)
  PROVE  /\ Sound(f) /\ Sound(g) /\ Size(f) \in Nat /\ Size(g) \in Nat /\ Size(f) <= Size(g)
         /\ Size(g) <= Size(f) + 48 /\ Size(f) = Len(f.bytes) /\ Size(g) = Len(g.bytes)
         /\ f.bytes \in Seq(Byte) /\ g.bytes \in Seq(Byte) /\ EndsWith(g.bytes, f.bytes)
         /\ g.vtables = f.vtables /\ g.nested = TRUE /\ g.finished = f.finished
         /\ f.minalign <= g.minalign
         /\ VTables(g.bytes, g.vtables)
         /\ (g.maxv = 0 \/ g.maxv = 4 \/ g.maxv = 6 \/ g.maxv = 8)
<1>1. Sound(f) /\ Sound(g)
  BY DEF Filled, Outside, Adding
<1>2. /\ Size(f) \in Nat /\ Size(g) \in Nat /\ Size(f) = Len(f.bytes) /\ Size(g) = Len(g.bytes)
      /\ f.bytes \in Seq(Byte) /\ g.bytes \in Seq(Byte)
  BY <1>1, SizeNat
<1> DEFINE N == Len(table.adds)
<1>3. /\ N \in Nat /\ N <= 3 /\ DOMAIN table.fields \subseteq 1 .. 3
      /\ \A m \in 1 .. N : table.adds[m] \in DOMAIN table.fields
  BY DEF Filled, LaidOut
<1>4. /\ EndsWith(g.bytes, f.bytes) /\ f.minalign <= g.minalign
      /\ g.vtables = f.vtables /\ g.nested = TRUE /\ g.finished = f.finished
      /\ Size(g) <= Size(f) + 16 * N
      /\ \A k \in DOMAIN g.fields : \E m \in 1 .. N : EntryIs(f, g, table, args, g.fields[k], table.adds[m])
      /\ IF g.fields = <<>> THEN g.maxv = 0 ELSE \E k \in DOMAIN g.fields : g.fields[k].id = g.maxv
  BY DEF Filled, Adding
<1> HIDE DEF N
<1>5. Size(f) <= Size(g)
  BY <1>2, <1>4 DEF EndsWith
<1>6. Size(g) <= Size(f) + 48
  <2>1. N \in Nat /\ N <= 3
    BY <1>3
  <2> DEFINE m == 16 * N
  <2>2. m <= 48 /\ m \in Nat
    BY <2>1
  <2>3. Size(g) <= Size(f) + m
    BY <1>4
  <2> HIDE DEF m
  <2> QED
    BY <1>2, <2>2, <2>3
<1>7. VTables(g.bytes, g.vtables)
  BY <1>4, VTablesStay DEF Filled
<1>8. g.maxv = 0 \/ g.maxv = 4 \/ g.maxv = 6 \/ g.maxv = 8
  <2>1. CASE g.fields = <<>>
    BY <1>4, <2>1
  <2>2. CASE g.fields # <<>>
    <3>1. PICK k \in DOMAIN g.fields : g.fields[k].id = g.maxv
      BY <1>4, <2>2
    <3>2. PICK m \in 1 .. N : EntryIs(f, g, table, args, g.fields[k], table.adds[m])
      BY <1>4
    <3>3. g.maxv = VT(table.adds[m]) /\ table.adds[m] \in 1 .. 3
      BY <1>3, <3>1, <3>2 DEF EntryIs
    <3>4. \A i \in 1 .. 3 : 2 + 2 * i = 4 \/ 2 + 2 * i = 6 \/ 2 + 2 * i = 8
      BY SMT
    <3> QED
      BY <3>3, <3>4 DEF VT
  <2> QED
    BY <2>1, <2>2
<1> QED
  BY <1>1, <1>2, <1>4, <1>5, <1>6, <1>7, <1>8

\* The distance to the vtable, still 0, before the fields.
LEMMA PlaceForVTable ==
  ASSUME NEW f, NEW g, NEW table, NEW args, Filled(f, g, table, args)
  PROVE  LET e == PushElement(g, Zeros(4))
         IN  /\ Sound(e) /\ Frame(g, e) /\ EndsWith(e.bytes, g.bytes)
             /\ g.minalign <= e.minalign /\ 4 <= e.minalign
             /\ e.result = Size(e) /\ Size(e) % 4 = 0 /\ Size(e) \in Nat
             /\ Size(g) + 4 <= Size(e) /\ Size(e) <= Size(f) + 56
             /\ Size(e) + 100 < MaxSize
<1> DEFINE s == Zeros(4)
<1>1. s \in Seq(Byte) /\ Len(s) = 4 /\ Len(s) \in Alignments
  BY ZerosType DEF Alignments
<1>2. /\ Sound(g) /\ Size(f) \in Nat /\ Size(g) \in Nat /\ Size(g) <= Size(f) + 48
  BY FilledFacts
<1>3. Size(f) + 200 < MaxSize /\ MaxSize \in Nat
  BY MaxSizeNat DEF Filled
<1>4. Size(g) + 7 < MaxSize
  BY <1>2, <1>3
<1> HIDE DEF s
<1> DEFINE e == PushElement(g, s)
<1>5. /\ Grows(g, e) /\ e.result = Size(e)
      /\ Size(e) % Len(s) = 0 /\ Len(s) <= e.minalign
      /\ Size(g) + Len(s) <= Size(e) /\ Size(e) < Size(g) + 2 * Len(s)
  BY <1>1, <1>2, <1>4, PushElementIs
<1> HIDE DEF e
<1>6. Sound(e) /\ Size(e) \in Nat
  BY <1>5, SizeNat DEF Grows
<1>7. Size(e) <= Size(f) + 56 /\ Size(g) + 4 <= Size(e) /\ Size(e) + 100 < MaxSize
  BY <1>1, <1>2, <1>3, <1>5, <1>6
<1>8. /\ Sound(e) /\ Frame(g, e) /\ EndsWith(e.bytes, g.bytes)
      /\ g.minalign <= e.minalign /\ 4 <= e.minalign
      /\ e.result = Size(e) /\ Size(e) % 4 = 0 /\ Size(e) \in Nat
  BY <1>1, <1>5, <1>6 DEF Grows
<1> QED
  BY <1>7, <1>8 DEF e, s

\* What the vtable will say of a field.
EntrySays(f, g, e, n, table, args, i) ==
  \/ IsDefault(table.fields[i], args[i]) /\ VEntry(e, 2 * n, Size(f), VT(i)) = 0
  \/ \E off \in Nat :
       /\ VT(i) < 2 * n /\ VEntry(e, 2 * n, Size(f), VT(i)) = Size(e) - off
       /\ off + 4 <= Size(e) /\ FieldIs(g.bytes, off, table.fields[i], args[i])
       /\ FieldSize(table.fields[i]) <= g.minalign

LEMMA EntryOfField ==
  ASSUME NEW f, NEW g, NEW table, NEW args, Filled(f, g, table, args),
         NEW e, e.result = Size(e), e.fields = g.fields, Size(e) \in Nat, Size(g) + 4 <= Size(e),
         NEW n \in Nat, g.maxv + 2 <= 2 * n, NEW i \in DOMAIN table.fields
  PROVE  EntrySays(f, g, e, n, table, args, i)
<1> DEFINE v == VT(i)
           found == {l \in Range(e.fields) : l.id = v}
           field == table.fields[i]
           l == CHOOSE l \in found : TRUE
<1>1. LaidOut(table) /\ GoodArguments(f, table, args) /\ Adding(f, g, table, args, Len(table.adds))
  BY DEF Filled
<1>2. /\ Size(f) \in Nat /\ Size(g) \in Nat /\ Size(f) <= Size(g) /\ Sound(g) /\ g.maxv \in Nat
  BY FilledFacts, SizeNat
<1>3. v # 0 /\ v # 2 /\ v \in Nat
  <2>1. i \in 1 .. 3
    BY <1>1 DEF LaidOut
  <2> QED
    BY <2>1 DEF VT
<1>4. VEntry(e, 2 * n, Size(f), v) = IF found = {} THEN 0 ELSE Size(e) - l.off
  <2>1. VEntry(e, 2 * n, Size(f), v) = IF found = {} THEN 0 ELSE e.result - l.off
    BY <1>3, Zenon DEF VEntry
  <2> HIDE DEF found, l
  <2> QED
    BY <2>1
<1>5. CASE found = {}
  <2>1. PICK m \in 1 .. Len(table.adds) : table.adds[m] = i
    BY <1>1 DEF LaidOut
  <2>2. IsDefault(field, args[i]) \/ \E k \in DOMAIN g.fields : g.fields[k].id = v
    BY <1>1, <2>1 DEF Adding
  <2>3. IsDefault(field, args[i])
    BY <1>5, <2>2 DEF Range
  <2> QED
    BY <1>4, <1>5, <2>3 DEF EntrySays
<1>6. CASE found # {}
  <2>1. l \in found
    BY <1>6
  <2> HIDE DEF l
  <2>2. l \in Range(g.fields) /\ l.id = v
    BY <2>1
  <2>3. /\ l.off \in Nat /\ l.id <= g.maxv /\ l.off <= Size(g)
        /\ FieldIs(g.bytes, l.off, field, args[i]) /\ FieldSize(field) <= g.minalign
    BY <1>1, <1>2, <2>2, AddedEntry
  <2>4. v < 2 * n /\ l.off + 4 <= Size(e)
    <3> DEFINE m == 2 * n
    <3>1. m \in Nat /\ g.maxv + 2 <= m
      OBVIOUS
    <3> HIDE DEF m
    <3>2. v < m
      BY <1>2, <1>3, <2>2, <2>3, <3>1
    <3>3. l.off + 4 <= Size(e)
      BY <1>2, <2>3
    <3> QED
      BY <3>2, <3>3 DEF m
  <2>5. VEntry(e, 2 * n, Size(f), v) = Size(e) - l.off
    BY <1>4, <1>6
  <2> HIDE DEF v, field, found
  <2>6. \E off \in Nat :
       /\ v < 2 * n /\ VEntry(e, 2 * n, Size(f), v) = Size(e) - off
       /\ off + 4 <= Size(e) /\ FieldIs(g.bytes, off, field, args[i])
       /\ FieldSize(field) <= g.minalign
    BY <2>3, <2>4, <2>5
  <2> QED
    BY <2>6, Zenon DEF EntrySays, v, field
<1> QED
  BY <1>5, <1>6

\* The entries of a table's vtable are numbers of 16 bits.
LEMMA EntriesFit ==
  ASSUME NEW f, NEW g, NEW table, NEW args, Filled(f, g, table, args),
         NEW e, e.result = Size(e), e.fields = g.fields, Size(e) \in Nat,
         Size(g) <= Size(e), Size(e) <= Size(f) + 56, NEW n \in Nat, n <= 5
  PROVE  Entries(e, n, Size(f)) /\ Short(e.result - Size(f))
<1>1. LaidOut(table) /\ GoodArguments(f, table, args) /\ Adding(f, g, table, args, Len(table.adds))
  BY DEF Filled
<1>2. /\ Size(f) \in Nat /\ Size(g) \in Nat /\ Size(f) <= Size(g)
  BY FilledFacts
<1>3. \A x \in Int : 0 <= x /\ x <= 56 => Unsigned16(x) /\ Short(x)
  BY SMT DEF Unsigned16, Short
<1>4. Short(e.result - Size(f))
  <2> DEFINE x == e.result - Size(f)
  <2>1. x \in Int /\ 0 <= x /\ x <= 56
    BY <1>2
  <2> HIDE DEF x
  <2>2. Short(x)
    BY <1>3, <2>1
  <2> QED
    BY <2>2 DEF x
<1>5. ASSUME NEW j \in 0 .. n - 1
      PROVE  VEntry(e, 2 * n, Size(f), 2 * j) \in Int /\ 0 <= VEntry(e, 2 * n, Size(f), 2 * j)
             /\ VEntry(e, 2 * n, Size(f), 2 * j) <= 56
  <2> DEFINE v == 2 * j
             found == {l \in Range(e.fields) : l.id = v}
             l == CHOOSE l \in found : TRUE
             x == VEntry(e, 2 * n, Size(f), v)
  <2>1. CASE v = 0
    <3>1. x = 2 * n
      BY <2>1 DEF VEntry
    <3> HIDE DEF x
    <3>2. 2 * n \in Int /\ 0 <= 2 * n /\ 2 * n <= 56
      OBVIOUS
    <3> QED
      BY <3>1, <3>2 DEF x
  <2>2. CASE v = 2
    <3>1. x = e.result - Size(f)
      BY <2>2 DEF VEntry
    <3> HIDE DEF x
    <3>2. e.result - Size(f) \in Int /\ 0 <= e.result - Size(f) /\ e.result - Size(f) <= 56
      BY <1>2
    <3> QED
      BY <3>1, <3>2 DEF x
  <2>3. CASE v # 0 /\ v # 2
    <3>1. x = IF found = {} THEN 0 ELSE e.result - l.off
      BY <2>3, Zenon DEF VEntry
    <3>2. CASE found = {}
      <4>1. x = 0
        BY <3>1, <3>2
      <4> QED
        BY <4>1 DEF x
    <3>3. CASE found # {}
      <4>1. l \in found
        BY <3>3
      <4>2. x = e.result - l.off
        BY <3>1, <3>3
      <4> HIDE DEF l, x
      <4>3. l \in Range(g.fields)
        BY <4>1
      <4>4. l.off \in Nat /\ Size(f) <= l.off /\ l.off <= Size(g)
        BY <1>1, <1>2, <4>3, AddedEntry
      <4>5. e.result - l.off \in Int /\ 0 <= e.result - l.off /\ e.result - l.off <= 56
        BY <1>2, <4>4
      <4> QED
        BY <4>2, <4>5 DEF x
    <3> QED
      BY <3>2, <3>3
  <2> QED
    BY <2>1, <2>2, <2>3
<1>6. Entries(e, n, Size(f))
  <2> SUFFICES ASSUME NEW j \in 0 .. n - 1
               PROVE  Unsigned16(VEntry(e, 2 * n, Size(f), 2 * j))
    BY DEF Entries
  <2> DEFINE x == VEntry(e, 2 * n, Size(f), 2 * j)
  <2>1. x \in Int /\ 0 <= x /\ x <= 56
    BY <1>5
  <2> HIDE DEF x
  <2>2. Unsigned16(x)
    BY <1>3, <2>1
  <2> QED
    BY <2>2 DEF x
<1> QED
  BY <1>4, <1>6

\* Between two calls of the builder.
Made(f, h) ==
  /\ Outside(h) /\ h.finished = f.finished
  /\ EndsWith(h.bytes, f.bytes) /\ f.minalign <= h.minalign
  /\ VTables(h.bytes, h.vtables)

\* The vtable, read back from where the table says it is, has what was said of the fields.
LEMMA SaidEntry ==
  ASSUME NEW f, NEW g, NEW table, NEW args, Filled(f, g, table, args),
         NEW e, NEW n \in Nat, NEW i \in DOMAIN table.fields,
         EntrySays(f, g, e, n, table, args, i), Size(e) \in Nat,
         NEW h, NEW v \in Nat, EndsWith(h.bytes, g.bytes), h.minalign \in Nat,
         g.minalign \in Nat, g.minalign <= h.minalign,
         \A j \in 0 .. n - 1 :
           U16(h.bytes, Len(h.bytes) - v + 2 * j) = VEntry(e, 2 * n, Size(f), 2 * j)
  PROVE  FieldEntry(h.bytes, h.minalign, Size(e), v, 2 * n, table.fields[i], i, args[i])
<1> DEFINE field == table.fields[i]
           arg == args[i]
<1>1. Argument(f, field, arg) /\ i \in Nat
  <2>1. GoodArguments(f, table, args) /\ DOMAIN table.fields \subseteq 1 .. 3
    BY DEF Filled, LaidOut
  <2> QED
    BY <2>1 DEF GoodArguments
<1>2. FieldSize(field) \in Nat
  BY <1>1 DEF Argument, Alignments
<1>3. VT(i) < 2 * n =>
        U16(h.bytes, Len(h.bytes) - v + VT(i)) = VEntry(e, 2 * n, Size(f), VT(i))
  <2> DEFINE j == 1 + i
  <2>1. VT(i) = 2 * j
    BY <1>1 DEF VT
  <2>2. VT(i) < 2 * n => j \in 0 .. n - 1
    BY <1>1, <2>1
  <2> HIDE DEF j
  <2> QED
    BY <2>1, <2>2
<1>4. CASE IsDefault(field, arg) /\ VEntry(e, 2 * n, Size(f), VT(i)) = 0
  BY <1>3, <1>4, Zenon DEF FieldEntry
<1>5. CASE \E off \in Nat :
             /\ VT(i) < 2 * n /\ VEntry(e, 2 * n, Size(f), VT(i)) = Size(e) - off
             /\ off + 4 <= Size(e) /\ FieldIs(g.bytes, off, field, arg)
             /\ FieldSize(field) <= g.minalign
  <2>1. PICK off \in Nat :
             /\ VT(i) < 2 * n /\ VEntry(e, 2 * n, Size(f), VT(i)) = Size(e) - off
             /\ off + 4 <= Size(e) /\ FieldIs(g.bytes, off, field, arg)
             /\ FieldSize(field) <= g.minalign
    BY <1>5
  <2> HIDE DEF field, arg
  <2>2. FieldIs(h.bytes, off, field, arg)
    BY <1>1, <2>1, FieldStays
  <2>3. FieldSize(field) <= h.minalign
    BY <1>2, <2>1
  <2>4. U16(h.bytes, Len(h.bytes) - v + VT(i)) = Size(e) - off
    BY <1>3, <2>1
  <2> QED
    BY <2>1, <2>2, <2>3, <2>4, Zenon DEF FieldEntry, field, arg
<1> QED
  BY <1>4, <1>5 DEF EntrySays

\* The table has been written; its distance is the result.
Tabled(f, h, table, args) ==
  /\ Made(f, h)
  /\ 4 <= h.minalign
  /\ Size(f) < h.result /\ h.result <= Size(h) /\ Size(h) <= Size(f) + 66
  /\ TableIs(h.bytes, h.minalign, h.result, table, args)

LEMMA EndTableIs ==
  ASSUME NEW f, NEW g, NEW table, NEW args, Filled(f, g, table, args)
  PROVE  Tabled(f, EndTable(g, Size(f)), table, args)
<1> DEFINE e == PushElement(g, Zeros(4))
           start == Size(f)
<1>1. /\ Sound(f) /\ Sound(g) /\ Size(f) \in Nat /\ Size(g) \in Nat /\ Size(f) <= Size(g)
      /\ EndsWith(g.bytes, f.bytes) /\ g.bytes \in Seq(Byte) /\ Size(g) = Len(g.bytes)
      /\ g.nested = TRUE /\ g.finished = f.finished /\ g.vtables = f.vtables
      /\ f.minalign <= g.minalign /\ VTables(g.bytes, g.vtables)
      /\ (g.maxv = 0 \/ g.maxv = 4 \/ g.maxv = 6 \/ g.maxv = 8)
      /\ f.minalign \in Nat /\ g.minalign \in Nat
  <2>1. Sound(f) /\ Sound(g)
    BY FilledFacts
  <2>2. f.minalign \in Nat /\ g.minalign \in Nat
    <3>1. f.minalign \in Alignments /\ g.minalign \in Alignments
      BY <2>1, SizeNat
    <3> QED
      BY <3>1, EightNat
  <2> QED
    BY <2>2, FilledFacts
<1>2. /\ Sound(e) /\ Frame(g, e) /\ EndsWith(e.bytes, g.bytes)
      /\ g.minalign <= e.minalign /\ 4 <= e.minalign
      /\ e.result = Size(e) /\ Size(e) % 4 = 0 /\ Size(e) \in Nat
      /\ Size(g) + 4 <= Size(e) /\ Size(e) <= Size(f) + 56
      /\ Size(e) + 100 < MaxSize
  BY PlaceForVTable
<1>3. Asserting(g, g.nested) = g
  BY <1>1 DEF Asserting, Sound, Builders
<1>4. e.fields = g.fields /\ e.maxv = g.maxv /\ e.vtables = g.vtables /\ e.nested = TRUE
      /\ e.finished = f.finished
  BY <1>1, <1>2 DEF Frame
<1> DEFINE size == IF e.maxv + 2 > 4 THEN e.maxv + 2 ELSE 4
           h == AddVTable(e, VTableBytes(e, size, start), start)
           r == EndTable(g, start)
<1>5. r = [h EXCEPT !.nested = FALSE]
  BY <1>3 DEF EndTable, EndFields
<1> HIDE DEF e
<1>6. PICK n \in Nat : 2 <= n /\ n <= 5 /\ size = 2 * n /\ g.maxv + 2 <= 2 * n
  BY <1>1, <1>4, VTableSize
<1> HIDE DEF size
<1>7. h = AddVTable(e, VTableOf(e, n, start), start)
  BY <1>6 DEF VTableOf
<1>8. Size(g) <= Size(e)
  BY <1>1, <1>2
<1>9. Entries(e, n, start) /\ Short(e.result - start)
  BY <1>2, <1>4, <1>6, <1>8, EntriesFit
<1>10. Ending(e, g.bytes, n, start)
  <2>1. Len(g.bytes) + 4 <= Size(e) /\ start \in Int
    BY <1>1, <1>2
  <2>2. \A i, j \in DOMAIN e.fields : e.fields[i].id = e.fields[j].id => i = j
    BY <1>4 DEF Filled, Adding
  <2>3. \A j \in 0 .. n - 1 : Unsigned16(VEntry(e, 2 * n, start, 2 * j))
    BY <1>9 DEF Entries
  <2>4. VTables(g.bytes, e.vtables)
    BY <1>1, <1>4
  <2> HIDE DEF start
  <2> QED
    BY <1>1, <1>2, <1>6, <1>9, <2>1, <2>2, <2>3, <2>4, Zenon DEF Ending
<1>11. Ended(h, e, g.bytes, n, start)
  BY <1>7, <1>10, AddVTableIs
<1> HIDE DEF h
<1>12. /\ Sound(h) /\ h.fields = <<>> /\ h.maxv = 0 /\ h.finished = f.finished
       /\ h.result = Size(e) /\ h.minalign = e.minalign
       /\ EndsWith(h.bytes, g.bytes) /\ VTables(h.bytes, h.vtables)
       /\ Size(e) <= Size(h) /\ Size(h) <= Size(e) + 10
  BY <1>2, <1>4, <1>11 DEF Ended
<1>13. PICK v \in Nat :
         /\ v % 2 = 0 /\ 2 * n <= v /\ v <= Size(h)
         /\ Signed32(v - Size(e))
         /\ Stands(h.bytes, Size(e), LittleEndian(v - Size(e), 4))
         /\ \A j \in 0 .. n - 1 : U16(h.bytes, Size(h) - v + 2 * j) = VEntry(e, 2 * n, start, 2 * j)
  BY <1>11 DEF Ended
<1>14. /\ r.bytes = h.bytes /\ r.minalign = h.minalign /\ r.result = h.result
       /\ r.vtables = h.vtables /\ r.finished = h.finished /\ r.fields = h.fields
       /\ r.maxv = h.maxv /\ r.nested = FALSE /\ Sound(r) /\ Size(r) = Size(h)
  <2>1. h \in Builders
    BY <1>12 DEF Sound
  <2>2. /\ r.bytes = h.bytes /\ r.minalign = h.minalign /\ r.result = h.result
        /\ r.vtables = h.vtables /\ r.finished = h.finished /\ r.fields = h.fields
        /\ r.maxv = h.maxv /\ r.nested = FALSE /\ r.offsets = h.offsets /\ r.force = h.force
        /\ r.dedup = h.dedup /\ r.asserts = h.asserts /\ r.reserved = h.reserved
        /\ r \in Builders
    BY <1>5, <2>1 DEF Builders
  <2> HIDE DEF r
  <2>3. Size(r) = Size(h) /\ ScratchSize(r) = ScratchSize(h)
    BY <2>2 DEF Size, ScratchSize
  <2> QED
    BY <1>12, <2>2, <2>3 DEF Sound
<1> HIDE DEF r
<1>15. /\ h.bytes \in Seq(Byte) /\ Size(h) = Len(h.bytes) /\ Size(h) \in Nat /\ h.minalign \in Nat
       /\ e.minalign \in Nat
  <2>1. h.minalign \in Alignments /\ e.minalign \in Alignments
    BY <1>2, <1>12, SizeNat
  <2>2. h.minalign \in Nat /\ e.minalign \in Nat
    BY <2>1, EightNat
  <2> QED
    BY <1>12, <2>2, SizeNat
<1>16. g.minalign <= h.minalign /\ f.minalign <= h.minalign /\ 4 <= h.minalign
  BY <1>1, <1>2, <1>12, <1>15
<1>17. ASSUME NEW i \in DOMAIN table.fields
       PROVE  FieldEntry(h.bytes, h.minalign, Size(e), v, 2 * n, table.fields[i], i, args[i])
  <2>1. EntrySays(f, g, e, n, table, args, i)
    BY <1>2, <1>4, <1>6, EntryOfField
  <2>2. \A j \in 0 .. n - 1 : U16(h.bytes, Len(h.bytes) - v + 2 * j) = VEntry(e, 2 * n, Size(f), 2 * j)
    BY <1>13, <1>15
  <2> QED
    BY <1>1, <1>2, <1>12, <1>15, <1>16, <2>1, <2>2, SaidEntry
<1>18. U16(h.bytes, Len(h.bytes) - v) = 2 * n
  <2>1. 0 \in 0 .. n - 1 /\ 2 * 0 = 0
    BY <1>6
  <2>2. U16(h.bytes, Size(h) - v + 2 * 0) = VEntry(e, 2 * n, start, 2 * 0)
    BY <1>13, <2>1
  <2>3. VEntry(e, 2 * n, start, 2 * 0) = 2 * n
    BY <2>1 DEF VEntry
  <2>4. Size(h) - v + 2 * 0 = Len(h.bytes) - v
    BY <1>15
  <2> QED
    BY <2>2, <2>3, <2>4
<1>19. TableIs(h.bytes, h.minalign, Size(e), table, args)
  <2>1. Size(e) \in Nat /\ Size(e) % 4 = 0 /\ 4 <= Size(e) /\ Size(e) <= Len(h.bytes)
    <3>1. 4 <= Size(e)
      BY <1>1, <1>2
    <3> QED
      BY <1>2, <1>12, <1>15, <3>1
  <2> DEFINE m == 2 * n
  <2>2. m \in Nat /\ 4 <= m /\ Even(m)
    <3>1. \A x \in Nat : (2 * x) % 2 = 0
      BY SMT
    <3> QED
      BY <1>6, <3>1 DEF Even
  <2>3. /\ Even(v) /\ m <= v /\ v <= Len(h.bytes) /\ Signed32(v - Size(e))
        /\ Stands(h.bytes, Size(e), LittleEndian(v - Size(e), 4)) /\ U16(h.bytes, Len(h.bytes) - v) = m
        /\ \A i \in DOMAIN table.fields : FieldEntry(h.bytes, h.minalign, Size(e), v, m, table.fields[i], i, args[i])
    BY <1>13, <1>15, <1>17, <1>18 DEF Even
  <2> HIDE DEF m
  <2> QED
    BY <2>1, <2>2, <2>3, Zenon DEF TableIs
<1>20. EndsWith(h.bytes, f.bytes)
  BY <1>1, <1>12, EndsWithTransitive
<1>21. Size(f) < Size(e) /\ Size(h) <= Size(f) + 66
  BY <1>1, <1>2, <1>12, <1>15
<1>22. Made(f, r)
  BY <1>12, <1>14, <1>16, <1>20 DEF Made, Outside
<1>23. Tabled(f, r, table, args)
  BY <1>12, <1>14, <1>16, <1>19, <1>21, <1>22 DEF Tabled
<1> QED
  BY <1>23 DEF r

\* Reading a field of a table: it is not there, and its argument was the default, or it is
\* where its argument stands.
FieldFound(b, a, top, field, i, arg) ==
  \/ FieldOffset(b, Len(b) - top, i) = 0 /\ IsDefault(field, arg)
  \/ \E off \in Nat :
       /\ FieldOffset(b, Len(b) - top, i) = top - off
       /\ off + 4 <= top /\ FieldIs(b, off, field, arg) /\ FieldSize(field) <= a

\* Where the vtable is and what it holds.
LEMMA TableRead ==
  ASSUME NEW b \in Seq(Byte), NEW a, NEW top, NEW table, NEW args,
         DOMAIN table.fields \subseteq Nat, TableIs(b, a, top, table, args)
  PROVE  /\ \E v \in Nat, size \in Nat :
              /\ VTable(b, Len(b) - top) = Len(b) - v
              /\ Even(v) /\ Even(size) /\ 4 <= size /\ size <= v /\ v <= Len(b)
              /\ U16(b, Len(b) - v) = size
         /\ \A i \in DOMAIN table.fields : FieldFound(b, a, top, table.fields[i], i, args[i])
<1>1. PICK v \in Nat, size \in Nat :
       /\ Even(v) /\ Even(size) /\ 4 <= size /\ size <= v /\ v <= Len(b)
       /\ Signed32(v - top) /\ Stands(b, top, LittleEndian(v - top, 4))
       /\ U16(b, Len(b) - v) = size
       /\ \A i \in DOMAIN table.fields : FieldEntry(b, a, top, v, size, table.fields[i], i, args[i])
  BY DEF TableIs
<1>2. top \in Nat /\ top % 4 = 0 /\ 4 <= top /\ top <= Len(b)
  BY DEF TableIs
<1>3. Len(b) \in Nat
  OBVIOUS
<1>4. VTable(b, Len(b) - top) = Len(b) - v
  <2>1. I32(b, Len(b) - top) = v - top
    <3> DEFINE m == v - top
    <3>1. Signed32(m) /\ Stands(b, top, LittleEndian(m, 4)) /\ top \in Nat
      BY <1>1, <1>2
    <3> HIDE DEF m
    <3>2. I32(b, Len(b) - top) = m
      BY <3>1, Read32
    <3> QED
      BY <3>2 DEF m
  <2>2. \A x, y, z \in Int : (x - y) - (z - y) = x - z
    BY SMT
  <2> QED
    BY <1>2, <1>3, <2>1, <2>2 DEF VTable
<1>5. ASSUME NEW i \in DOMAIN table.fields
      PROVE  FieldFound(b, a, top, table.fields[i], i, args[i])
  <2> DEFINE field == table.fields[i]
             arg == args[i]
             entry == U16(b, Len(b) - v + VT(i))
  <2>1. FieldEntry(b, a, top, v, size, field, i, arg)
    BY <1>1
  <2>2. FieldOffset(b, Len(b) - top, i) = IF VT(i) < size THEN entry ELSE 0
    BY <1>1, <1>4, Zenon DEF FieldOffset
  <2> HIDE DEF field, arg, entry
  <2>3. ASSUME IsDefault(field, arg) /\ (VT(i) < size => entry = 0)
        PROVE  FieldFound(b, a, top, field, i, arg)
    BY <2>2, <2>3 DEF FieldFound
  <2>4. ASSUME NEW off \in Nat,
               /\ VT(i) < size /\ entry = top - off
               /\ off + 4 <= top /\ FieldIs(b, off, field, arg) /\ FieldSize(field) <= a
        PROVE  FieldFound(b, a, top, field, i, arg)
    <3>1. FieldOffset(b, Len(b) - top, i) = top - off
      BY <2>2, <2>4
    <3> QED
      BY <2>4, <3>1, Zenon DEF FieldFound
  <2>5. FieldFound(b, a, top, field, i, arg)
    BY <2>1, <2>3, <2>4, Zenon DEF FieldEntry, entry
  <2> QED
    BY <2>5 DEF field, arg
<1> QED
  BY <1>1, <1>4, <1>5

\* A call of a Create function with what is required.
LEMMA CreateTableIs ==
  ASSUME NEW f, Outside(f), VTables(f.bytes, f.vtables), Size(f) + 200 < MaxSize,
         NEW table, NEW args, LaidOut(table), GoodArguments(f, table, args)
  PROVE  Tabled(f, CreateTable(f, table, args), table, args)
<1> DEFINE g == AddFields(StartTable(f), table, args)
           h == EndTable(g, Size(f))
           b == h.bytes
           top == h.result
<1>1. Filled(f, g, table, args)
  <2>1. Size(f) + 100 < MaxSize
    <3>1. Size(f) \in Nat
      BY SizeNat DEF Outside
    <3> QED
      BY <3>1, MaxSizeNat
  <2>2. Adding(f, g, table, args, Len(table.adds))
    BY <2>1, AddFieldsIs
  <2> HIDE DEF g
  <2> QED
    BY <2>2, Zenon DEF Filled
<1>2. CreateTable(f, table, args) = CheckRequired(h, table)
  BY DEF CreateTable
<1> HIDE DEF g
<1>3. Tabled(f, h, table, args)
  BY <1>1, EndTableIs
<1> HIDE DEF h
<1>4. Sound(h) /\ TableIs(b, h.minalign, top, table, args)
  BY <1>3 DEF Tabled, Made, Outside
<1>5. b \in Seq(Byte) /\ Size(h) = Len(b)
  BY <1>4, SizeNat
<1>6. DOMAIN table.fields \subseteq Nat
  <2>1. DOMAIN table.fields \subseteq 1 .. 3
    BY DEF LaidOut
  <2> QED
    BY <2>1
<1>7. \A i \in DOMAIN table.fields : table.fields[i].required => Holds(b, Size(h) - top, i)
  <2> SUFFICES ASSUME NEW i \in DOMAIN table.fields, table.fields[i].required
               PROVE  FieldOffset(b, Len(b) - top, i) # 0
    BY <1>5 DEF Holds
  <2> DEFINE a == h.minalign
  <2>1. ~IsDefault(table.fields[i], args[i])
    BY DEF LaidOut, IsDefault
  <2> HIDE DEF a, b, top
  <2>2. FieldFound(b, a, top, table.fields[i], i, args[i])
    BY <1>4, <1>5, <1>6, TableRead DEF a
  <2>3. PICK off \in Nat : FieldOffset(b, Len(b) - top, i) = top - off /\ off + 4 <= top
    BY <2>1, <2>2, Zenon DEF FieldFound
  <2>4. top \in Nat
    BY <1>4 DEF TableIs
  <2> QED
    BY <2>3, <2>4
<1>8. CheckRequired(h, table) = h
  <2> DEFINE cond == \A i \in DOMAIN table.fields :
                       table.fields[i].required => Holds(h.bytes, Size(h) - h.result, i)
  <2>1. cond = TRUE
    BY <1>7
  <2>2. CheckRequired(h, table) = Asserting(h, cond)
    BY DEF CheckRequired
  <2> HIDE DEF cond
  <2> QED
    BY <1>4, <2>1, <2>2 DEF Asserting, Sound, Builders
<1> QED
  BY <1>2, <1>3, <1>8

------------------------------------------------------------------------------
(* Vectors.                                                                 *)

\* Element number j of n, when those after it are already there.
ElementAt(s, n, j) == s + 4 * ((n - j) + 1)
Offset(b, d, off) == Stands(b, d, LittleEndian(d - off, 4))

\* The last k elements have been pushed.
Pushing(e, g, offs, k) ==
  /\ Grows(e, g) /\ Size(g) = Size(e) + 4 * k
  /\ \A j \in 1 .. Len(offs) : Len(offs) - k < j =>
       Offset(g.bytes, ElementAt(Size(e), Len(offs), j), offs[j])

\* What is to be pushed on e: distances of what has been written.
Offsets(e, offs) ==
  /\ Sound(e) /\ offs \in Seq(Nat)
  /\ \A j \in 1 .. Len(offs) : offs[j] # 0 /\ offs[j] <= Size(e)
  /\ Len(offs) > 0 => Size(e) % 4 = 0 /\ 4 <= e.minalign
  /\ Size(e) + 4 * Len(offs) + 20 < MaxSize

LEMMA OffsetStays ==
  ASSUME NEW b, NEW c, EndsWith(c, b), NEW d \in Nat, NEW off \in Nat, Offset(b, d, off)
  PROVE  Offset(c, d, off)
<1> DEFINE s == LittleEndian(d - off, 4)
<1>1. s \in Seq(Byte)
  <2> DEFINE m == d - off
  <2>1. m \in Int
    OBVIOUS
  <2> HIDE DEF m
  <2>2. LittleEndian(m, 4) \in Seq(Byte)
    BY <2>1, LengthBytes
  <2> QED
    BY <2>2 DEF m
<1>2. Stands(b, d, s)
  BY DEF Offset
<1> HIDE DEF s
<1>3. Stands(c, d, s)
  BY <1>1, <1>2, StandsStays
<1> QED
  BY <1>3 DEF s, Offset

LEMMA PushingStep ==
  ASSUME NEW e, NEW offs, Offsets(e, offs), NEW k \in 1 .. Len(offs), NEW g,
         Pushing(e, g, offs, k - 1)
  PROVE  Pushing(e, PushOffset(g, offs[Len(offs) - k + 1]), offs, k)
<1> DEFINE n == Len(offs)
           i == n - k + 1
           off == offs[i]
           h == PushOffset(g, off)
<1>1. /\ Sound(e) /\ offs \in Seq(Nat) /\ n \in Nat /\ i \in 1 .. n /\ off \in Nat
      /\ off # 0 /\ off <= Size(e) /\ Size(e) % 4 = 0 /\ Size(e) \in Nat
      /\ Size(e) + 4 * n + 20 < MaxSize
  <2>1. offs \in Seq(Nat) /\ Sound(e) /\ n \in Nat
    BY DEF Offsets
  <2>2. i \in 1 .. n
    BY <2>1
  <2>3. n > 0
    BY <2>1
  <2> HIDE DEF i
  <2>4. off \in Nat /\ off # 0 /\ off <= Size(e)
    BY <2>1, <2>2 DEF Offsets
  <2> QED
    BY <2>1, <2>2, <2>3, <2>4, SizeNat DEF Offsets
<1>2. Grows(e, g) /\ Size(g) = Size(e) + 4 * (k - 1) /\ Sound(g)
      /\ \A j \in 1 .. n : n - (k - 1) < j => Offset(g.bytes, ElementAt(Size(e), n, j), offs[j])
  BY DEF Pushing, Grows
<1> HIDE DEF n, off
<1>3. /\ Size(g) % 4 = 0 /\ Size(g) + 11 < MaxSize /\ off <= Size(g)
      /\ Size(g) \in Nat /\ Size(g) + 4 = Size(e) + 4 * k
  <2> DEFINE x == Size(e)
             y == Size(g)
  <2>1. /\ x \in Nat /\ y = x + 4 * (k - 1) /\ k \in Nat /\ 1 <= k /\ k <= n /\ n \in Nat
        /\ off <= x /\ off \in Nat /\ x + 4 * n + 20 < MaxSize /\ MaxSize \in Nat
    BY <1>1, <1>2, MaxSizeNat DEF n
  <2>2. x % 4 = 0
    BY <1>1
  <2> HIDE DEF x, y
  <2>3. \A u \in Nat, w \in Nat : u % 4 = 0 => (u + 4 * w) % 4 = 0
    BY SMT
  <2>4. y % 4 = 0
    <3>1. k - 1 \in Nat
      BY <2>1
    <3> QED
      BY <2>1, <2>2, <2>3, <3>1
  <2>5. y \in Nat /\ y + 4 = x + 4 * k /\ off <= y /\ y + 11 < MaxSize
    BY <2>1
  <2> QED
    BY <2>4, <2>5 DEF x, y
<1>4. /\ Grows(g, h) /\ Size(h) = Size(g) + 4
      /\ Stands(h.bytes, Size(h), LittleEndian(Size(h) - off, 4))
  BY <1>1, <1>2, <1>3, PushOffsetIs
<1> HIDE DEF h
<1>5. Grows(e, h) /\ Size(h) = Size(e) + 4 * k
  BY <1>1, <1>2, <1>3, <1>4, GrowsTransitive
<1>6. ASSUME NEW j \in 1 .. n, n - k < j
      PROVE  Offset(h.bytes, ElementAt(Size(e), n, j), offs[j])
  <2>1. CASE j = i
    <3>1. ElementAt(Size(e), n, j) = Size(h)
      BY <1>1, <1>5, <2>1 DEF ElementAt
    <3>2. offs[j] = off
      BY <2>1 DEF off
    <3> HIDE DEF i
    <3> QED
      BY <1>4, <3>1, <3>2 DEF Offset
  <2>2. CASE j # i
    <3>1. n - (k - 1) < j
      BY <1>1, <1>6, <2>2
    <3> DEFINE d == ElementAt(Size(e), n, j)
    <3>2. Offset(g.bytes, d, offs[j])
      BY <1>2, <3>1
    <3>3. d \in Nat /\ offs[j] \in Nat
      BY <1>1 DEF ElementAt, n
    <3>4. EndsWith(h.bytes, g.bytes)
      BY <1>4 DEF Grows
    <3> HIDE DEF d
    <3>5. Offset(h.bytes, d, offs[j])
      BY <3>2, <3>3, <3>4, OffsetStays
    <3> QED
      BY <3>5 DEF d
  <2> QED
    BY <2>1, <2>2
<1> QED
  BY <1>5, <1>6, Zenon DEF Pushing, n, h, off, i

LEMMA PushingStart ==
  ASSUME NEW e, NEW offs, Offsets(e, offs)
  PROVE  Pushing(e, e, offs, 0)
<1>1. Sound(e) /\ Len(offs) \in Nat
  BY DEF Offsets
<1>2. Size(e) \in Nat
  BY <1>1, SizeNat
<1>3. Size(e) = Size(e) + 4 * 0
  BY <1>2
<1>4. \A j \in 1 .. Len(offs) : ~(Len(offs) - 0 < j)
  BY <1>1
<1>5. Grows(e, e)
  BY <1>1, GrowsItself
<1> QED
  BY <1>3, <1>4, <1>5, Zenon DEF Pushing

LEMMA PushOffsetsIs ==
  ASSUME NEW e, NEW offs, Offsets(e, offs)
  PROVE  Pushing(e, PushOffsets(e, offs), offs, Len(offs))
<1> DEFINE N == Len(offs)
           P == [k \in 0 .. N |-> {g \in Builders : Pushing(e, g, offs, k)}]
           step == [x \in Builders \X (1 .. N) |-> PushOffset(x[1], offs[N - x[2] + 1])]
           Is(r) == r = [k \in 0 .. N |-> IF k = 0 THEN e ELSE PushOffset(r[k - 1], offs[N - k + 1])]
           pushed == CHOOSE r : Is(r)
<1>1. N \in Nat
  BY DEF Offsets
<1>2. PushOffsets(e, offs) = pushed[N]
  BY Zenon DEF PushOffsets
<1>3. e \in P[0]
  <2>1. Pushing(e, e, offs, 0)
    BY PushingStart
  <2>2. e \in Builders
    BY DEF Offsets, Sound
  <2> QED
    BY <1>1, <2>1, <2>2
<1>4. ASSUME NEW k \in 1 .. N, NEW x \in P[k - 1]
      PROVE  PushOffset(x, offs[N - k + 1]) \in P[k]
  <2> DEFINE h == PushOffset(x, offs[N - k + 1])
  <2>1. k - 1 \in 0 .. N /\ k \in 0 .. N
    BY <1>1
  <2>2. x \in Builders /\ Pushing(e, x, offs, k - 1)
    BY <2>1
  <2>3. Pushing(e, h, offs, k)
    BY <1>1, <2>2, PushingStep
  <2> HIDE DEF h
  <2>4. h \in Builders
    BY <2>3 DEF Pushing, Grows, Sound
  <2>5. h \in P[k]
    BY <2>1, <2>3, <2>4
  <2> QED
    BY <2>5 DEF h
<1>5. \A k \in 0 .. N : P[k] \subseteq Builders
  OBVIOUS
<1>6. \A k \in 1 .. N : \A x \in P[k - 1] : step[<<x, k>>] = PushOffset(x, offs[N - k + 1])
  <2> SUFFICES ASSUME NEW k \in 1 .. N, NEW x \in P[k - 1]
               PROVE  step[<<x, k>>] = PushOffset(x, offs[N - k + 1])
    OBVIOUS
  <2>1. k - 1 \in 0 .. N
    BY <1>1
  <2>2. x \in Builders
    BY <1>5, <2>1
  <2>3. <<x, k>> \in Builders \X (1 .. N)
    BY <2>2
  <2> QED
    BY <2>3
<1> HIDE DEF P
<1>7. PICK g \in [0 .. N -> Builders] :
        g[0] = e /\ \A k \in 1 .. N : g[k] = step[<<g[k - 1], k>>]
  <2>1. \A k \in 1 .. N : \A x \in P[k - 1] : step[<<x, k>>] \in P[k]
    BY <1>4, <1>6
  <2> HIDE DEF step, N
  <2>2. Steps(N, Builders, P, e, step)
    BY <1>1, <1>3, <1>5, <2>1 DEF Steps
  <2> QED
    BY <2>2, Recursion
<1>8. \A k \in 0 .. N : g[k] \in P[k]
  <2>1. ASSUME NEW k \in 1 .. N, g[k - 1] \in P[k - 1] PROVE g[k] \in P[k]
    <3>1. g[k] = step[<<g[k - 1], k>>]
      BY <1>7
    <3> HIDE DEF step
    <3>2. step[<<g[k - 1], k>>] \in P[k]
      BY <1>4, <1>6, <2>1
    <3> QED
      BY <3>1, <3>2
  <2> HIDE DEF step, N
  <2> QED
    BY <1>1, <1>3, <1>7, <2>1, Along
<1>9. Is(g)
  <2>1. \A k \in 1 .. N : g[k] = PushOffset(g[k - 1], offs[N - k + 1])
    <3> SUFFICES ASSUME NEW k \in 1 .. N
                 PROVE g[k] = PushOffset(g[k - 1], offs[N - k + 1])
      OBVIOUS
    <3>1. k - 1 \in 0 .. N
      BY <1>1
    <3> QED
      BY <1>6, <1>7, <1>8, <3>1
  <2> QED
    BY <1>1, <1>7, <2>1
<1>10. Is(pushed)
  BY <1>9, Zenon
<1> HIDE DEF pushed
<1>11. pushed[0] = e /\ \A k \in 1 .. N : pushed[k] = PushOffset(pushed[k - 1], offs[N - k + 1])
  <2> HIDE DEF N
  <2>1. pushed[0] = e
    BY <1>1, <1>10
  <2>2. ASSUME NEW k \in 1 .. N
        PROVE pushed[k] = PushOffset(pushed[k - 1], offs[N - k + 1])
    <3>1. k \in 0 .. N /\ k # 0
      BY <1>1
    <3> QED
      BY <1>10, <3>1, Zenon
  <2> QED
    BY <2>1, <2>2
<1>12. \A k \in 0 .. N : pushed[k] \in P[k]
  <2>1. \A k \in 1 .. N : pushed[k - 1] \in P[k - 1] => pushed[k] \in P[k]
    BY <1>4, <1>11
  <2> HIDE DEF N
  <2> QED
    BY <1>1, <1>3, <1>11, <2>1, Along
<1>13. pushed[N] \in P[N] /\ N \in 0 .. N
  BY <1>1, <1>12
<1> QED
  BY <1>2, <1>13 DEF P

\* A vector of distances: its length, and then its elements.
VectorIs(b, d, offs) ==
  /\ d \in Nat /\ d % 4 = 0 /\ offs \in Seq(Nat)
  /\ 4 + 4 * Len(offs) <= d /\ d <= Len(b)
  /\ Stands(b, d, LittleEndian(Len(offs), 4))
  /\ \A j \in 1 .. Len(offs) :
       /\ offs[j] # 0 /\ offs[j] + 4 <= d - 4 * j
       /\ Offset(b, d - 4 * j, offs[j])

LEMMA VectorStays ==
  ASSUME NEW b, NEW c, EndsWith(c, b), NEW d, NEW offs, VectorIs(b, d, offs)
  PROVE  VectorIs(c, d, offs)
<1>1. /\ d \in Nat /\ offs \in Seq(Nat) /\ Len(offs) \in Nat /\ Len(b) \in Nat /\ Len(c) \in Nat
      /\ Len(b) <= Len(c) /\ 4 + 4 * Len(offs) <= d /\ d <= Len(b)
  BY DEF VectorIs, EndsWith
<1>2. Stands(c, d, LittleEndian(Len(offs), 4))
  <2> DEFINE s == LittleEndian(Len(offs), 4)
  <2>1. Stands(b, d, s)
    BY DEF VectorIs
  <2>2. s \in Seq(Byte)
    BY <1>1, LengthBytes
  <2> HIDE DEF s
  <2>3. Stands(c, d, s)
    BY <1>1, <2>1, <2>2, StandsStays
  <2> QED
    BY <2>3 DEF s
<1>3. ASSUME NEW j \in 1 .. Len(offs) PROVE Offset(c, d - 4 * j, offs[j])
  <2> DEFINE x == d - 4 * j
  <2>1. Offset(b, x, offs[j]) /\ offs[j] \in Nat
    BY <1>1 DEF VectorIs
  <2>2. x \in Nat
    <3> DEFINE m == Len(offs)
    <3>1. m \in Nat /\ j \in Nat /\ j <= m /\ 4 + 4 * m <= d
      BY <1>1
    <3> HIDE DEF m
    <3> QED
      BY <1>1, <3>1
  <2> HIDE DEF x
  <2>3. Offset(c, x, offs[j])
    BY <2>1, <2>2, OffsetStays
  <2> QED
    BY <2>3 DEF x
<1>4. d <= Len(c)
  BY <1>1
<1> QED
  BY <1>2, <1>3, <1>4, Zenon DEF VectorIs

\* A vector has been begun.
Started(f, e, n) ==
  /\ Sound(e) /\ EndsWith(e.bytes, f.bytes) /\ f.minalign <= e.minalign
  /\ e.vtables = f.vtables /\ e.fields = <<>> /\ e.maxv = 0
  /\ e.nested = TRUE /\ e.finished = f.finished
  /\ n > 0 => Size(e) % 4 = 0 /\ 4 <= e.minalign
  /\ Size(f) <= Size(e) /\ Size(e) < Size(f) + 4

LEMMA StartVectorIs ==
  ASSUME NEW f, Outside(f), NEW n \in Nat, Size(f) < MaxSize
  PROVE  Started(f, StartVector(f, n), n)
<1> DEFINE g == [f EXCEPT !.nested = TRUE]
           m == 4 * n
           e == PreAlign(g, m, 4)
<1>1. StartVector(f, n) = e
  BY OutsideNotNested DEF StartVector
<1>2. /\ Sound(g) /\ g.bytes = f.bytes /\ g.vtables = f.vtables /\ g.fields = <<>> /\ g.maxv = 0
      /\ g.nested = TRUE /\ g.finished = f.finished /\ g.minalign = f.minalign
      /\ Size(g) = Size(f)
  <2>1. f \in Builders /\ Sound(f) /\ f.fields = <<>> /\ f.maxv = 0
    BY DEF Outside, Sound
  <2>2. /\ g \in Builders /\ g.bytes = f.bytes /\ g.vtables = f.vtables /\ g.fields = f.fields
        /\ g.maxv = f.maxv /\ g.nested = TRUE /\ g.finished = f.finished
        /\ g.minalign = f.minalign /\ g.offsets = f.offsets /\ g.force = f.force
        /\ g.dedup = f.dedup /\ g.asserts = f.asserts /\ g.reserved = f.reserved
    BY <2>1 DEF Builders
  <2> HIDE DEF g
  <2>3. Size(g) = Size(f) /\ ScratchSize(g) = ScratchSize(f)
    BY <2>2 DEF Size, ScratchSize
  <2> QED
    BY <2>1, <2>2, <2>3 DEF Sound
<1>3. f.bytes \in Seq(Byte) /\ Size(f) \in Nat /\ f.minalign \in Nat
  BY SizeNat, EightNat DEF Outside
<1>4. m \in Nat /\ (n > 0 => m # 0 /\ m % 4 = 0) /\ (n = 0 => m = 0)
  BY SMT
<1> HIDE DEF g, m
<1>5. CASE n = 0
  <2>1. e = g
    BY <1>4, <1>5 DEF PreAlign
  <2>2. EndsWith(g.bytes, f.bytes)
    BY <1>2, <1>3, EndsWithItself
  <2>3. f.minalign <= g.minalign /\ Size(f) <= Size(g) /\ Size(g) < Size(f) + 4
    BY <1>2, <1>3
  <2> HIDE DEF e
  <2> QED
    BY <1>1, <1>2, <1>5, <2>1, <2>2, <2>3 DEF Started
<1>6. CASE n > 0
  <2> DEFINE a == 4
             pad == PaddingBytes(Size(g) + m, a)
  <2>0. m \in Nat /\ m # 0 /\ Sound(g) /\ Size(g) < MaxSize
    BY <1>2, <1>4, <1>6
  <2>1. e = Push(TrackMinAlign(g, a), Zeros(pad))
    BY <2>0 DEF PreAlign
  <2>2. a \in Alignments
    BY DEF Alignments
  <2>3. /\ Grows(g, e) /\ (Size(e) + m) % 4 = 0 /\ 4 <= e.minalign
        /\ pad \in Nat /\ pad < 4
        /\ Size(e) = Size(g) + pad
    <3> HIDE DEF e
    <3>1. /\ Grows(g, e) /\ pad \in Nat /\ pad < a /\ Size(e) = Size(g) + pad
          /\ (Size(e) + m) % a = 0 /\ a <= e.minalign
      <4> HIDE DEF a, pad
      <4>1. /\ Grows(g, Push(TrackMinAlign(g, a), Zeros(pad))) /\ pad \in Nat /\ pad < a
            /\ Size(Push(TrackMinAlign(g, a), Zeros(pad))) = Size(g) + pad
            /\ (Size(Push(TrackMinAlign(g, a), Zeros(pad))) + m) % a = 0
            /\ a <= Push(TrackMinAlign(g, a), Zeros(pad)).minalign
        BY <2>0, <2>2, PaddedIs, Zenon DEF pad
      <4> QED
        BY <2>1, <4>1, Zenon
    <3> QED
      BY <3>1
  <2> HIDE DEF pad
  <2> HIDE DEF e
  <2>4. Size(e) \in Nat
    BY <2>3, SizeNat DEF Grows
  <2>5. Size(e) % 4 = 0
    <3>1. \A x, y \in Nat : (x + y) % 4 = 0 /\ y % 4 = 0 => x % 4 = 0
      BY SMT
    <3> QED
      BY <1>4, <1>6, <2>3, <2>4, <3>1
  <2>6. Size(f) <= Size(e) /\ Size(e) < Size(f) + 4
    BY <1>2, <1>3, <2>3
  <2> QED
    BY <1>1, <1>2, <2>3, <2>5, <2>6 DEF Started, Grows, Frame
<1> QED
  BY <1>5, <1>6

\* The vector has been written; its distance is the result.
Vectored(f, h, offs) ==
  /\ Made(f, h) /\ 4 <= h.minalign
  /\ Size(f) < h.result /\ h.result <= Size(h) /\ Size(h) <= Size(f) + 4 * Len(offs) + 20
  /\ VectorIs(h.bytes, h.result, offs)

LEMMA CreateVectorIs ==
  ASSUME NEW f, Outside(f), VTables(f.bytes, f.vtables), NEW offs \in Seq(Nat),
         \A j \in 1 .. Len(offs) : offs[j] # 0 /\ offs[j] <= Size(f),
         Size(f) + 4 * Len(offs) + 100 < MaxSize
  PROVE  Vectored(f, CreateVector(f, offs), offs)
<1> DEFINE n == Len(offs)
           m == 4 * n
           e == StartVector(f, n)
           g == PushOffsets(e, offs)
           g1 == [g EXCEPT !.nested = FALSE]
           s == LittleEndian(n, 4)
           h == PushElement(g1, s)
<1>1. /\ Size(f) \in Nat /\ n \in Nat /\ m \in Nat /\ Size(f) + m + 100 < MaxSize /\ MaxSize \in Nat
      /\ f.minalign \in Nat /\ Sound(f)
  <2>1. Sound(f) /\ MaxSize \in Nat
    BY MaxSizeNat DEF Outside
  <2>2. Size(f) \in Nat /\ f.minalign \in Alignments
    BY <2>1, SizeNat
  <2>3. f.minalign \in Nat
    BY <2>2, EightNat
  <2>4. n \in Nat
    OBVIOUS
  <2>5. m \in Nat
    <3> HIDE DEF n
    <3> QED
      BY <2>4
  <2> QED
    BY <2>1, <2>2, <2>3, <2>4, <2>5
<1>2. CreateVector(f, offs) = EndVector(g, n)
  BY DEF CreateVector
<1>3. s \in Seq(Byte) /\ Len(s) = 4 /\ Len(s) \in Alignments
  <2>1. n \in Int
    BY <1>1
  <2> HIDE DEF n
  <2> QED
    BY <2>1, LengthBytes DEF Alignments
<1> HIDE DEF n, m, s
<1>4. Started(f, e, n)
  BY <1>1, StartVectorIs
<1> HIDE DEF e
<1>5. /\ Sound(e) /\ EndsWith(e.bytes, f.bytes) /\ f.minalign <= e.minalign
      /\ e.vtables = f.vtables /\ e.fields = <<>> /\ e.maxv = 0
      /\ e.nested = TRUE /\ e.finished = f.finished
      /\ Size(f) <= Size(e) /\ Size(e) < Size(f) + 4 /\ Size(e) \in Nat
      /\ (n > 0 => Size(e) % 4 = 0 /\ 4 <= e.minalign)
      /\ e.minalign \in Nat
  <2>1. Sound(e)
    BY <1>4 DEF Started
  <2> QED
    BY <1>4, <2>1, SizeNat, EightNat DEF Started
<1>6. Offsets(e, offs)
  <2>1. ASSUME NEW j \in 1 .. Len(offs) PROVE offs[j] # 0 /\ offs[j] <= Size(e)
    <3> DEFINE off == offs[j]
    <3>1. off \in Nat /\ off # 0 /\ off <= Size(f)
      OBVIOUS
    <3> HIDE DEF off
    <3>2. off # 0 /\ off <= Size(e)
      BY <1>1, <1>5, <3>1
    <3> QED
      BY <3>2 DEF off
  <2>2. Size(e) + 4 * Len(offs) + 20 < MaxSize
    <3>1. Size(e) + m + 20 < MaxSize
      BY <1>1, <1>5
    <3> QED
      BY <3>1 DEF m, n
  <2> QED
    BY <1>5, <2>1, <2>2 DEF Offsets, n
<1>7. Pushing(e, g, offs, n)
  BY <1>6, PushOffsetsIs DEF n
<1> HIDE DEF g
<1>8. /\ Grows(e, g) /\ Sound(g) /\ Size(g) = Size(e) + m /\ Size(g) \in Nat
      /\ \A j \in 1 .. n : Offset(g.bytes, ElementAt(Size(e), n, j), offs[j])
  <2>1. Grows(e, g) /\ Size(g) = Size(e) + 4 * n
        /\ \A j \in 1 .. n : n - n < j => Offset(g.bytes, ElementAt(Size(e), n, j), offs[j])
    BY <1>7 DEF Pushing, n
  <2>2. \A j \in 1 .. n : n - n < j
    BY <1>1
  <2>3. Sound(g)
    BY <2>1 DEF Grows
  <2> QED
    BY <2>1, <2>2, <2>3, SizeNat DEF m
<1>9. /\ EndVector(g, n) = h
      /\ Sound(g1) /\ g1.bytes = g.bytes /\ g1.fields = <<>> /\ g1.maxv = 0 /\ g1.vtables = f.vtables
      /\ g1.nested = FALSE /\ g1.finished = f.finished /\ g1.minalign = g.minalign
      /\ Size(g1) = Size(g)
  <2>1. g \in Builders /\ g.asserts = TRUE /\ g.nested = TRUE /\ g.fields = <<>> /\ g.maxv = 0
        /\ g.vtables = f.vtables /\ g.finished = f.finished
    BY <1>5, <1>8 DEF Grows, Frame, Sound
  <2>2. Asserting(g, g.nested) = g
    BY <2>1 DEF Asserting, Builders
  <2>3. EndVector(g, n) = h
    BY <2>2 DEF EndVector, s
  <2>4. /\ g1 \in Builders /\ g1.bytes = g.bytes /\ g1.vtables = g.vtables /\ g1.fields = g.fields
        /\ g1.maxv = g.maxv /\ g1.nested = FALSE /\ g1.finished = g.finished
        /\ g1.minalign = g.minalign /\ g1.offsets = g.offsets /\ g1.force = g.force
        /\ g1.dedup = g.dedup /\ g1.asserts = g.asserts /\ g1.reserved = g.reserved
    BY <2>1 DEF Builders
  <2> HIDE DEF g1, h
  <2>5. Size(g1) = Size(g) /\ ScratchSize(g1) = ScratchSize(g)
    BY <2>4 DEF Size, ScratchSize
  <2> QED
    BY <1>8, <2>1, <2>3, <2>4, <2>5 DEF Sound
<1> HIDE DEF g1
<1>10. Size(g1) + 7 < MaxSize
  BY <1>1, <1>5, <1>8, <1>9
<1>11. /\ Grows(g1, h) /\ h.result = Size(h)
       /\ Size(h) % Len(s) = 0 /\ Len(s) <= h.minalign
       /\ Size(g1) + Len(s) <= Size(h) /\ Size(h) < Size(g1) + 2 * Len(s)
       /\ Stands(h.bytes, Size(h), s)
       /\ (Size(g1) % Len(s) = 0 => h.bytes = s \o g1.bytes)
  BY <1>3, <1>9, <1>10, PushElementIs
<1> HIDE DEF h
<1>12. /\ Sound(h) /\ Size(h) \in Nat /\ h.minalign \in Nat /\ h.bytes \in Seq(Byte)
       /\ Size(h) = Len(h.bytes)
  <2>1. Sound(h)
    BY <1>11 DEF Grows
  <2> QED
    BY <2>1, SizeNat, EightNat
<1>13. /\ EndsWith(h.bytes, g.bytes) /\ EndsWith(h.bytes, f.bytes)
       /\ f.minalign <= h.minalign /\ h.vtables = f.vtables
       /\ h.fields = <<>> /\ h.maxv = 0 /\ h.nested = FALSE /\ h.finished = f.finished
  <2>1. EndsWith(h.bytes, g.bytes) /\ EndsWith(g.bytes, e.bytes)
    BY <1>8, <1>9, <1>11 DEF Grows
  <2>2. EndsWith(h.bytes, f.bytes)
    BY <1>5, <2>1, EndsWithTransitive
  <2>3. e.minalign <= g.minalign /\ g1.minalign = g.minalign /\ g1.minalign <= h.minalign /\ g1.minalign \in Nat
    BY <1>8, <1>9, <1>11, SizeNat, EightNat DEF Grows
  <2>4. f.minalign <= h.minalign
    BY <1>1, <1>5, <1>12, <2>3
  <2> QED
    BY <1>9, <1>11, <2>1, <2>2, <2>4 DEF Grows, Frame
<1>14. Made(f, h)
  <2>1. VTables(h.bytes, h.vtables)
    BY <1>13, VTablesStay
  <2> QED
    BY <1>12, <1>13, <2>1 DEF Made, Outside
<1>15. Size(f) < Size(h) /\ Size(h) <= Size(f) + m + 20 /\ 4 + m <= Size(h)
  <2>1. /\ Size(f) \in Nat /\ m \in Nat /\ Size(e) \in Nat /\ Size(g) \in Nat /\ Size(h) \in Nat
        /\ Size(f) <= Size(e) /\ Size(e) < Size(f) + 4 /\ Size(g) = Size(e) + m
    BY <1>1, <1>5, <1>8, <1>12
  <2>2. Size(g) + 4 <= Size(h) /\ Size(h) < Size(g) + 8
    <3>1. Len(s) = 4 /\ Size(g1) = Size(g)
      BY <1>3, <1>9
    <3>2. Size(g1) + Len(s) <= Size(h) /\ Size(h) < Size(g1) + 2 * Len(s)
      BY <1>11
    <3> QED
      BY <2>1, <3>1, <3>2
  <2> QED
    BY <2>1, <2>2
<1>16. ASSUME NEW j \in 1 .. n
       PROVE  /\ offs[j] # 0 /\ offs[j] + 4 <= Size(h) - 4 * j
              /\ Offset(h.bytes, Size(h) - 4 * j, offs[j])
  <2>1. n > 0 /\ j \in Nat /\ j <= n
    BY <1>1
  <2>2. Size(g1) % Len(s) = 0
    <3>1. \A x, y \in Nat : x % 4 = 0 => (x + 4 * y) % 4 = 0
      BY SMT
    <3> QED
      BY <1>1, <1>3, <1>5, <1>8, <1>9, <2>1, <3>1 DEF m
  <2>3. Size(h) = Size(g) + 4
    <3>1. h.bytes = s \o g.bytes
      BY <1>9, <1>11, <2>2
    <3>2. g.bytes \in Seq(Byte) /\ Size(g) = Len(g.bytes)
      BY <1>8, SizeNat
    <3>3. Len(h.bytes) = Len(s) + Len(g.bytes)
      BY <1>3, <3>1, <3>2, Prepended
    <3> QED
      BY <1>3, <1>8, <1>12, <3>2, <3>3
  <2> DEFINE d == Size(h) - 4 * j
  <2>4. ElementAt(Size(e), n, j) = d
    BY <1>1, <1>5, <1>8, <2>1, <2>3 DEF ElementAt, m
  <2>5. d \in Nat /\ Size(e) + 4 <= d
    <3>1. 4 * j <= m /\ 4 * j \in Nat
      BY <1>1, <2>1 DEF m
    <3>2. Size(e) \in Nat /\ m \in Nat /\ Size(h) = Size(e) + m + 4
      <4>1. Size(g) = Size(e) + m /\ Size(e) \in Nat /\ m \in Nat
        BY <1>1, <1>5, <1>8
      <4> QED
        BY <2>3, <4>1
    <3> DEFINE x == 4 * j
    <3>3. x \in Nat /\ x <= m /\ d = Size(h) - x
      BY <3>1
    <3> HIDE DEF x, d
    <3> QED
      BY <3>2, <3>3
  <2> HIDE DEF d
  <2> DEFINE off == offs[j]
  <2>6. off \in Nat /\ off # 0 /\ off <= Size(f)
    BY DEF n
  <2>7. Offset(g.bytes, d, off)
    BY <1>8, <2>4
  <2> HIDE DEF off
  <2>8. Offset(h.bytes, d, off)
    BY <1>13, <2>5, <2>6, <2>7, OffsetStays
  <2>9. off + 4 <= d
    BY <1>1, <1>5, <2>5, <2>6
  <2> QED
    BY <2>6, <2>8, <2>9 DEF d, off
<1>17. VectorIs(h.bytes, Size(h), offs)
  <2>1. 4 + 4 * Len(offs) <= Size(h)
    BY <1>15 DEF m, n
  <2>2. Size(h) % 4 = 0 /\ Size(h) <= Len(h.bytes) /\ Stands(h.bytes, Size(h), LittleEndian(Len(offs), 4))
    <3>1. Size(h) % Len(s) = 0 /\ Len(s) = 4
      BY <1>3, <1>11
    <3>2. Size(h) % 4 = 0
      BY <3>1
    <3>3. Size(h) <= Len(h.bytes)
      BY <1>12
    <3>4. Stands(h.bytes, Size(h), LittleEndian(Len(offs), 4))
      BY <1>11 DEF s, n
    <3> QED
      BY <3>2, <3>3, <3>4
  <2>3. \A j \in 1 .. Len(offs) :
          /\ offs[j] # 0 /\ offs[j] + 4 <= Size(h) - 4 * j
          /\ Offset(h.bytes, Size(h) - 4 * j, offs[j])
    BY <1>16 DEF n
  <2> QED
    BY <1>12, <2>1, <2>2, <2>3, Zenon DEF VectorIs
<1>18. Vectored(f, h, offs)
  <2>1. Size(h) <= Size(f) + 4 * Len(offs) + 20
    BY <1>15 DEF m, n
  <2>2. Size(f) < h.result /\ h.result <= Size(h) /\ 4 <= h.minalign
    BY <1>3, <1>11, <1>12, <1>15
  <2> QED
    BY <1>11, <1>14, <1>17, <2>1, <2>2 DEF Vectored
<1> QED
  BY <1>2, <1>9, <1>18

------------------------------------------------------------------------------
(* Finish.                                                                  *)

\* The buffer that f had, with the distance to its root before it, is aligned as a whole.
Finished(f, h, root) ==
  /\ Sound(h) /\ h.finished = TRUE /\ h.fields = <<>>
  /\ EndsWith(h.bytes, f.bytes)
  /\ Size(h) % f.minalign = 0
  /\ root + 4 <= Size(h) /\ Size(h) < Size(f) + 20 /\ Size(f) + 4 <= Size(h)
  /\ Stands(h.bytes, Size(h), LittleEndian(Size(h) - root, 4))

\* A multiple of 8 is one of 4.
LEMMA Multiples ==
  ASSUME NEW n \in Nat, NEW a \in Alignments, 4 <= a, (n + 4) % a = 0
  PROVE  n % 4 = 0
<1>1. a = 4 \/ a = 8
  BY DEF Alignments
<1>2. (n + 4) % 4 = 0 => n % 4 = 0
  BY SMT
<1>3. (n + 4) % 8 = 0 => n % 4 = 0
  BY SMT
<1> QED
  BY <1>1, <1>2, <1>3

LEMMA FinishBufferIs ==
  ASSUME NEW f, Outside(f), f.finished = FALSE, 4 <= f.minalign,
         NEW root \in Nat, root # 0, root <= Size(f), Size(f) + 40 < MaxSize
  PROVE  Finished(f, FinishBuffer(f, root, <<>>, FALSE), root)
<1> DEFINE g0 == [NotNested(Asserting(f, ~f.finished)) EXCEPT !.vtables = <<>>]
           g == TrackMinAlign(g0, 0)
           a == g.minalign
           four == 4
           pad == PaddingBytes(Size(g) + four, a)
           h == Push(TrackMinAlign(g, a), Zeros(pad))
           e == PushOffset(h, root)
           r == [e EXCEPT !.finished = TRUE]
<1>1. /\ Size(f) \in Nat /\ MaxSize \in Nat /\ Sound(f) /\ f.minalign \in Alignments /\ f.minalign \in Nat
  <2>1. Sound(f)
    BY DEF Outside
  <2>2. Size(f) \in Nat /\ f.minalign \in Alignments
    BY <2>1, SizeNat
  <2> QED
    BY <2>1, <2>2, MaxSizeNat, EightNat
<1>2. NotNested(Asserting(f, ~f.finished)) = f
  <2>1. f \in Builders /\ f.asserts = TRUE
    BY <1>1 DEF Sound
  <2>2. Asserting(f, ~f.finished) = f
    BY <2>1 DEF Asserting, Builders
  <2> QED
    BY <2>2, OutsideNotNested
<1>3. /\ Sound(g0) /\ g0.bytes = f.bytes /\ g0.fields = <<>> /\ g0.maxv = 0 /\ g0.nested = FALSE
      /\ g0.minalign = f.minalign /\ Size(g0) = Size(f)
  <2>1. f \in Builders /\ Sound(f) /\ f.fields = <<>> /\ f.maxv = 0 /\ f.nested = FALSE
    BY DEF Outside, Sound
  <2> DEFINE w == [f EXCEPT !.vtables = <<>>]
  <2>2. /\ w \in Builders /\ w.bytes = f.bytes /\ w.vtables = <<>> /\ w.fields = f.fields
        /\ w.maxv = f.maxv /\ w.nested = f.nested /\ w.finished = f.finished
        /\ w.minalign = f.minalign /\ w.offsets = f.offsets /\ w.force = f.force
        /\ w.dedup = f.dedup /\ w.asserts = f.asserts /\ w.reserved = f.reserved
    <3> DEFINE none == <<>>
               rest == <<>>
    <3>1. none \in Seq(Nat) /\ none = rest
      OBVIOUS
    <3>2. w = [f EXCEPT !.vtables = none]
      OBVIOUS
    <3> HIDE DEF none, w
    <3>3. /\ w \in Builders /\ w.bytes = f.bytes /\ w.vtables = none /\ w.fields = f.fields
          /\ w.maxv = f.maxv /\ w.nested = f.nested /\ w.finished = f.finished
          /\ w.minalign = f.minalign /\ w.offsets = f.offsets /\ w.force = f.force
          /\ w.dedup = f.dedup /\ w.asserts = f.asserts /\ w.reserved = f.reserved
      BY <2>1, <3>1, <3>2 DEF Builders
    <3> QED
      BY <3>1, <3>3
  <2>3. g0 = w
    BY <1>2
  <2> HIDE DEF g0, w
  <2>4. Size(w) = Size(f)
    BY <2>2 DEF Size
  <2>5. ScratchSize(w) = 8 * 0 + 4 * (0 + 0)
    BY <2>1, <2>2 DEF ScratchSize, Sound
  <2>6. ScratchSize(f) \in Nat /\ f.reserved \in Nat
    BY <1>1, SizeNat
  <2>7. Size(w) + ScratchSize(w) <= w.reserved
    BY <1>1, <2>1, <2>2, <2>4, <2>5, <2>6 DEF Sound
  <2>8. Sound(w)
    BY <2>1, <2>2, <2>7 DEF Sound
  <2> QED
    BY <2>1, <2>2, <2>3, <2>4, <2>8
<1>4. g = g0
  <2>1. g0 \in Builders /\ g0.minalign \in Nat
    BY <1>1, <1>3 DEF Sound
  <2> HIDE DEF g0
  <2>2. ~(0 > g0.minalign)
    BY <2>1
  <2> QED
    BY <2>1, <2>2 DEF TrackMinAlign, Builders
<1>5. FinishBuffer(f, root, <<>>, FALSE) = r
  <2>1. PreAlign(g, 0 + 4 + Len(<<>>), g.minalign) = h
    <3>1. 0 + 4 + Len(<<>>) = four /\ four # 0
      OBVIOUS
    <3> HIDE DEF g, four
    <3> QED
      BY <3>1 DEF PreAlign
  <2>2. Push(h, <<>>) = h
    BY DEF Push
  <2>3. PutRoot(h, root, FALSE) = e
    BY DEF PutRoot
  <2> HIDE DEF h, e, g
  <2> QED
    BY <2>1, <2>2, <2>3 DEF FinishBuffer, g
<1> HIDE DEF g0, g
<1>6. Sound(g) /\ g.bytes = f.bytes /\ g.minalign = f.minalign /\ Size(g) = Size(f) /\ g.fields = <<>>
  BY <1>3, <1>4
<1>7. /\ Grows(g, h) /\ (Size(h) + 4) % f.minalign = 0
      /\ Size(h) = Size(g) + pad /\ pad \in Nat /\ pad < f.minalign
  <2>1. four \in Nat
    OBVIOUS
  <2>2. a \in Alignments /\ Size(g) < MaxSize
    BY <1>1, <1>6
  <2> HIDE DEF h, a, four, pad
  <2>3. /\ Grows(g, h) /\ (Size(h) + four) % a = 0
        /\ Size(h) = Size(g) + pad /\ pad \in Nat /\ pad < a
    BY <1>6, <2>1, <2>2, PaddedIs, Zenon DEF h, pad
  <2>4. a = f.minalign
    BY <1>6 DEF a
  <2> QED
    BY <2>3, <2>4 DEF four
<1> HIDE DEF h, pad
<1>8. Sound(h) /\ Size(h) \in Nat /\ EndsWith(h.bytes, f.bytes) /\ h.fields = <<>>
  <2>1. Sound(h) /\ EndsWith(h.bytes, f.bytes) /\ h.fields = <<>>
    BY <1>6, <1>7 DEF Grows, Frame
  <2> QED
    BY <2>1, SizeNat
<1>9. Size(h) % 4 = 0
  BY <1>1, <1>7, <1>8, Multiples
<1>10. Size(f) <= Size(h) /\ Size(h) < Size(f) + 8 /\ root <= Size(h) /\ Size(h) + 11 < MaxSize
  <2>1. f.minalign <= 8
    BY <1>1, EightNat
  <2> QED
    BY <1>1, <1>6, <1>7, <1>8, <2>1
<1>11. /\ Grows(h, e) /\ Size(e) = Size(h) + 4
       /\ Stands(e.bytes, Size(e), LittleEndian(Size(e) - root, 4))
  BY <1>8, <1>9, <1>10, PushOffsetIs
<1> HIDE DEF e
<1>12. Sound(e) /\ e.fields = <<>> /\ EndsWith(e.bytes, f.bytes)
  <2>1. Sound(e) /\ e.fields = <<>> /\ EndsWith(e.bytes, h.bytes)
    BY <1>8, <1>11 DEF Grows, Frame
  <2> QED
    BY <1>8, <2>1, EndsWithTransitive
<1>13. /\ Sound(r) /\ r.finished = TRUE /\ r.fields = <<>> /\ r.bytes = e.bytes /\ Size(r) = Size(e)
  <2>1. e \in Builders
    BY <1>12 DEF Sound
  <2>2. /\ r \in Builders /\ r.bytes = e.bytes /\ r.vtables = e.vtables /\ r.fields = e.fields
        /\ r.maxv = e.maxv /\ r.nested = e.nested /\ r.finished = TRUE
        /\ r.minalign = e.minalign /\ r.offsets = e.offsets /\ r.force = e.force
        /\ r.dedup = e.dedup /\ r.asserts = e.asserts /\ r.reserved = e.reserved
    BY <2>1 DEF Builders
  <2> HIDE DEF r
  <2>3. Size(r) = Size(e) /\ ScratchSize(r) = ScratchSize(e)
    BY <2>2 DEF Size, ScratchSize
  <2> QED
    BY <1>12, <2>2, <2>3 DEF Sound
<1> HIDE DEF r
<1>14. root + 4 <= Size(r) /\ Size(r) < Size(f) + 20 /\ Size(f) + 4 <= Size(r)
  BY <1>1, <1>8, <1>10, <1>11, <1>13
<1>15. Size(r) % f.minalign = 0
  BY <1>7, <1>11, <1>13
<1> QED
  BY <1>5, <1>11, <1>12, <1>13, <1>14, <1>15 DEF Finished

------------------------------------------------------------------------------
(* The tables of the protocol.                                              *)

RightField(field) ==
  /\ FieldSize(field) \in Alignments /\ Default(field) = 0
  /\ field.required => ~IsScalar(field)
RightTable(table) ==
  LaidOut(table) /\ \A i \in DOMAIN table.fields : RightField(table.fields[i])

LEMMA ScalarSizes ==
  /\ ScalarTypes \subseteq DOMAIN SizeOf
  /\ \A type \in ScalarTypes : SizeOf[type] = Width[type] /\ Width[type] \in Alignments
BY DEF ScalarTypes, SizeOf, Width, Alignments

LEMMA RightFields ==
  /\ \A type \in ScalarTypes : \A name : RightField(Field(type, name)) /\ IsScalar(Field(type, name))
  /\ \A type \in {"string", "Player", "[Player]", "Payload"} : \A name :
       /\ RightField(Field(type, name)) /\ RightField(Required(type, name))
       /\ ~IsScalar(Field(type, name)) /\ ~IsScalar(Required(type, name))
<1>1. ASSUME NEW type \in ScalarTypes, NEW name
      PROVE  RightField(Field(type, name)) /\ IsScalar(Field(type, name))
  <2> DEFINE field == Field(type, name)
  <2>1. field.type = type /\ field.required = FALSE /\ DOMAIN field = {"type", "name", "required"}
    BY DEF Field
  <2> HIDE DEF field
  <2>2. IsScalar(field) /\ Default(field) = 0 /\ FieldSize(field) \in Alignments
    BY <2>1, ScalarSizes DEF IsScalar, Default, FieldSize
  <2> QED
    BY <2>1, <2>2 DEF RightField, field
<1>2. ASSUME NEW type \in {"string", "Player", "[Player]", "Payload"}, NEW field,
             field.type = type, DOMAIN field = {"type", "name", "required"}
      PROVE  RightField(field) /\ ~IsScalar(field)
  <2>1. ~IsScalar(field)
    BY <1>2 DEF IsScalar, SizeOf
  <2>2. FieldSize(field) = 4 /\ Default(field) = 0
    BY <1>2, <2>1 DEF FieldSize, Default
  <2>3. FieldSize(field) \in Alignments
    BY <2>2 DEF Alignments
  <2> QED
    BY <2>1, <2>2, <2>3 DEF RightField
<1>3. ASSUME NEW type \in {"string", "Player", "[Player]", "Payload"}, NEW name
      PROVE  /\ RightField(Field(type, name)) /\ RightField(Required(type, name))
             /\ ~IsScalar(Field(type, name)) /\ ~IsScalar(Required(type, name))
  <2>1. Field(type, name).type = type /\ DOMAIN Field(type, name) = {"type", "name", "required"}
    BY DEF Field
  <2>2. Required(type, name).type = type /\ DOMAIN Required(type, name) = {"type", "name", "required"}
    BY DEF Required
  <2> QED
    BY <1>2, <2>1, <2>2
<1> QED
  BY <1>1, <1>3

LEMMA NoFields ==
  ASSUME NEW table, table.fields = <<>>, table.adds = <<>>
  PROVE  RightTable(table)
<1>1. DOMAIN table.fields = {} /\ table.adds \in Seq(Nat) /\ Len(table.adds) = 0
  OBVIOUS
<1> QED
  BY <1>1 DEF RightTable, LaidOut

LEMMA OneField ==
  ASSUME NEW table, NEW a, table.fields = <<a>>, table.adds = << 1 >>, RightField(a)
  PROVE  RightTable(table)
<1>1. /\ DOMAIN table.fields = {1} /\ table.fields[1] = a
      /\ table.adds \in Seq(Nat) /\ Len(table.adds) = 1 /\ table.adds[1] = 1
  OBVIOUS
<1> QED
  BY <1>1 DEF RightTable, LaidOut, RightField

LEMMA TwoFields ==
  ASSUME NEW table, NEW a, NEW b, table.fields = <<a, b>>,
         NEW x \in 1 .. 2, NEW y \in 1 .. 2, x # y, table.adds = <<x, y>>,
         RightField(a), RightField(b)
  PROVE  RightTable(table)
<1>1. /\ DOMAIN table.fields = 1 .. 2 /\ table.fields[1] = a /\ table.fields[2] = b
      /\ table.adds \in Seq(Nat) /\ Len(table.adds) = 2
      /\ table.adds[1] = x /\ table.adds[2] = y
  OBVIOUS
<1>2. \A i \in 1 .. 2 : RightField(table.fields[i])
  BY <1>1
<1>3. \A m, n \in 1 .. 2 : table.adds[m] = table.adds[n] => m = n
  BY <1>1
<1>4. \A i \in 1 .. 2 : \E m \in 1 .. 2 : table.adds[m] = i
  BY <1>1
<1>5. DOMAIN table.fields \subseteq 1 .. 3
  BY <1>1
<1>6. \A m \in 1 .. 2 : table.adds[m] \in DOMAIN table.fields
  BY <1>1
<1>7. \A i \in DOMAIN table.fields : table.fields[i].required => ~IsScalar(table.fields[i])
  BY <1>1, <1>2 DEF RightField
<1>8. LaidOut(table)
  BY <1>1, <1>3, <1>4, <1>5, <1>6, <1>7 DEF LaidOut
<1> QED
  BY <1>1, <1>2, <1>8 DEF RightTable

LEMMA ThreeFields ==
  ASSUME NEW table, NEW a, NEW b, NEW c, table.fields = <<a, b, c>>,
         NEW x \in 1 .. 3, NEW y \in 1 .. 3, NEW z \in 1 .. 3, x # y, x # z, y # z,
         table.adds = <<x, y, z>>, RightField(a), RightField(b), RightField(c)
  PROVE  RightTable(table)
<1>1. /\ DOMAIN table.fields = 1 .. 3
      /\ table.fields[1] = a /\ table.fields[2] = b /\ table.fields[3] = c
      /\ table.adds \in Seq(Nat) /\ Len(table.adds) = 3
      /\ table.adds[1] = x /\ table.adds[2] = y /\ table.adds[3] = z
  OBVIOUS
<1>2. \A i \in 1 .. 3 : RightField(table.fields[i])
  BY <1>1
<1>3. \A m, n \in 1 .. 3 : table.adds[m] = table.adds[n] => m = n
  BY <1>1
<1>4. \A i \in 1 .. 3 : \E m \in 1 .. 3 : table.adds[m] = i
  BY <1>1
<1>5. DOMAIN table.fields \subseteq 1 .. 3
  BY <1>1
<1>6. \A m \in 1 .. 3 : table.adds[m] \in DOMAIN table.fields
  BY <1>1
<1>7. \A i \in DOMAIN table.fields : table.fields[i].required => ~IsScalar(table.fields[i])
  BY <1>1, <1>2 DEF RightField
<1>8. LaidOut(table)
  BY <1>1, <1>3, <1>4, <1>5, <1>6, <1>7 DEF LaidOut
<1> QED
  BY <1>1, <1>2, <1>8 DEF RightTable

\* Every table has up to three fields, which its Create function adds once each.
LEMMA SchemaRight == \A table \in DOMAIN Schema : RightTable(Schema[table])
<1>1. /\ RightTable(C2S_KeepAlive) /\ RightTable(S2C_KeepAlive) /\ RightTable(C2S_PlayerListRequest)
  BY NoFields DEF C2S_KeepAlive, S2C_KeepAlive, C2S_PlayerListRequest
<1>2. RightTable(S2C_SignUpResponse)
  BY RightFields, OneField DEF S2C_SignUpResponse, ScalarTypes
<1>3. RightTable(S2C_PlayerListResponse)
  BY RightFields, OneField DEF S2C_PlayerListResponse
<1>4. RightTable(C2S_MatchmakingRequest)
  BY RightFields, OneField DEF C2S_MatchmakingRequest
<1>5. RightTable(C2S_LoginRequest)
  BY RightFields, TwoFields DEF C2S_LoginRequest
<1>6. RightTable(S2C_PlayerInOutLobby)
  BY RightFields, TwoFields DEF S2C_PlayerInOutLobby, ScalarTypes
<1>7. RightTable(C2S_GameReadyRequest)
  BY RightFields, TwoFields DEF C2S_GameReadyRequest, ScalarTypes
<1>8. RightTable(S2C_PlayerChangeState)
  BY RightFields, TwoFields DEF S2C_PlayerChangeState, ScalarTypes
<1>9. RightTable(S2C_CountdownStartGame)
  BY RightFields, TwoFields DEF S2C_CountdownStartGame, ScalarTypes
<1>10. RightTable(S2C_StartGame)
  BY RightFields, TwoFields DEF S2C_StartGame, ScalarTypes
<1>11. RightTable(Player)
  BY RightFields, ThreeFields DEF Player, ScalarTypes
<1>12. RightTable(S2C_LoginResponse)
  BY RightFields, ThreeFields DEF S2C_LoginResponse, ScalarTypes
<1>13. RightTable(C2S_SignUpRequest)
  BY RightFields, ThreeFields DEF C2S_SignUpRequest
<1>14. RightTable(S2C_MatchmakingResponse)
  BY RightFields, ThreeFields DEF S2C_MatchmakingResponse, ScalarTypes
<1>15. RightTable(MessageEnvelope)
  BY RightFields, ThreeFields DEF MessageEnvelope, ScalarTypes
<1> QED
  BY <1>1, <1>2, <1>3, <1>4, <1>5, <1>6, <1>7, <1>8, <1>9, <1>10, <1>11, <1>12, <1>13, <1>14, <1>15
  DEF Schema

------------------------------------------------------------------------------
(* The calls of a message.                                                  *)

SmallString(s) == s \in Seq(1 .. 255) /\ Len(s) <= MaxText + 100

\* The call whose result a field of this type is given.
CalledFor(type, c) ==
  /\ type = "string" => c.call = "CreateString"
  /\ type = "Player" => c.call = "Create" /\ c.table = "Player"
  /\ type = "[Player]" => c.call = "CreateVector"
  /\ type = "Payload" => c.call = "Create"

RightArgument(calls, k, field, arg) ==
  IF IsScalar(field) THEN arg \in Nat
  ELSE arg \in 1 .. k - 1 /\ CalledFor(field.type, calls[arg])

\* The k-th call refers to what earlier ones have made.
RightString(c) == c.call = "CreateString" /\ SmallString(c.string)
RightCreate(calls, k) ==
  LET c == calls[k]
  IN  /\ c.call = "Create" /\ c.table \in DOMAIN Schema
      /\ DOMAIN c.args = DOMAIN Fields(c.table)
      /\ \A i \in DOMAIN Fields(c.table) : RightArgument(calls, k, Fields(c.table)[i], c.args[i])
RightVector(calls, k) ==
  LET c == calls[k]
  IN  /\ c.call = "CreateVector" /\ c.elements \in Seq(1 .. k - 1)
      /\ Len(c.elements) <= MaxPlayers
      /\ \A j \in 1 .. Len(c.elements) : CalledFor("Player", calls[c.elements[j]])
RightCall(calls, k) ==
  RightString(calls[k]) \/ RightCreate(calls, k) \/ RightVector(calls, k)

RightCalls(calls) ==
  /\ Len(calls) \in 3 .. 3 * MaxPlayers + 6
  /\ \A k \in 1 .. Len(calls) - 1 : RightCall(calls, k)
  /\ calls[Len(calls)] =
       [call |-> "Finish", root |-> Len(calls) - 1, identifier |-> <<>>, prefixed |-> FALSE]

\* What a call has written, at the distance r.
CallIs(b, a, made, c, r) ==
  /\ c.call = "CreateString" => StringIs(b, r, c.string)
  /\ c.call = "Create" => TableIs(b, a, r, Schema[c.table], Arguments(c, made))
  /\ c.call = "CreateVector" => VectorIs(b, r, Elements(c, made))

Cost == MaxText + 4 * MaxPlayers + 128

\* The message before it is finished.
Composing(f, made, calls) ==
  /\ Outside(f) /\ VTables(f.bytes, f.vtables) /\ f.finished = FALSE
  /\ made \in Seq(Nat) /\ Len(made) < Len(calls)
  /\ Size(f) <= Len(made) * Cost
  /\ Len(made) > 0 => 4 <= f.minalign
  /\ \A j \in 1 .. Len(made) :
       /\ made[j] # 0 /\ made[j] <= Size(f)
       /\ CallIs(f.bytes, f.minalign, made, calls[j], made[j])

------------------------------------------------------------------------------

LEMMA Room ==
  ASSUME NEW k \in Nat, k < 3 * MaxPlayers + 6
  PROVE  /\ Cost \in Nat /\ MaxSize \in Nat /\ MaxText \in Nat /\ MaxPlayers \in Nat
         /\ MaxText + 4 * MaxPlayers + 128 = Cost
         /\ k * Cost \in Nat /\ k * Cost + 3 * Cost < MaxSize
         /\ (k + 1) * Cost = k * Cost + Cost
<1> DEFINE calls == 3 * MaxPlayers + 9
           j == calls - (k + 3)
<1>1. MaxText \in Nat /\ MaxPlayers \in Nat /\ MaxSize \in Nat
  BY MaxSizeNat, SizeAssumption
<1>2. Cost \in Nat /\ Cost = MaxText + 4 * MaxPlayers + 128
  <2> DEFINE four == 4 * MaxPlayers
  <2>1. four \in Nat
    BY <1>1
  <2>2. Cost = MaxText + four + 128
    BY DEF Cost
  <2> HIDE DEF four
  <2>3. Cost \in Nat
    BY <1>1, <2>1, <2>2
  <2> QED
    BY <2>3 DEF Cost
<1>3. calls * Cost < MaxSize
  BY SizeAssumption DEF Cost
<1>4. j \in Nat /\ calls = (k + 3) + j
  BY <1>1
<1> HIDE DEF calls, j
<1>5. ASSUME NEW c \in Nat
      PROVE  /\ ((k + 3) + j) * c = (k * c + 3 * c) + j * c
             /\ j * c \in Nat /\ k * c \in Nat /\ (k + 1) * c = k * c + c
  BY <1>4
<1>6. /\ ((k + 3) + j) * Cost = (k * Cost + 3 * Cost) + j * Cost
      /\ j * Cost \in Nat /\ k * Cost \in Nat /\ (k + 1) * Cost = k * Cost + Cost
  BY <1>2, <1>5
<1>7. k * Cost + 3 * Cost < MaxSize
  <2> DEFINE x == k * Cost
             y == 3 * Cost
             z == j * Cost
  <2>1. x \in Nat /\ y \in Nat /\ z \in Nat /\ (x + y) + z < MaxSize
    BY <1>2, <1>3, <1>4, <1>6
  <2> HIDE DEF x, y, z
  <2>2. x + y < MaxSize
    BY <1>1, <2>1
  <2> QED
    BY <2>2 DEF x, y
<1> QED
  BY <1>1, <1>2, <1>6, <1>7

LEMMA LayoutIs ==
  ASSUME NEW table \in DOMAIN Schema
  PROVE  Layout(table) = Schema[table] /\ Fields(table) = Schema[table].fields
         /\ LaidOut(Schema[table]) /\ DOMAIN Schema[table].fields \subseteq Nat
         /\ \A i \in DOMAIN Schema[table].fields : RightField(Schema[table].fields[i])
<1>1. RightTable(Schema[table])
  BY SchemaRight
<1>2. LaidOut(Schema[table])
  BY <1>1 DEF RightTable
<1>3. DOMAIN Schema[table].fields \subseteq Nat
  <2>1. DOMAIN Schema[table].fields \subseteq 1 .. 3
    BY <1>2 DEF LaidOut
  <2> QED
    BY <2>1
<1> QED
  BY <1>1, <1>2, <1>3 DEF Layout, Fields, RightTable

\* The arguments of a table are what its fields may be given.
LEMMA RightArguments ==
  ASSUME NEW f, Size(f) \in Nat, NEW made \in Seq(Nat),
         \A j \in 1 .. Len(made) : made[j] # 0 /\ made[j] <= Size(f),
         NEW calls, NEW k \in Nat, k - 1 <= Len(made), RightCreate(calls, k)
  PROVE  GoodArguments(f, Schema[calls[k].table], Arguments(calls[k], made))
<1> DEFINE c == calls[k]
           table == Schema[c.table]
<1>1. /\ c.table \in DOMAIN Schema /\ DOMAIN c.args = DOMAIN table.fields
      /\ \A i \in DOMAIN table.fields : RightArgument(calls, k, table.fields[i], c.args[i])
  BY LayoutIs DEF RightCreate
<1>2. Layout(c.table) = table /\ \A i \in DOMAIN table.fields : RightField(table.fields[i])
  BY <1>1, LayoutIs
<1> HIDE DEF c, table
<1>3. ASSUME NEW i \in DOMAIN table.fields
      PROVE  Argument(f, table.fields[i], Arguments(c, made)[i])
  <2> DEFINE field == table.fields[i]
             arg == c.args[i]
             x == Arguments(c, made)[i]
  <2>1. x = IF IsScalar(field) \/ arg = 0 THEN arg ELSE made[arg]
    BY <1>1, <1>2 DEF Arguments
  <2>2. RightField(field) /\ RightArgument(calls, k, field, arg)
    BY <1>1, <1>2
  <2> HIDE DEF field, arg, x
  <2>3. FieldSize(field) \in Alignments /\ Default(field) = 0
    BY <2>2 DEF RightField
  <2>4. CASE IsScalar(field)
    <3>1. x = arg /\ arg \in Int
      BY <2>1, <2>2, <2>4 DEF RightArgument
    <3>2. Argument(f, field, x)
      BY <2>3, <2>4, <3>1 DEF Argument
    <3> QED
      BY <3>2 DEF field, x
  <2>5. CASE ~IsScalar(field)
    <3>1. arg \in 1 .. k - 1
      BY <2>2, <2>5 DEF RightArgument
    <3>2. arg \in 1 .. Len(made) /\ arg # 0
      BY <3>1
    <3>3. x \in Nat /\ x # 0 /\ x <= Size(f)
      BY <2>1, <2>5, <3>2
    <3>4. Argument(f, field, x)
      BY <2>3, <2>5, <3>3 DEF Argument
    <3> QED
      BY <3>4 DEF field, x
  <2> QED
    BY <2>4, <2>5
<1>4. GoodArguments(f, table, Arguments(c, made))
  BY <1>3 DEF GoodArguments
<1> QED
  BY <1>4 DEF c, table

\* A call that refers to earlier results does not see later ones.
LEMMA ArgumentsStay ==
  ASSUME NEW made \in Seq(Nat), NEW x \in Nat, NEW calls, NEW k \in Nat, k - 1 <= Len(made)
  PROVE  /\ RightCreate(calls, k) =>
              Arguments(calls[k], Append(made, x)) = Arguments(calls[k], made)
         /\ RightVector(calls, k) =>
              Elements(calls[k], Append(made, x)) = Elements(calls[k], made)
<1> DEFINE c == calls[k]
           later == Append(made, x)
<1>1. \A n \in 1 .. k - 1 : later[n] = made[n]
  OBVIOUS
<1> HIDE DEF later
<1>2. ASSUME RightCreate(calls, k)
      PROVE  Arguments(c, later) = Arguments(c, made)
  <2> DEFINE fields == Layout(c.table).fields
  <2>1. DOMAIN c.args = DOMAIN fields
        /\ \A i \in DOMAIN fields : RightArgument(calls, k, fields[i], c.args[i])
    BY <1>2, LayoutIs DEF RightCreate
  <2> HIDE DEF fields
  <2>2. ASSUME NEW i \in DOMAIN c.args, ~(IsScalar(fields[i]) \/ c.args[i] = 0)
        PROVE  later[c.args[i]] = made[c.args[i]]
    <3>1. c.args[i] \in 1 .. k - 1
      BY <2>1, <2>2 DEF RightArgument
    <3> QED
      BY <1>1, <3>1
  <2> HIDE DEF c
  <2>3. Arguments(c, later) =
          [i \in DOMAIN c.args |-> IF IsScalar(fields[i]) \/ c.args[i] = 0
                                     THEN c.args[i] ELSE later[c.args[i]]]
    BY DEF Arguments, fields
  <2>4. Arguments(c, made) =
          [i \in DOMAIN c.args |-> IF IsScalar(fields[i]) \/ c.args[i] = 0
                                     THEN c.args[i] ELSE made[c.args[i]]]
    BY DEF Arguments, fields
  <2> QED
    BY <2>2, <2>3, <2>4
<1>3. ASSUME RightVector(calls, k)
      PROVE  Elements(c, later) = Elements(c, made)
  <2>1. c.elements \in Seq(1 .. k - 1)
    BY <1>3 DEF RightVector
  <2> HIDE DEF c
  <2>2. ASSUME NEW i \in DOMAIN c.elements
        PROVE  later[c.elements[i]] = made[c.elements[i]]
    <3>1. c.elements[i] \in 1 .. k - 1
      <4> DEFINE R == 1 .. k - 1
      <4> HIDE DEF R
      <4> QED
        BY <2>1, <2>2 DEF R
    <3> QED
      BY <1>1, <3>1
  <2> QED
    BY <2>2 DEF Elements
<1> QED
  BY <1>2, <1>3 DEF later, c

LEMMA SmallStringBytes ==
  ASSUME NEW s, SmallString(s)
  PROVE  s \in Seq(Byte) /\ Len(s) \in Nat /\ Len(s) <= MaxText + 100
<1>1. s \in Seq(1 .. 255) /\ Len(s) <= MaxText + 100
  BY DEF SmallString
<1>2. 1 .. 255 \subseteq Byte
  BY DEF Byte
<1>3. ASSUME NEW R, NEW S, R \subseteq S, s \in Seq(R) PROVE s \in Seq(S) /\ Len(s) \in Nat
  BY <1>3
<1> QED
  BY <1>1, <1>2, <1>3

LEMMA CallStays ==
  ASSUME NEW f, Sound(f), NEW made \in Seq(Nat), NEW x \in Nat,
         \A j \in 1 .. Len(made) : made[j] # 0 /\ made[j] <= Size(f),
         NEW calls, NEW k \in Nat, k - 1 <= Len(made), RightCall(calls, k),
         NEW h, EndsWith(h.bytes, f.bytes), h.minalign \in Nat, f.minalign <= h.minalign, NEW r,
         CallIs(f.bytes, f.minalign, made, calls[k], r)
  PROVE  CallIs(h.bytes, h.minalign, Append(made, x), calls[k], r)
<1>1. Size(f) \in Nat /\ f.minalign \in Nat
  BY SizeNat, EightNat
<1>2. ASSUME RightString(calls[k])
      PROVE  CallIs(h.bytes, h.minalign, Append(made, x), calls[k], r)
  <2>1. calls[k].call = "CreateString"
    BY <1>2 DEF RightString
  <2>2. calls[k].string \in Seq(Byte)
    BY <1>2, SmallStringBytes DEF RightString
  <2>3. StringIs(f.bytes, r, calls[k].string)
    BY <2>1 DEF CallIs
  <2>4. StringIs(h.bytes, r, calls[k].string)
    BY <2>2, <2>3, StringStays
  <2> QED
    BY <2>1, <2>4 DEF CallIs
<1>3. ASSUME RightCreate(calls, k)
      PROVE  CallIs(h.bytes, h.minalign, Append(made, x), calls[k], r)
  <2> DEFINE table == Schema[calls[k].table]
             args == Arguments(calls[k], made)
  <2>1. calls[k].call = "Create" /\ DOMAIN table.fields \subseteq Nat
    BY <1>3, LayoutIs DEF RightCreate
  <2>2. GoodArguments(f, table, args)
    BY <1>1, <1>3, RightArguments
  <2>3. TableIs(f.bytes, f.minalign, r, table, args)
    BY <2>1 DEF CallIs
  <2>4. TableIs(h.bytes, h.minalign, r, table, args)
    <3> HIDE DEF table, args
    <3> QED
      BY <1>1, <2>1, <2>2, <2>3, TableStays
  <2>5. Arguments(calls[k], Append(made, x)) = args
    BY <1>3, ArgumentsStay
  <2> QED
    BY <2>1, <2>4, <2>5 DEF CallIs
<1>4. ASSUME RightVector(calls, k)
      PROVE  CallIs(h.bytes, h.minalign, Append(made, x), calls[k], r)
  <2>1. calls[k].call = "CreateVector"
    BY <1>4 DEF RightVector
  <2>2. VectorIs(f.bytes, r, Elements(calls[k], made))
    BY <2>1 DEF CallIs
  <2>3. VectorIs(h.bytes, r, Elements(calls[k], made))
    BY <2>2, VectorStays
  <2>4. Elements(calls[k], Append(made, x)) = Elements(calls[k], made)
    BY <1>4, ArgumentsStay
  <2> QED
    BY <2>1, <2>3, <2>4 DEF CallIs
<1> QED
  BY <1>2, <1>3, <1>4 DEF RightCall

\* A call has been made.
Advanced(f, h, made, c) ==
  /\ Made(f, h) /\ 4 <= h.minalign
  /\ h.result \in Nat /\ h.result # 0 /\ h.result <= Size(h) /\ Size(h) <= Size(f) + Cost
  /\ CallIs(h.bytes, h.minalign, made, c, h.result)

LEMMA StringAdvances ==
  ASSUME NEW f, Outside(f), VTables(f.bytes, f.vtables), NEW made, NEW c, RightString(c),
         Size(f) + 3 * Cost < MaxSize, Cost \in Nat, MaxText \in Nat, MaxText + 128 <= Cost
  PROVE  Advanced(f, Perform(f, made, c), made, c)
<1> DEFINE s == c.string
           h == CreateString(f, s)
<1>1. c.call = "CreateString"
  BY DEF RightString
<1>2. Perform(f, made, c) = h
  BY <1>1 DEF Perform
<1>3. s \in Seq(Byte) /\ Len(s) \in Nat /\ Len(s) <= MaxText + 100
  BY SmallStringBytes DEF RightString
<1>4. Sound(f) /\ Size(f) \in Nat /\ MaxSize \in Nat
  BY SizeNat, MaxSizeNat DEF Outside
<1> HIDE DEF s, h
<1>5. Size(f) + Len(s) + 20 < MaxSize
  BY <1>3, <1>4
<1>6. /\ Grows(f, h) /\ h.result = Size(h)
      /\ StringIs(h.bytes, Size(h), s)
      /\ Size(h) < Size(f) + Len(s) + 9 /\ 4 <= h.minalign
  BY <1>3, <1>5, CreateStringIs DEF h
<1>7. Sound(h) /\ Size(h) \in Nat
  BY <1>6, SizeNat DEF Grows
<1>8. Made(f, h)
  <2>1. VTables(h.bytes, h.vtables)
    BY <1>6, VTablesStay DEF Grows, Frame
  <2> QED
    BY <1>6, <2>1 DEF Made, Outside, Grows, Frame
<1>9. h.result # 0 /\ Size(h) <= Size(f) + Cost
  <2>1. Len(s) + 5 <= Size(h)
    BY <1>6 DEF StringIs
  <2> QED
    BY <1>3, <1>4, <1>6, <1>7, <2>1
<1>10. CallIs(h.bytes, h.minalign, made, c, h.result)
  BY <1>1, <1>6 DEF CallIs, s
<1>11. h.result \in Nat /\ h.result <= Size(h)
  BY <1>6, <1>7
<1> QED
  BY <1>2, <1>6, <1>8, <1>9, <1>10, <1>11 DEF Advanced

LEMMA CreateAdvances ==
  ASSUME NEW f, Outside(f), VTables(f.bytes, f.vtables), NEW made \in Seq(Nat),
         \A j \in 1 .. Len(made) : made[j] # 0 /\ made[j] <= Size(f),
         NEW calls, NEW k \in Nat, k - 1 <= Len(made), RightCreate(calls, k),
         Size(f) + 3 * Cost < MaxSize, Cost \in Nat, 128 <= Cost
  PROVE  Advanced(f, Perform(f, made, calls[k]), made, calls[k])
<1> DEFINE c == calls[k]
           table == Schema[c.table]
           args == Arguments(c, made)
           h == CreateTable(f, table, args)
<1>1. c.call = "Create" /\ Layout(c.table) = table /\ LaidOut(table)
  BY LayoutIs DEF RightCreate
<1>2. Perform(f, made, c) = h
  BY <1>1 DEF Perform
<1>3. Sound(f) /\ Size(f) \in Nat /\ MaxSize \in Nat
  BY SizeNat, MaxSizeNat DEF Outside
<1>4. GoodArguments(f, table, args)
  BY <1>3, RightArguments
<1>5. Size(f) + 200 < MaxSize
  BY <1>3
<1> HIDE DEF c, table, args, h
<1>6. Tabled(f, h, table, args)
  BY <1>1, <1>4, <1>5, CreateTableIs DEF h
<1>7. /\ Made(f, h) /\ 4 <= h.minalign /\ Size(f) < h.result /\ h.result <= Size(h)
      /\ Size(h) <= Size(f) + 66 /\ TableIs(h.bytes, h.minalign, h.result, table, args)
  BY <1>6 DEF Tabled
<1>8. h.result \in Nat /\ Size(h) \in Nat
  <2>1. Sound(h)
    BY <1>7 DEF Made, Outside
  <2> QED
    BY <2>1, SizeNat
<1>9. h.result # 0 /\ Size(h) <= Size(f) + Cost
  BY <1>3, <1>7, <1>8
<1>10. CallIs(h.bytes, h.minalign, made, c, h.result)
  BY <1>1, <1>7 DEF CallIs, table, args
<1>11. Advanced(f, h, made, c)
  BY <1>7, <1>8, <1>9, <1>10 DEF Advanced
<1> QED
  BY <1>2, <1>11 DEF c

LEMMA VectorAdvances ==
  ASSUME NEW f, Outside(f), VTables(f.bytes, f.vtables), NEW made \in Seq(Nat),
         \A j \in 1 .. Len(made) : made[j] # 0 /\ made[j] <= Size(f),
         NEW calls, NEW k \in Nat, k - 1 <= Len(made), RightVector(calls, k),
         Size(f) + 3 * Cost < MaxSize, Cost \in Nat, MaxPlayers \in Nat,
         4 * MaxPlayers + 128 <= Cost
  PROVE  Advanced(f, Perform(f, made, calls[k]), made, calls[k])
<1> DEFINE c == calls[k]
           n == Len(c.elements)
           offs == Elements(c, made)
           m == 4 * n
           h == CreateVector(f, offs)
<1>1. c.call = "CreateVector" /\ c.elements \in Seq(1 .. k - 1) /\ n <= MaxPlayers
  BY DEF RightVector
<1>2. Perform(f, made, c) = h
  BY <1>1 DEF Perform
<1>3. Sound(f) /\ Size(f) \in Nat /\ MaxSize \in Nat
  BY SizeNat, MaxSizeNat DEF Outside
<1>4. n \in Nat /\ DOMAIN c.elements = 1 .. n
  BY <1>1
<1> HIDE DEF c
<1>5. ASSUME NEW j \in 1 .. n PROVE c.elements[j] \in 1 .. Len(made)
  <2> DEFINE R == 1 .. k - 1
  <2>1. c.elements \in Seq(R)
    BY <1>1
  <2> HIDE DEF R
  <2>2. c.elements[j] \in R
    BY <1>4, <1>5, <2>1
  <2> QED
    BY <2>2 DEF R
<1>6. offs \in Seq(Nat) /\ Len(offs) = n
      /\ \A j \in 1 .. n : offs[j] # 0 /\ offs[j] <= Size(f)
  <2>1. offs = [j \in 1 .. n |-> made[c.elements[j]]]
    BY <1>4 DEF Elements
  <2> HIDE DEF offs, n
  <2>2. \A j \in 1 .. n : made[c.elements[j]] \in Nat
    BY <1>5
  <2>3. offs \in [1 .. n -> Nat]
    BY <2>1, <2>2
  <2>4. offs \in Seq(Nat) /\ Len(offs) = n
    BY <1>4, <2>3, FunctionIsSeq
  <2>5. ASSUME NEW j \in 1 .. n PROVE offs[j] # 0 /\ offs[j] <= Size(f)
    BY <1>5, <2>1
  <2> QED
    BY <2>4, <2>5
<1> HIDE DEF n, offs
<1>7. m \in Nat /\ Size(f) + m + 100 < MaxSize /\ m + 20 <= Cost
  <2> DEFINE p == 4 * MaxPlayers
  <2>1. p \in Nat /\ m \in Nat /\ m <= p /\ p + 128 <= Cost
    BY <1>1, <1>4
  <2> HIDE DEF p, m
  <2> QED
    BY <1>3, <2>1
<1>8. Vectored(f, h, offs)
  <2>1. Size(f) + 4 * Len(offs) + 100 < MaxSize
    BY <1>6, <1>7 DEF m
  <2>2. \A j \in 1 .. Len(offs) : offs[j] # 0 /\ offs[j] <= Size(f)
    BY <1>6
  <2> QED
    BY <1>6, <2>1, <2>2, CreateVectorIs
<1> HIDE DEF h
<1>9. /\ Made(f, h) /\ 4 <= h.minalign /\ Size(f) < h.result /\ h.result <= Size(h)
      /\ Size(h) <= Size(f) + m + 20 /\ VectorIs(h.bytes, h.result, offs)
  BY <1>6, <1>8 DEF Vectored, m
<1> HIDE DEF m
<1>10. h.result \in Nat /\ Size(h) \in Nat
  <2>1. Sound(h)
    BY <1>9 DEF Made, Outside
  <2> QED
    BY <2>1, SizeNat
<1>11. h.result # 0 /\ Size(h) <= Size(f) + Cost
  BY <1>3, <1>7, <1>9, <1>10
<1>12. CallIs(h.bytes, h.minalign, made, c, h.result)
  BY <1>1, <1>9 DEF CallIs, offs
<1>13. Advanced(f, h, made, c)
  BY <1>9, <1>10, <1>11, <1>12 DEF Advanced
<1> QED
  BY <1>2, <1>13 DEF c

\* What is required of the builder before the next call.
LEMMA ComposingFacts ==
  ASSUME NEW f, NEW made, NEW calls, RightCalls(calls), Composing(f, made, calls)
  PROVE  /\ Sound(f) /\ Outside(f) /\ Size(f) \in Nat /\ f.minalign \in Nat
         /\ made \in Seq(Nat) /\ Len(made) \in Nat /\ Len(made) < Len(calls)
         /\ Len(calls) \in Nat /\ 3 <= Len(calls) /\ Len(calls) <= 3 * MaxPlayers + 6
         /\ Len(made) < 3 * MaxPlayers + 6
         /\ Size(f) + 3 * Cost < MaxSize /\ Cost \in Nat /\ 128 <= Cost
         /\ MaxText \in Nat /\ MaxText + 128 <= Cost
         /\ MaxPlayers \in Nat /\ 4 * MaxPlayers + 128 <= Cost
         /\ MaxSize \in Nat
         /\ \A j \in 1 .. Len(made) : made[j] # 0 /\ made[j] <= Size(f)
<1>1. Sound(f) /\ Outside(f) /\ made \in Seq(Nat)
  BY DEF Composing, Outside
<1>2. Size(f) \in Nat /\ f.minalign \in Nat
  BY <1>1, SizeNat, EightNat
<1>3. Len(made) \in Nat /\ MaxPlayers \in Nat
  BY <1>1, SizeAssumption
<1>4. Len(calls) \in 3 .. 3 * MaxPlayers + 6 /\ Len(made) < Len(calls)
  BY DEF RightCalls, Composing
<1>5. /\ Len(calls) \in Nat /\ 3 <= Len(calls) /\ Len(calls) <= 3 * MaxPlayers + 6
      /\ Len(made) < 3 * MaxPlayers + 6
  <2> DEFINE m == 3 * MaxPlayers + 6
             n == Len(calls)
  <2>1. m \in Nat /\ n \in 3 .. m /\ Len(made) < n
    BY <1>3, <1>4
  <2> HIDE DEF m, n
  <2>2. n \in Nat /\ 3 <= n /\ n <= m /\ Len(made) < m
    BY <1>3, <2>1
  <2> QED
    BY <2>2 DEF m, n
<1>6. /\ Cost \in Nat /\ MaxSize \in Nat /\ MaxText \in Nat
      /\ MaxText + 4 * MaxPlayers + 128 = Cost
      /\ Len(made) * Cost \in Nat /\ Len(made) * Cost + 3 * Cost < MaxSize
  BY <1>3, <1>5, Room
<1>7. Size(f) + 3 * Cost < MaxSize
  <2> DEFINE x == Len(made) * Cost
             y == 3 * Cost
  <2>1. x \in Nat /\ y \in Nat /\ x + y < MaxSize /\ Size(f) <= x
    BY <1>6 DEF Composing
  <2> HIDE DEF x, y
  <2>2. Size(f) + y < MaxSize
    BY <1>2, <1>6, <2>1
  <2> QED
    BY <2>2 DEF y
<1>8. 128 <= Cost /\ MaxText + 128 <= Cost /\ 4 * MaxPlayers + 128 <= Cost
  <2> DEFINE x == 4 * MaxPlayers
  <2>1. x \in Nat /\ MaxText \in Nat /\ MaxText + x + 128 = Cost
    BY <1>3, <1>6
  <2> HIDE DEF x
  <2>2. 128 <= Cost /\ MaxText + 128 <= Cost /\ x + 128 <= Cost
    BY <1>6, <2>1
  <2> QED
    BY <2>2 DEF x
<1>9. \A j \in 1 .. Len(made) : made[j] # 0 /\ made[j] <= Size(f)
  BY DEF Composing
<1> QED
  BY <1>1, <1>2, <1>3, <1>4, <1>5, <1>6, <1>7, <1>8, <1>9

LEMMA ComposingStart ==
  ASSUME NEW calls, RightCalls(calls)
  PROVE  Composing(NewBuilder, <<>>, calls)
<1> DEFINE f == NewBuilder
<1>1. f \in Builders
  <2>1. 1 \in Alignments
    BY DEF Alignments
  <2> QED
    BY <2>1 DEF NewBuilder, Builders
<1>2. /\ f.bytes = <<>> /\ f.fields = <<>> /\ f.vtables = <<>> /\ f.offsets = <<>>
      /\ f.maxv = 0 /\ f.nested = FALSE /\ f.finished = FALSE /\ f.asserts = TRUE
      /\ f.force = FALSE /\ f.dedup = TRUE /\ f.reserved = 0
  BY DEF NewBuilder
<1> HIDE DEF f
<1>3. Size(f) = 0 /\ ScratchSize(f) = 0
  BY <1>2 DEF Size, ScratchSize
<1>4. Outside(f)
  BY <1>1, <1>2, <1>3 DEF Outside, Sound
<1>5. VTables(f.bytes, f.vtables)
  BY <1>2 DEF VTables
<1>6. Len(calls) \in 3 .. 3 * MaxPlayers + 6 /\ MaxPlayers \in Nat
  BY SizeAssumption DEF RightCalls
<1>7. 0 < Len(calls)
  BY <1>6
<1>8. 0 * Cost = 0
  <2>1. Cost \in Nat
    <3>1. 0 < 3 * MaxPlayers + 6
      BY <1>6
    <3> QED
      BY <3>1, Room
  <2> QED
    BY <2>1
<1> QED
  BY <1>2, <1>3, <1>4, <1>5, <1>7, <1>8 DEF Composing, f

LEMMA ComposingStep ==
  ASSUME NEW f, NEW made, NEW calls, RightCalls(calls), Composing(f, made, calls),
         Len(made) + 1 < Len(calls)
  PROVE  LET h == Perform(f, made, calls[Len(made) + 1])
         IN  Composing(h, Append(made, h.result), calls)
<1> DEFINE k == Len(made) + 1
           c == calls[k]
           h == Perform(f, made, c)
           r == h.result
           later == Append(made, r)
<1>1. /\ Sound(f) /\ Outside(f) /\ Size(f) \in Nat /\ f.minalign \in Nat
      /\ made \in Seq(Nat) /\ Len(made) \in Nat
      /\ Len(calls) \in Nat /\ Len(made) < 3 * MaxPlayers + 6
      /\ Size(f) + 3 * Cost < MaxSize /\ Cost \in Nat /\ 128 <= Cost
      /\ MaxText \in Nat /\ MaxText + 128 <= Cost
      /\ MaxPlayers \in Nat /\ 4 * MaxPlayers + 128 <= Cost
      /\ \A j \in 1 .. Len(made) : made[j] # 0 /\ made[j] <= Size(f)
  BY ComposingFacts
<1>2. VTables(f.bytes, f.vtables) /\ f.finished = FALSE
  BY DEF Composing
<1>3. k \in Nat /\ k - 1 = Len(made) /\ k - 1 <= Len(made) /\ k \in 1 .. Len(calls) - 1
  BY <1>1
<1>4. RightCall(calls, k)
  BY <1>3 DEF RightCalls
<1> HIDE DEF k
<1>5. Advanced(f, h, made, c)
  <2>1. CASE RightString(c)
    BY <1>1, <1>2, <2>1, StringAdvances
  <2>2. CASE RightCreate(calls, k)
    BY <1>1, <1>2, <1>3, <2>2, CreateAdvances
  <2>3. CASE RightVector(calls, k)
    BY <1>1, <1>2, <1>3, <2>3, VectorAdvances
  <2> QED
    BY <1>4, <2>1, <2>2, <2>3 DEF RightCall
<1> HIDE DEF h
<1>6. /\ Outside(h) /\ Sound(h) /\ h.finished = FALSE /\ EndsWith(h.bytes, f.bytes)
      /\ f.minalign <= h.minalign
      /\ VTables(h.bytes, h.vtables) /\ 4 <= h.minalign
      /\ r \in Nat /\ r # 0 /\ r <= Size(h) /\ Size(h) <= Size(f) + Cost
      /\ CallIs(h.bytes, h.minalign, made, c, r)
  BY <1>2, <1>5 DEF Advanced, Made, Outside
<1>7. Size(h) \in Nat /\ h.minalign \in Nat /\ Size(f) <= Size(h)
  <2>1. Size(h) \in Nat /\ h.minalign \in Nat /\ Size(h) = Len(h.bytes)
    BY <1>6, SizeNat, EightNat
  <2>2. Size(f) = Len(f.bytes)
    BY <1>1, SizeNat
  <2> QED
    BY <1>6, <2>1, <2>2 DEF EndsWith
<1> HIDE DEF r
<1>8. /\ later \in Seq(Nat) /\ Len(later) = k /\ later[k] = r
      /\ \A j \in 1 .. k - 1 : later[j] = made[j]
  BY <1>1, <1>3, <1>6
<1>9. k < Len(calls)
  BY DEF k
<1>10. Size(h) <= k * Cost
  <2>1. Size(f) <= Len(made) * Cost
    BY DEF Composing
  <2>2. (Len(made) + 1) * Cost = Len(made) * Cost + Cost /\ Len(made) * Cost \in Nat
    BY <1>1, Room
  <2> DEFINE x == Len(made) * Cost
             y == k * Cost
  <2>3. Size(f) <= x /\ y = x + Cost /\ x \in Nat
    BY <2>1, <2>2 DEF k
  <2> HIDE DEF x, y
  <2>4. Size(h) <= y
    BY <1>1, <1>6, <1>7, <2>3
  <2> QED
    BY <2>4 DEF y
<1>11. ASSUME NEW j \in 1 .. k
       PROVE  /\ later[j] # 0 /\ later[j] <= Size(h)
              /\ CallIs(h.bytes, h.minalign, later, calls[j], later[j])
  <2>1. CASE j = k
    <3>1. CallIs(h.bytes, h.minalign, later, c, r)
      <4>1. EndsWith(h.bytes, h.bytes)
        BY <1>6, SizeNat, EndsWithItself
      <4>2. \A i \in 1 .. Len(made) : made[i] # 0 /\ made[i] <= Size(h)
        BY <1>1, <1>7
      <4>3. h.minalign <= h.minalign
        BY <1>7
      <4> QED
        BY <1>1, <1>3, <1>4, <1>6, <1>7, <4>1, <4>2, <4>3, CallStays
    <3> QED
      BY <1>6, <1>8, <2>1, <3>1
  <2>2. CASE j # k
    <3>1. j \in Nat /\ j \in 1 .. k - 1 /\ j \in 1 .. Len(made) /\ j \in 1 .. Len(calls) - 1 /\ j - 1 <= Len(made)
      BY <1>1, <1>3, <2>2
    <3>2. CallIs(f.bytes, f.minalign, made, calls[j], made[j]) /\ RightCall(calls, j)
      BY <3>1 DEF Composing, RightCalls
    <3>3. CallIs(h.bytes, h.minalign, later, calls[j], made[j])
      BY <1>1, <1>6, <1>7, <3>1, <3>2, CallStays
    <3>4. made[j] # 0 /\ made[j] <= Size(h)
      <4>1. made[j] \in Nat /\ made[j] # 0 /\ made[j] <= Size(f)
        BY <1>1, <3>1
      <4> QED
        BY <1>1, <1>7, <4>1
    <3> QED
      BY <1>8, <3>1, <3>3, <3>4
  <2> QED
    BY <2>1, <2>2
<1> HIDE DEF later
<1>12. Composing(h, later, calls)
  BY <1>6, <1>8, <1>9, <1>10, <1>11 DEF Composing
<1> QED
  BY <1>12 DEF later, r, h, c, k

\* The vtable of a table is shorter than a buffer that has grown since.
VTableFits(b, t) == U16(b, VTable(b, t)) < Len(b)

LEMMA VTableFitsLater ==
  ASSUME NEW b, NEW c, EndsWith(c, b), Len(b) < Len(c), Len(c) < MaxSize,
         NEW a, NEW top, NEW table, NEW args, TableIs(b, a, top, table, args)
  PROVE  VTableFits(c, Len(c) - top)
<1>1. b \in Seq(Byte) /\ c \in Seq(Byte) /\ Len(b) \in Nat /\ Len(c) \in Nat
  BY DEF EndsWith
<1>2. top \in Nat /\ 4 <= top /\ top <= Len(b)
  BY DEF TableIs
<1>3. PICK v \in Nat, size \in Nat :
        /\ Even(v) /\ 4 <= size /\ size <= v /\ v <= Len(b)
        /\ Signed32(v - top) /\ Stands(b, top, LittleEndian(v - top, 4))
        /\ U16(b, Len(b) - v) = size
  BY DEF TableIs
<1>4. v - top \in Int
  BY <1>2
<1>5. LittleEndian(v - top, 4) \in Seq(Byte)
  BY <1>4, LengthBytes
<1>6. Stands(c, top, LittleEndian(v - top, 4))
  BY <1>2, <1>3, <1>5, StandsStays
<1>7. I32(c, Len(c) - top) = v - top
  BY <1>1, <1>2, <1>3, <1>6, Read32
<1>8. VTable(c, Len(c) - top) = Len(c) - v
  <2>1. (Len(c) - top) - (v - top) = Len(c) - v
    BY <1>1, <1>2
  <2> QED
    BY <1>7, <2>1 DEF VTable
<1>9. U16(c, Len(c) - v) = size
  <2>1. v \in 2 .. Len(b)
    BY <1>1, <1>3
  <2> QED
    BY <1>3, <2>1, U16Stays
<1>10. size < Len(c)
  BY <1>1, <1>3
<1> QED
  BY <1>8, <1>9, <1>10 DEF VTableFits

\* The message when it is finished: what its calls have written, in a buffer that is
\* aligned to a, with the distance to the envelope before it.
Composed(b, a, made, calls) ==
  /\ b \in Seq(Byte) /\ Len(b) < MaxSize
  /\ a \in Alignments /\ 4 <= a /\ Len(b) % a = 0
  /\ made \in Seq(Nat) /\ Len(made) = Len(calls)
  /\ \A j \in 1 .. Len(calls) - 1 :
       /\ made[j] # 0 /\ made[j] < Len(b)
       /\ CallIs(b, a, made, calls[j], made[j])
       /\ calls[j].call = "Create" => VTableFits(b, Len(b) - made[j])
  /\ made[Len(calls) - 1] + 4 <= Len(b)
  /\ Stands(b, Len(b), LittleEndian(Len(b) - made[Len(calls) - 1], 4))

LEMMA ComposedAtLast ==
  ASSUME NEW f, NEW made, NEW calls, RightCalls(calls), Composing(f, made, calls),
         Len(made) + 1 = Len(calls)
  PROVE  LET h == Perform(f, made, calls[Len(made) + 1])
         IN  /\ Sound(h) /\ h.finished = TRUE
             /\ \E a \in Alignments : Composed(h.bytes, a, Append(made, h.result), calls)
<1> DEFINE n == Len(made)
           c == calls[n + 1]
           root == made[n]
           h == Perform(f, made, c)
           r == h.result
           a == f.minalign
           later == Append(made, r)
<1>1. /\ Sound(f) /\ Outside(f) /\ Size(f) \in Nat /\ f.minalign \in Nat
      /\ made \in Seq(Nat) /\ Len(made) \in Nat
      /\ Len(calls) \in Nat /\ 3 <= Len(calls)
      /\ Size(f) + 3 * Cost < MaxSize /\ Cost \in Nat /\ 128 <= Cost /\ MaxSize \in Nat
      /\ \A j \in 1 .. Len(made) : made[j] # 0 /\ made[j] <= Size(f)
  BY ComposingFacts
<1>2. f.finished = FALSE /\ n > 0 /\ 4 <= f.minalign /\ n \in Nat /\ Len(calls) = n + 1
  <2>1. n > 0 /\ n \in Nat /\ Len(calls) = n + 1
    BY <1>1
  <2> QED
    BY <2>1 DEF Composing
<1>3. c = [call |-> "Finish", root |-> n, identifier |-> <<>>, prefixed |-> FALSE]
  <2>1. c = [call |-> "Finish", root |-> Len(calls) - 1, identifier |-> <<>>, prefixed |-> FALSE]
    BY DEF RightCalls
  <2>2. Len(calls) - 1 = n
    BY <1>2
  <2> QED
    BY <2>1, <2>2
<1>4. h = FinishBuffer(f, root, <<>>, FALSE)
  <2>1. /\ c.call = "Finish" /\ c.root = n /\ c.identifier = <<>> /\ c.prefixed = FALSE
    BY <1>3
  <2> HIDE DEF c
  <2> QED
    BY <2>1 DEF Perform
<1> HIDE DEF h
<1>5. root \in Nat /\ root # 0 /\ root <= Size(f)
  BY <1>1, <1>2
<1>6. Size(f) + 40 < MaxSize
  BY <1>1
<1> HIDE DEF root
<1>7. Finished(f, h, root)
  BY <1>1, <1>2, <1>4, <1>5, <1>6, FinishBufferIs
<1>8. /\ Sound(h) /\ h.finished = TRUE /\ EndsWith(h.bytes, f.bytes) /\ Size(h) % a = 0
      /\ root + 4 <= Size(h) /\ Size(h) < Size(f) + 20 /\ Size(f) + 4 <= Size(h)
      /\ Stands(h.bytes, Size(h), LittleEndian(Size(h) - root, 4))
  BY <1>7 DEF Finished
<1>9. /\ h.bytes \in Seq(Byte) /\ Size(h) = Len(h.bytes) /\ Size(h) \in Nat /\ r \in Nat
      /\ Size(f) = Len(f.bytes) /\ f.bytes \in Seq(Byte) /\ a \in Alignments
  BY <1>1, <1>8, SizeNat
<1> DEFINE b == h.bytes
<1>10. Len(b) < MaxSize
  <2>1. Size(h) \in Nat /\ Size(f) \in Nat /\ MaxSize \in Nat /\ Size(h) < Size(f) + 20
    BY <1>1, <1>8, <1>9
  <2>2. Size(h) < MaxSize
    BY <1>6, <2>1
  <2> QED
    BY <1>9, <2>2
<1>11. Size(f) + 4 <= Len(b) /\ Size(f) < Len(b) /\ root + 4 <= Len(b)
  BY <1>8, <1>9
<1>12. /\ later \in Seq(Nat) /\ Len(later) = n + 1
       /\ \A j \in 1 .. n : later[j] = made[j]
  BY <1>1, <1>9
<1> HIDE DEF b, later, n, r, a
<1>13. ASSUME NEW j \in 1 .. n
       PROVE  /\ later[j] # 0 /\ later[j] < Len(b) /\ CallIs(b, a, later, calls[j], later[j])
              /\ calls[j].call = "Create" => VTableFits(b, Len(b) - later[j])
  <2>1. j \in Nat /\ j \in 1 .. Len(made) /\ j \in 1 .. Len(calls) - 1 /\ j - 1 <= Len(made)
    BY <1>2 DEF n
  <2>2. CallIs(f.bytes, a, made, calls[j], made[j]) /\ RightCall(calls, j)
    BY <2>1 DEF Composing, RightCalls, a
  <2>3. CallIs(b, a, later, calls[j], made[j])
    <3> DEFINE e == [h EXCEPT !.minalign = a]
    <3>1. h \in Builders
      BY <1>8 DEF Sound
    <3>2. e.bytes = h.bytes /\ e.minalign = a
      BY <3>1 DEF Builders
    <3> HIDE DEF e
    <3>3. EndsWith(e.bytes, f.bytes) /\ e.minalign \in Nat /\ f.minalign <= e.minalign
      BY <1>1, <1>8, <3>2 DEF a
    <3>4. CallIs(f.bytes, f.minalign, made, calls[j], made[j])
      BY <2>2 DEF a
    <3>5. CallIs(e.bytes, e.minalign, later, calls[j], made[j])
      BY <1>1, <1>9, <2>1, <2>2, <3>3, <3>4, CallStays DEF later
    <3> QED
      BY <3>2, <3>5 DEF b
  <2>4. made[j] \in Nat /\ made[j] # 0 /\ made[j] <= Size(f)
    BY <1>1, <2>1
  <2>5. made[j] < Len(b)
    BY <1>1, <1>9, <1>11, <2>4 DEF b
  <2>6. ASSUME calls[j].call = "Create" PROVE VTableFits(b, Len(b) - made[j])
    <3>1. TableIs(f.bytes, a, made[j], Schema[calls[j].table], Arguments(calls[j], made))
      BY <2>2, <2>6 DEF CallIs
    <3>2. EndsWith(b, f.bytes) /\ Len(f.bytes) < Len(b)
      BY <1>8, <1>9, <1>11 DEF b
    <3> QED
      BY <1>10, <3>1, <3>2, VTableFitsLater
  <2> QED
    BY <1>12, <2>3, <2>4, <2>5, <2>6
<1>14. later[n] = root /\ Len(calls) - 1 = n /\ Len(later) = Len(calls)
  <2>1. n \in 1 .. n /\ Len(calls) - 1 = n
    BY <1>2
  <2> QED
    BY <1>2, <1>12, <2>1 DEF root
<1>15. Stands(b, Len(b), LittleEndian(Len(b) - root, 4)) /\ Len(b) % a = 0
       /\ b \in Seq(Byte) /\ a \in Alignments /\ 4 <= a
  BY <1>2, <1>8, <1>9 DEF b, a
<1>16. Composed(b, a, later, calls)
  BY <1>10, <1>11, <1>12, <1>13, <1>14, <1>15 DEF Composed
<1> QED
  BY <1>8, <1>15, <1>16 DEF b, later, r, h, c, n

------------------------------------------------------------------------------
(* What the messages say.                                                   *)

\* The argument of a field that is a scalar or a string is this.
SaysField(calls, c, i, value) ==
  LET field == Fields(c.table)[i]
  IN  /\ i \in DOMAIN Fields(c.table)
      /\ IF IsScalar(field)
           THEN field.type \in ScalarTypes /\ value = LittleEndian(c.args[i], Width[field.type])
           ELSE field.type = "string" /\ value = calls[c.args[i]].string

SaysFields(calls, c, fields, says) ==
  /\ Len(says) = Len(fields)
  /\ \A j \in 1 .. Len(fields) : SaysField(calls, c, fields[j], says[j])

\* The first field leads to players, which the calls of p have made; their fields come
\* first.
SaysList(calls, c, fields, says, p) ==
  LET first == Fields(c.table)[fields[1]]
      arg == c.args[fields[1]]
  IN  /\ Len(fields) > 0 /\ fields[1] \in DOMAIN Fields(c.table)
      /\ p \in Seq(Nat)
      /\ \/ first.type = "Player" /\ Len(p) = 1 /\ p[1] = arg
         \/ first.type = "[Player]" /\ calls[arg].elements = p
      /\ Len(says) = 3 * Len(p) + (Len(fields) - 1)
      /\ \A k \in 1 .. Len(p), i \in 1 .. 3 :
           SaysField(calls, calls[p[k]], i, says[3 * (k - 1) + i])
      /\ \A j \in 2 .. Len(fields) : SaysField(calls, c, fields[j], says[3 * Len(p) + (j - 1)])

\* What the handler will read from the body.
SaysBody(calls, c, says) ==
  \/ SaysFields(calls, c, Handler[c.table], says)
  \/ \E p \in Seq(Nat) : SaysList(calls, c, Handler[c.table], says, p)

\* The envelope's body is what the call before has made.
RightMessage(m) ==
  LET n == Len(m.calls) - 2
      c == m.calls[n]
      envelope == m.calls[n + 1]
  IN  /\ RightCalls(m.calls)
      /\ c.call = "Create" /\ c.table \in Handled(m.to)
      /\ envelope.call = "Create" /\ envelope.table = "MessageEnvelope"
      /\ envelope.args[2] \in DOMAIN Payload /\ Payload[envelope.args[2]] = c.table
      /\ envelope.args[3] = n
      /\ m.says \in Seq(Seq(Nat)) /\ SaysBody(m.calls, c, m.says)

------------------------------------------------------------------------------
LEMMA PayloadNumbers ==
  /\ DOMAIN Payload = 1 .. 15
  /\ \A s \in {"server", "client"} : Handled(s) \subseteq Range(Payload)
<1>1. DOMAIN Payload = 1 .. 15
  BY DEF Payload
<1> QED
  BY <1>1 DEF Payload, Handled, ToServer, Handler, Range

LEMMA EnvelopeFields ==
  /\ "MessageEnvelope" \in DOMAIN Schema
  /\ DOMAIN Fields("MessageEnvelope") = 1 .. 3
  /\ IsScalar(Fields("MessageEnvelope")[1]) /\ Fields("MessageEnvelope")[1].type = "ulong"
  /\ IsScalar(Fields("MessageEnvelope")[2]) /\ Fields("MessageEnvelope")[2].type = "ubyte"
  /\ ~IsScalar(Fields("MessageEnvelope")[3]) /\ Fields("MessageEnvelope")[3].type = "Payload"
<1>1. /\ DOMAIN Fields("MessageEnvelope") = 1 .. 3
      /\ Fields("MessageEnvelope")[1] = Field("ulong", "timestamp")
      /\ Fields("MessageEnvelope")[2] = Field("ubyte", "body_type")
      /\ Fields("MessageEnvelope")[3] = Field("Payload", "body")
  BY DEF Fields, Schema, MessageEnvelope
<1>2. /\ Field("ulong", "timestamp").type = "ulong" /\ Field("ubyte", "body_type").type = "ubyte"
      /\ Field("Payload", "body").type = "Payload"
  BY DEF Field
<1> QED
  BY <1>1, <1>2, RightFields DEF ScalarTypes, Schema

EnvelopeIs(calls, n, kind) ==
  \E t \in DOMAIN Payload :
    Payload[t] = kind /\ calls[n + 1] = Create("MessageEnvelope", <<Now, t, n>>)

Begins(calls, body) == \A j \in 1 .. Len(body) : calls[j] = body[j]

\* The calls of a message: its body's, and those that seal it.
LEMMA MessageCalls ==
  ASSUME NEW S, NEW body \in Seq(S), NEW to, NEW kind \in Range(Payload), NEW says
  PROVE  LET m == Message(to, kind, body, says)
             n == Len(body)
         IN  /\ m.to = to /\ m.says = says /\ Len(m.calls) = n + 2
             /\ Begins(m.calls, body)
             /\ m.calls[n + 2] = [call |-> "Finish", root |-> n + 1, identifier |-> <<>>,
                                  prefixed |-> FALSE]
             /\ EnvelopeIs(m.calls, n, kind)
<1> DEFINE n == Len(body)
           t == CHOOSE i \in DOMAIN Payload : Payload[i] = kind
           envelope == Create("MessageEnvelope", <<Now, t, n>>)
           finish == [call |-> "Finish", root |-> n + 1, identifier |-> <<>>, prefixed |-> FALSE]
           m == Message(to, kind, body, says)
<1>1. t \in DOMAIN Payload /\ Payload[t] = kind
  <2>1. \E i \in DOMAIN Payload : Payload[i] = kind
    BY DEF Range
  <2> QED
    BY <2>1
<1>2. Sealed(kind, n) = <<envelope, finish>>
  BY DEF Sealed
<1>3. m.to = to /\ m.says = says /\ m.calls = body \o Sealed(kind, n)
  BY DEF Message
<1> HIDE DEF envelope, finish, t, m
<1>4. DEFINE U == S \cup {envelope, finish}
<1>5. body \in Seq(U) /\ <<envelope, finish>> \in Seq(U) /\ n \in Nat
  <2>1. S \subseteq U
    OBVIOUS
  <2>2. ASSUME NEW R, NEW s \in Seq(S), S \subseteq R PROVE s \in Seq(R)
    BY <2>2
  <2>3. body \in Seq(U)
    BY <2>1, <2>2
  <2> QED
    BY <2>3
<1> HIDE DEF U
<1>6. /\ Len(body \o <<envelope, finish>>) = n + 2
      /\ \A j \in 1 .. n : (body \o <<envelope, finish>>)[j] = body[j]
      /\ (body \o <<envelope, finish>>)[n + 1] = envelope
      /\ (body \o <<envelope, finish>>)[n + 2] = finish
  BY <1>5
<1> QED
  BY <1>1, <1>2, <1>3, <1>6 DEF m, envelope, finish, EnvelopeIs, Begins

LEMMA MessageRight ==
  ASSUME NEW S, NEW body \in Seq(S), NEW to \in {"server", "client"}, NEW kind \in Handled(to),
         NEW says \in Seq(Seq(Nat)), NEW calls, calls = Message(to, kind, body, says).calls,
         Len(body) >= 1, Len(body) <= 3 * MaxPlayers + 4,
         \A k \in 1 .. Len(body) : RightCall(calls, k),
         calls[Len(body)].call = "Create", calls[Len(body)].table = kind,
         SaysBody(calls, calls[Len(body)], says)
  PROVE  RightMessage(Message(to, kind, body, says))
<1> DEFINE n == Len(body)
           m == Message(to, kind, body, says)
<1>1. kind \in Range(Payload)
  BY PayloadNumbers
<1>2. /\ m.to = to /\ m.says = says /\ Len(calls) = n + 2 /\ m.calls = calls
      /\ calls[n + 2] = [call |-> "Finish", root |-> n + 1, identifier |-> <<>>,
                         prefixed |-> FALSE]
  BY <1>1, MessageCalls
<1>3. PICK t \in DOMAIN Payload :
        Payload[t] = kind /\ calls[n + 1] = Create("MessageEnvelope", <<Now, t, n>>)
  <2>1. EnvelopeIs(m.calls, n, kind)
    BY <1>1, MessageCalls
  <2> QED
    BY <1>2, <2>1 DEF EnvelopeIs
<1>4. n \in Nat /\ 1 <= n /\ n <= 3 * MaxPlayers + 4 /\ MaxPlayers \in Nat
  BY SizeAssumption
<1> HIDE DEF n, m
<1>5. /\ calls[n + 1].call = "Create" /\ calls[n + 1].table = "MessageEnvelope"
      /\ calls[n + 1].args[1] = Now /\ calls[n + 1].args[2] = t /\ calls[n + 1].args[3] = n
      /\ DOMAIN calls[n + 1].args = 1 .. 3
  BY <1>3 DEF Create
<1>6. RightCall(calls, n + 1)
  <2>1. RightArgument(calls, n + 1, Fields("MessageEnvelope")[1], Now)
    BY EnvelopeFields, NumberAssumption DEF RightArgument
  <2>2. RightArgument(calls, n + 1, Fields("MessageEnvelope")[2], t)
    <3>1. t \in Nat
      BY PayloadNumbers
    <3> QED
      BY <3>1, EnvelopeFields DEF RightArgument
  <2>3. RightArgument(calls, n + 1, Fields("MessageEnvelope")[3], n)
    <3>1. n \in 1 .. (n + 1) - 1
      BY <1>4
    <3>2. CalledFor("Payload", calls[n])
      BY DEF CalledFor, n
    <3> QED
      BY <3>1, <3>2, EnvelopeFields DEF RightArgument
  <2>4. ASSUME NEW i \in 1 .. 3
        PROVE  RightArgument(calls, n + 1, Fields("MessageEnvelope")[i], calls[n + 1].args[i])
    <3>1. i = 1 \/ i = 2 \/ i = 3
      OBVIOUS
    <3> QED
      BY <1>5, <2>1, <2>2, <2>3, <3>1
  <2>5. RightCreate(calls, n + 1)
    BY <1>5, <2>4, EnvelopeFields DEF RightCreate
  <2> QED
    BY <2>5 DEF RightCall
<1>7. RightCalls(calls)
  <2>1. Len(calls) \in 3 .. 3 * MaxPlayers + 6 /\ Len(calls) - 1 = n + 1
    <3> DEFINE p == 3 * MaxPlayers
    <3>1. p \in Nat /\ n <= p + 4
      BY <1>4
    <3> HIDE DEF p
    <3>2. Len(calls) \in 3 .. p + 6 /\ Len(calls) - 1 = n + 1
      BY <1>2, <1>4, <3>1
    <3> QED
      BY <3>2 DEF p
  <2>2. ASSUME NEW k \in 1 .. n + 1 PROVE RightCall(calls, k)
    <3>1. k \in 1 .. n \/ k = n + 1
      BY <1>4
    <3> QED
      BY <1>6, <3>1 DEF n
  <2>3. calls[Len(calls)] = [call |-> "Finish", root |-> Len(calls) - 1, identifier |-> <<>>,
                             prefixed |-> FALSE]
    BY <1>2, <2>1
  <2> QED
    BY <2>1, <2>2, <2>3 DEF RightCalls
<1>8. Len(m.calls) - 2 = n
  BY <1>2, <1>4
<1> QED
  BY <1>2, <1>3, <1>5, <1>7, <1>8 DEF RightMessage, n, m

LEMMA SmallStringNat ==
  ASSUME NEW s, SmallString(s)
  PROVE  s \in Seq(Nat)
<1>1. s \in Seq(1 .. 255) /\ 1 .. 255 \subseteq Nat
  BY DEF SmallString
<1>2. ASSUME NEW R, NEW S, R \subseteq S, s \in Seq(R) PROVE s \in Seq(S)
  BY <1>2
<1> QED
  BY <1>1, <1>2

LEMMA NumberNat ==
  ASSUME NEW n \in Nat, NEW type \in ScalarTypes
  PROVE  Number(n, type) \in Seq(Nat) /\ Number(n, type) = LittleEndian(n, Width[type])
<1>1. Width[type] \in Nat
  BY Widths
<1>2. n \in Int
  OBVIOUS
<1>3. LittleEndian(n, Width[type]) \in Seq(Byte)
  BY <1>1, <1>2, LittleEndianType
<1>4. Byte \subseteq Nat
  BY DEF Byte
<1>5. ASSUME NEW R, NEW S, R \subseteq S, NEW s \in Seq(R) PROVE s \in Seq(S)
  BY <1>5
<1> QED
  BY <1>3, <1>4, <1>5 DEF Number

LEMMA StringCall ==
  ASSUME NEW calls, NEW k, NEW s, SmallString(s), calls[k] = String(s)
  PROVE  RightCall(calls, k) /\ calls[k].call = "CreateString" /\ calls[k].string = s
<1>1. calls[k].call = "CreateString" /\ calls[k].string = s
  BY DEF String
<1> QED
  BY <1>1 DEF RightCall, RightString

TableCall(calls, k, table, args) ==
  /\ table \in DOMAIN Schema /\ calls[k] = Create(table, args)
  /\ DOMAIN args = DOMAIN Fields(table)
  /\ \A i \in DOMAIN Fields(table) : RightArgument(calls, k, Fields(table)[i], args[i])

LEMMA CreateCall ==
  ASSUME NEW calls, NEW k, NEW table, NEW args, TableCall(calls, k, table, args)
  PROVE  RightCall(calls, k) /\ calls[k].call = "Create" /\ calls[k].table = table
         /\ calls[k].args = args
<1>1. calls[k].call = "Create" /\ calls[k].table = table /\ calls[k].args = args
  BY DEF TableCall, Create
<1> QED
  BY <1>1 DEF RightCall, RightCreate, TableCall

\* The fields that messages have.
IsString(field) == ~IsScalar(field) /\ field.type = "string"
IsNumber(field) == IsScalar(field) /\ field.type \in ScalarTypes

LEMMA FieldForms ==
  ASSUME NEW name
  PROVE  /\ IsString(Field("string", name)) /\ IsString(Required("string", name))
         /\ \A type \in ScalarTypes : IsNumber(Field(type, name)) /\ Field(type, name).type = type
BY RightFields DEF IsString, IsNumber, Field, Required

LEMMA StringArgument ==
  ASSUME NEW calls, NEW k, NEW field, IsString(field), NEW n \in 1 .. k - 1, NEW s,
         calls[n] = String(s)
  PROVE  RightArgument(calls, k, field, n)
<1>1. calls[n].call = "CreateString"
  BY DEF String
<1> QED
  BY <1>1 DEF RightArgument, IsString, CalledFor

LEMMA NumberArgument ==
  ASSUME NEW calls, NEW k, NEW field, IsNumber(field), NEW n \in Nat
  PROVE  RightArgument(calls, k, field, n)
BY DEF RightArgument, IsNumber

LEMMA SaysString ==
  ASSUME NEW calls, NEW c, NEW i \in DOMAIN Fields(c.table), IsString(Fields(c.table)[i]), NEW s,
         calls[c.args[i]] = String(s)
  PROVE  SaysField(calls, c, i, s)
<1>1. calls[c.args[i]].string = s
  BY DEF String
<1> QED
  BY <1>1 DEF SaysField, IsString

LEMMA SaysNumber ==
  ASSUME NEW calls, NEW c, NEW i \in DOMAIN Fields(c.table), IsNumber(Fields(c.table)[i]),
         NEW type, Fields(c.table)[i].type = type, NEW n, c.args[i] = n
  PROVE  SaysField(calls, c, i, Number(n, type))
BY DEF SaysField, IsNumber, Number

------------------------------------------------------------------------------
(* Messages of a few strings and one table.                                 *)

PlainArgument(field, arg, n) ==
  \/ IsString(field) /\ arg \in 1 .. n
  \/ IsNumber(field) /\ arg \in Nat
PlainField(field, strings, arg, value) ==
  \/ IsString(field) /\ value = strings[arg]
  \/ IsNumber(field) /\ value = Number(arg, field.type)
PlainArguments(table, args, n) ==
  /\ DOMAIN args = DOMAIN Fields(table)
  /\ \A i \in DOMAIN Fields(table) : PlainArgument(Fields(table)[i], args[i], n)
PlainSays(table, strings, args, says) ==
  /\ Len(says) = Len(Handler[table])
  /\ \A j \in 1 .. Len(Handler[table]) :
       LET i == Handler[table][j]
       IN  i \in DOMAIN Fields(table) /\ PlainField(Fields(table)[i], strings, args[i], says[j])
PlainBody(body, table, strings, args, n) ==
  /\ Len(body) = n + 1 /\ body[n + 1] = Create(table, args)
  /\ \A j \in 1 .. n : SmallString(strings[j]) /\ body[j] = String(strings[j])

LEMMA PlainMessage ==
  ASSUME NEW to \in {"server", "client"}, NEW table \in Handled(to),
         NEW strings, NEW args, NEW says \in Seq(Seq(Nat)), NEW S, NEW body \in Seq(S),
         NEW n \in 0 .. 3, PlainBody(body, table, strings, args, n),
         PlainArguments(table, args, n), PlainSays(table, strings, args, says)
  PROVE  RightMessage(Message(to, table, body, says))
<1> DEFINE calls == Message(to, table, body, says).calls
           k == n + 1
           c == calls[k]
<1>1. /\ k \in Nat /\ k >= 1 /\ k <= 3 * MaxPlayers + 4 /\ Len(body) = k /\ k - 1 = n
  <2>1. Len(body) = k
    BY DEF PlainBody
  <2>2. 3 * MaxPlayers \in Nat
    BY SizeAssumption
  <2> QED
    BY <2>1, <2>2
<1>2. table \in DOMAIN Schema /\ table \in Range(Payload)
  <2>1. table \in DOMAIN Schema
    BY DEF Schema, Handled, ToServer, Handler
  <2> QED
    BY <2>1, PayloadNumbers
<1>3. Begins(calls, body)
  BY <1>2, MessageCalls
<1> HIDE DEF calls
<1>4. \A j \in 1 .. n : SmallString(strings[j]) /\ calls[j] = String(strings[j])
  <2>1. \A j \in 1 .. n : j \in 1 .. Len(body)
    BY <1>1
  <2> QED
    BY <1>3, <2>1 DEF PlainBody, Begins
<1>5. c = Create(table, args)
  <2>1. k \in 1 .. Len(body)
    BY <1>1
  <2> QED
    BY <1>3, <2>1 DEF PlainBody, Begins
<1> HIDE DEF k
<1>6. ASSUME NEW i \in DOMAIN Fields(table)
      PROVE  RightArgument(calls, k, Fields(table)[i], args[i])
  <2>1. PlainArgument(Fields(table)[i], args[i], n)
    BY DEF PlainArguments
  <2>2. CASE IsString(Fields(table)[i]) /\ args[i] \in 1 .. n
    <3>1. args[i] \in 1 .. k - 1
      BY <1>1, <2>2
    <3> QED
      BY <1>4, <2>2, <3>1, StringArgument
  <2>3. CASE IsNumber(Fields(table)[i]) /\ args[i] \in Nat
    BY <2>3, NumberArgument
  <2> QED
    BY <2>1, <2>2, <2>3 DEF PlainArgument
<1>7. RightCall(calls, k) /\ c.call = "Create" /\ c.table = table /\ c.args = args
  <2>1. DOMAIN args = DOMAIN Fields(table)
    BY DEF PlainArguments
  <2>2. TableCall(calls, k, table, args)
    BY <1>2, <1>5, <1>6, <2>1 DEF TableCall
  <2> QED
    BY <2>2, CreateCall
<1>8. ASSUME NEW j \in 1 .. Len(Handler[table])
      PROVE  SaysField(calls, c, Handler[table][j], says[j])
  <2> DEFINE i == Handler[table][j]
  <2>1. /\ i \in DOMAIN Fields(table)
        /\ PlainField(Fields(table)[i], strings, args[i], says[j])
        /\ PlainArgument(Fields(table)[i], args[i], n)
    BY DEF PlainSays, PlainArguments
  <2> HIDE DEF i, c
  <2>2. CASE IsString(Fields(table)[i])
    <3>1. args[i] \in 1 .. n /\ says[j] = strings[args[i]]
      BY <2>1, <2>2 DEF PlainField, PlainArgument, IsString, IsNumber
    <3>2. calls[c.args[i]] = String(says[j])
      BY <1>4, <1>7, <3>1
    <3> QED
      BY <1>7, <2>1, <2>2, <3>2, SaysString DEF i
  <2>3. CASE ~IsString(Fields(table)[i])
    <3>1. IsNumber(Fields(table)[i]) /\ says[j] = Number(args[i], Fields(table)[i].type)
      BY <2>1, <2>3 DEF PlainField
    <3> QED
      BY <1>7, <2>1, <3>1, SaysNumber DEF i
  <2> QED
    BY <2>2, <2>3
<1>9. SaysBody(calls, c, says)
  <2>1. SaysFields(calls, c, Handler[table], says)
    BY <1>8 DEF SaysFields, PlainSays
  <2> QED
    BY <1>7, <2>1 DEF SaysBody
<1>10. ASSUME NEW j \in 1 .. Len(body) PROVE RightCall(calls, j)
  <2>1. j \in 1 .. n \/ j = k
    BY <1>1
  <2> QED
    BY <1>4, <1>7, <2>1, StringCall
<1> QED
  BY <1>1, <1>7, <1>9, <1>10, MessageRight DEF calls, c

LEMMA LoginRequestRight ==
  ASSUME NEW userid, NEW password,
         SmallString(userid), SmallString(password)
  PROVE  RightMessage(SendLoginRequest(userid, password))
<1> DEFINE table == "C2S_LoginRequest"
           strings == <<userid, password>>
           args == <<1, 2>>
           body == <<String(userid), String(password), Create(table, args)>>
           says == <<userid, password>>
           S == {String(userid), String(password), Create(table, args)}
<1>1. /\ table \in Handled("server") /\ Handler[table] = <<1, 2>>
      /\ Fields(table) = <<Required("string", "userid"), Required("string", "password")>>
  BY DEF Handled, ToServer, Handler, Fields, Schema, C2S_LoginRequest
<1>2. body \in Seq(S)
  OBVIOUS
<1>3. says \in Seq(Seq(Nat))
  BY SmallStringNat, NumberNat DEF ScalarTypes
<1>4. /\ DOMAIN Fields(table) = 1 .. 2
      /\ IsString(Fields(table)[1])
      /\ IsString(Fields(table)[2])
  BY <1>1, FieldForms DEF ScalarTypes
<1>5. PlainBody(body, table, strings, args, 2)
  BY DEF PlainBody
<1>6. PlainArguments(table, args, 2)
  BY <1>4 DEF PlainArguments, PlainArgument
<1>7. PlainSays(table, strings, args, says)
  BY <1>1, <1>4 DEF PlainSays, PlainField
<1> HIDE DEF table, strings, args, body, says, S
<1>8. RightMessage(Message("server", table, body, says))
  BY <1>1, <1>2, <1>3, <1>5, <1>6, <1>7, PlainMessage
<1> QED
  BY <1>8 DEF SendLoginRequest, table, strings, args, body, says

LEMMA SignUpRequestRight ==
  ASSUME NEW userid, NEW password, NEW nickname,
         SmallString(userid), SmallString(password), SmallString(nickname)
  PROVE  RightMessage(SendSignUpRequest(userid, password, nickname))
<1> DEFINE table == "C2S_SignUpRequest"
           strings == <<userid, password, nickname>>
           args == <<1, 2, 3>>
           body == <<String(userid), String(password), String(nickname), Create(table, args)>>
           says == <<userid, password, nickname>>
           S == {String(userid), String(password), String(nickname), Create(table, args)}
<1>1. /\ table \in Handled("server") /\ Handler[table] = <<1, 2, 3>>
      /\ Fields(table) = <<Required("string", "userid"), Required("string", "password"), Required("string", "nickname")>>
  BY DEF Handled, ToServer, Handler, Fields, Schema, C2S_SignUpRequest
<1>2. body \in Seq(S)
  OBVIOUS
<1>3. says \in Seq(Seq(Nat))
  BY SmallStringNat, NumberNat DEF ScalarTypes
<1>4. /\ DOMAIN Fields(table) = 1 .. 3
      /\ IsString(Fields(table)[1])
      /\ IsString(Fields(table)[2])
      /\ IsString(Fields(table)[3])
  BY <1>1, FieldForms DEF ScalarTypes
<1>5. PlainBody(body, table, strings, args, 3)
  BY DEF PlainBody
<1>6. PlainArguments(table, args, 3)
  BY <1>4 DEF PlainArguments, PlainArgument
<1>7. PlainSays(table, strings, args, says)
  BY <1>1, <1>4 DEF PlainSays, PlainField
<1> HIDE DEF table, strings, args, body, says, S
<1>8. RightMessage(Message("server", table, body, says))
  BY <1>1, <1>2, <1>3, <1>5, <1>6, <1>7, PlainMessage
<1> QED
  BY <1>8 DEF SendSignUpRequest, table, strings, args, body, says

LEMMA PlayerListRequestRight ==
  RightMessage(SendPlayerListRequest)
<1> DEFINE table == "C2S_PlayerListRequest"
           strings == <<>>
           args == <<>>
           body == <<Create(table, args)>>
           says == <<>>
           S == {Create(table, args)}
<1>1. /\ table \in Handled("server") /\ Handler[table] = <<>>
      /\ Fields(table) = <<>>
  BY DEF Handled, ToServer, Handler, Fields, Schema, C2S_PlayerListRequest
<1>2. body \in Seq(S)
  OBVIOUS
<1>3. says \in Seq(Seq(Nat))
  OBVIOUS
<1>4. /\ DOMAIN Fields(table) = 1 .. 0
  BY <1>1, FieldForms DEF ScalarTypes
<1>5. PlainBody(body, table, strings, args, 0)
  BY DEF PlainBody
<1>6. PlainArguments(table, args, 0)
  BY <1>4 DEF PlainArguments, PlainArgument
<1>7. PlainSays(table, strings, args, says)
  BY <1>1, <1>4 DEF PlainSays, PlainField
<1> HIDE DEF table, strings, args, body, says, S
<1>8. RightMessage(Message("server", table, body, says))
  BY <1>1, <1>2, <1>3, <1>5, <1>6, <1>7, PlainMessage
<1> QED
  BY <1>8 DEF SendPlayerListRequest, table, strings, args, body, says

LEMMA ReadyRequestRight ==
  ASSUME NEW token, NEW ready,
         SmallString(token), ready \in Nat
  PROVE  RightMessage(SendPlayerReadyRequest(token, ready))
<1> DEFINE table == "C2S_GameReadyRequest"
           strings == <<token>>
           args == <<1, ready>>
           body == <<String(token), Create(table, args)>>
           says == <<token, Number(ready, "ubyte")>>
           S == {String(token), Create(table, args)}
<1>1. /\ table \in Handled("server") /\ Handler[table] = <<1, 2>>
      /\ Fields(table) = <<Field("string", "session_token"), Field("ubyte", "is_ready")>>
  BY DEF Handled, ToServer, Handler, Fields, Schema, C2S_GameReadyRequest
<1>2. body \in Seq(S)
  OBVIOUS
<1>3. says \in Seq(Seq(Nat))
  BY SmallStringNat, NumberNat DEF ScalarTypes
<1>4. /\ DOMAIN Fields(table) = 1 .. 2
      /\ IsString(Fields(table)[1])
      /\ IsNumber(Fields(table)[2]) /\ Fields(table)[2].type = "ubyte"
  BY <1>1, FieldForms DEF ScalarTypes
<1>5. PlainBody(body, table, strings, args, 1)
  BY DEF PlainBody
<1>6. PlainArguments(table, args, 1)
  BY <1>4 DEF PlainArguments, PlainArgument
<1>7. PlainSays(table, strings, args, says)
  BY <1>1, <1>4 DEF PlainSays, PlainField
<1> HIDE DEF table, strings, args, body, says, S
<1>8. RightMessage(Message("server", table, body, says))
  BY <1>1, <1>2, <1>3, <1>5, <1>6, <1>7, PlainMessage
<1> QED
  BY <1>8 DEF SendPlayerReadyRequest, table, strings, args, body, says

LEMMA SignUpResponseRight ==
  ASSUME NEW status,
         EnumValue(SignUpStatus, status) \in Nat
  PROVE  RightMessage(ProcessSignUpRequest(status))
<1> DEFINE table == "S2C_SignUpResponse"
           code == EnumValue(SignUpStatus, status)
           strings == <<>>
           args == <<code>>
           body == <<Create(table, args)>>
           says == <<Number(code, "ubyte")>>
           S == {Create(table, args)}
<1>1. /\ table \in Handled("client") /\ Handler[table] = <<1>>
      /\ Fields(table) = <<Field("ubyte", "error_code")>>
  BY DEF Handled, ToServer, Handler, Fields, Schema, S2C_SignUpResponse
<1>2. body \in Seq(S)
  OBVIOUS
<1>3. says \in Seq(Seq(Nat))
  BY SmallStringNat, NumberNat DEF ScalarTypes
<1>4. /\ DOMAIN Fields(table) = 1 .. 1
      /\ IsNumber(Fields(table)[1]) /\ Fields(table)[1].type = "ubyte"
  BY <1>1, FieldForms DEF ScalarTypes
<1>5. PlainBody(body, table, strings, args, 0)
  BY DEF PlainBody
<1>6. PlainArguments(table, args, 0)
  BY <1>4 DEF PlainArguments, PlainArgument
<1>7. PlainSays(table, strings, args, says)
  BY <1>1, <1>4 DEF PlainSays, PlainField
<1> HIDE DEF table, strings, args, body, says, S, code
<1>8. RightMessage(Message("client", table, body, says))
  BY <1>1, <1>2, <1>3, <1>5, <1>6, <1>7, PlainMessage
<1> QED
  BY <1>8 DEF ProcessSignUpRequest, table, strings, args, body, says, code

LEMMA LoginResponseRight ==
  ASSUME NEW status, NEW nickname, NEW token,
         EnumValue(LoginStatus, status) \in Nat, SmallString(nickname), SmallString(token)
  PROVE  RightMessage(ProcessLoginRequest(status, nickname, token))
<1> DEFINE table == "S2C_LoginResponse"
           code == EnumValue(LoginStatus, status)
           strings == <<nickname, token>>
           args == <<code, 2, 1>>
           body == <<String(nickname), String(token), Create(table, args)>>
           says == <<Number(code, "ubyte"), nickname, token>>
           S == {String(nickname), String(token), Create(table, args)}
<1>1. /\ table \in Handled("client") /\ Handler[table] = <<1, 3, 2>>
      /\ Fields(table) = <<Field("ubyte", "error_code"), Field("string", "session_token"), Field("string", "nickname")>>
  BY DEF Handled, ToServer, Handler, Fields, Schema, S2C_LoginResponse
<1>2. body \in Seq(S)
  OBVIOUS
<1>3. says \in Seq(Seq(Nat))
  BY SmallStringNat, NumberNat DEF ScalarTypes
<1>4. /\ DOMAIN Fields(table) = 1 .. 3
      /\ IsNumber(Fields(table)[1]) /\ Fields(table)[1].type = "ubyte"
      /\ IsString(Fields(table)[2])
      /\ IsString(Fields(table)[3])
  BY <1>1, FieldForms DEF ScalarTypes
<1>5. PlainBody(body, table, strings, args, 2)
  BY DEF PlainBody
<1>6. PlainArguments(table, args, 2)
  BY <1>4 DEF PlainArguments, PlainArgument
<1>7. PlainSays(table, strings, args, says)
  BY <1>1, <1>4 DEF PlainSays, PlainField
<1> HIDE DEF table, strings, args, body, says, S, code
<1>8. RightMessage(Message("client", table, body, says))
  BY <1>1, <1>2, <1>3, <1>5, <1>6, <1>7, PlainMessage
<1> QED
  BY <1>8 DEF ProcessLoginRequest, table, strings, args, body, says, code

LEMMA ChangeStateRight ==
  ASSUME NEW player,
         SmallString(player.user_id), StateNumber(player) \in Nat
  PROVE  RightMessage(BroadcastPlayerChangeState(player))
<1> DEFINE table == "S2C_PlayerChangeState"
           code == StateNumber(player)
           strings == <<player.user_id>>
           args == <<1, code>>
           body == <<String(player.user_id), Create(table, args)>>
           says == <<player.user_id, Number(code, "ubyte")>>
           S == {String(player.user_id), Create(table, args)}
<1>1. /\ table \in Handled("client") /\ Handler[table] = <<1, 2>>
      /\ Fields(table) = <<Field("string", "user_id"), Field("ubyte", "state")>>
  BY DEF Handled, ToServer, Handler, Fields, Schema, S2C_PlayerChangeState
<1>2. body \in Seq(S)
  OBVIOUS
<1>3. says \in Seq(Seq(Nat))
  <2> DEFINE x == player.user_id
             y == Number(code, "ubyte")
  <2>1. x \in Seq(Nat)
    BY SmallStringNat
  <2>2. y \in Seq(Nat)
    BY NumberNat DEF ScalarTypes
  <2> HIDE DEF x, y
  <2>3. <<x, y>> \in Seq(Seq(Nat))
    BY <2>1, <2>2
  <2> QED
    BY <2>3 DEF x, y
<1>4. /\ DOMAIN Fields(table) = 1 .. 2
      /\ IsString(Fields(table)[1])
      /\ IsNumber(Fields(table)[2]) /\ Fields(table)[2].type = "ubyte"
  BY <1>1, FieldForms DEF ScalarTypes
<1>5. PlainBody(body, table, strings, args, 1)
  BY DEF PlainBody
<1>6. PlainArguments(table, args, 1)
  BY <1>4 DEF PlainArguments, PlainArgument
<1>7. PlainSays(table, strings, args, says)
  BY <1>1, <1>4 DEF PlainSays, PlainField
<1> HIDE DEF table, strings, args, body, says, S, code
<1>8. RightMessage(Message("client", table, body, says))
  BY <1>1, <1>2, <1>3, <1>5, <1>6, <1>7, PlainMessage
<1> QED
  BY <1>8 DEF BroadcastPlayerChangeState, table, strings, args, body, says, code

LEMMA CountdownRight ==
  ASSUME NEW start, NEW remaining,
         start \in Nat, remaining \in Nat
  PROVE  RightMessage(BroadcastCountdownStartGame(start, remaining))
<1> DEFINE table == "S2C_CountdownStartGame"
           strings == <<>>
           args == <<start, remaining>>
           body == <<Create(table, args)>>
           says == <<Number(start, "ubyte"), Number(remaining, "uint")>>
           S == {Create(table, args)}
<1>1. /\ table \in Handled("client") /\ Handler[table] = <<1, 2>>
      /\ Fields(table) = <<Field("ubyte", "is_start"), Field("uint", "countdown")>>
  BY DEF Handled, ToServer, Handler, Fields, Schema, S2C_CountdownStartGame
<1>2. body \in Seq(S)
  OBVIOUS
<1>3. says \in Seq(Seq(Nat))
  <2> DEFINE x == Number(start, "ubyte")
             y == Number(remaining, "uint")
  <2>1. x \in Seq(Nat) /\ y \in Seq(Nat)
    BY NumberNat DEF ScalarTypes
  <2> HIDE DEF x, y
  <2>2. <<x, y>> \in Seq(Seq(Nat))
    BY <2>1
  <2> QED
    BY <2>2 DEF x, y
<1>4. /\ DOMAIN Fields(table) = 1 .. 2
      /\ IsNumber(Fields(table)[1]) /\ Fields(table)[1].type = "ubyte"
      /\ IsNumber(Fields(table)[2]) /\ Fields(table)[2].type = "uint"
  BY <1>1, FieldForms DEF ScalarTypes
<1>5. PlainBody(body, table, strings, args, 0)
  BY DEF PlainBody
<1>6. PlainArguments(table, args, 0)
  BY <1>4 DEF PlainArguments, PlainArgument
<1>7. PlainSays(table, strings, args, says)
  BY <1>1, <1>4 DEF PlainSays, PlainField
<1> HIDE DEF table, strings, args, body, says, S
<1>8. RightMessage(Message("client", table, body, says))
  BY <1>1, <1>2, <1>3, <1>5, <1>6, <1>7, PlainMessage
<1> QED
  BY <1>8 DEF BroadcastCountdownStartGame, table, strings, args, body, says

LEMMA StartGameRight ==
  ASSUME NEW address, NEW port,
         SmallString(address), port \in Nat
  PROVE  RightMessage(BroadcastStartGame(address, port))
<1> DEFINE table == "S2C_StartGame"
           strings == <<address>>
           args == <<1, port>>
           body == <<String(address), Create(table, args)>>
           says == <<address, Number(port, "ushort")>>
           S == {String(address), Create(table, args)}
<1>1. /\ table \in Handled("client") /\ Handler[table] = <<1, 2>>
      /\ Fields(table) = <<Field("string", "dedi_ip_address"), Field("ushort", "dedi_port")>>
  BY DEF Handled, ToServer, Handler, Fields, Schema, S2C_StartGame
<1>2. body \in Seq(S)
  OBVIOUS
<1>3. says \in Seq(Seq(Nat))
  BY SmallStringNat, NumberNat DEF ScalarTypes
<1>4. /\ DOMAIN Fields(table) = 1 .. 2
      /\ IsString(Fields(table)[1])
      /\ IsNumber(Fields(table)[2]) /\ Fields(table)[2].type = "ushort"
  BY <1>1, FieldForms DEF ScalarTypes
<1>5. PlainBody(body, table, strings, args, 1)
  BY DEF PlainBody
<1>6. PlainArguments(table, args, 1)
  BY <1>4 DEF PlainArguments, PlainArgument
<1>7. PlainSays(table, strings, args, says)
  BY <1>1, <1>4 DEF PlainSays, PlainField
<1> HIDE DEF table, strings, args, body, says, S
<1>8. RightMessage(Message("client", table, body, says))
  BY <1>1, <1>2, <1>3, <1>5, <1>6, <1>7, PlainMessage
<1> QED
  BY <1>8 DEF BroadcastStartGame, table, strings, args, body, says

------------------------------------------------------------------------------
(* Messages that show players.                                              *)

RightPlayer(p) == SmallString(p.user_id) /\ SmallString(p.nickname) /\ StateNumber(p) \in Nat

\* The k-th call and the two before it make this player.
PlayerCalled(calls, k, p) ==
  /\ k \in Nat /\ 3 <= k
  /\ calls[k - 2] = String(p.user_id) /\ calls[k - 1] = String(p.nickname)
  /\ calls[k] = Create("Player", <<k - 2, k - 1, StateNumber(p)>>)

LEMMA PlayerLayout ==
  /\ "Player" \in DOMAIN Schema /\ DOMAIN Fields("Player") = 1 .. 3
  /\ IsString(Fields("Player")[1]) /\ IsString(Fields("Player")[2])
  /\ IsNumber(Fields("Player")[3]) /\ Fields("Player")[3].type = "ubyte"
<1>1. "Player" \in DOMAIN Schema
  BY DEF Schema
<1>2. Fields("Player") = <<Field("string", "user_id"), Field("string", "nickname"),
                           Field("ubyte", "state")>>
  BY DEF Fields, Schema, Player
<1> DEFINE f == Fields("Player")
<1>3. f[1] = Field("string", "user_id") /\ f[2] = Field("string", "nickname")
      /\ f[3] = Field("ubyte", "state") /\ DOMAIN f = 1 .. 3
  BY <1>2
<1> HIDE DEF f
<1>4. IsString(f[1]) /\ IsString(f[2])
  BY <1>3, FieldForms
<1>5. IsNumber(f[3]) /\ f[3].type = "ubyte"
  BY <1>3, FieldForms DEF ScalarTypes
<1>6. DOMAIN Fields("Player") = 1 .. 3
  BY <1>3 DEF f
<1>7. IsString(Fields("Player")[1])
  BY <1>4 DEF f
<1>8. IsString(Fields("Player")[2])
  BY <1>4 DEF f
<1>9. IsNumber(Fields("Player")[3])
  BY <1>5 DEF f
<1>10. Fields("Player")[3].type = "ubyte"
  BY <1>5 DEF f
<1> QED
  BY <1>1, <1>6, <1>7, <1>8, <1>9, <1>10

LEMMA PlayerCall ==
  ASSUME NEW calls, NEW k, NEW p, RightPlayer(p), PlayerCalled(calls, k, p)
  PROVE  /\ RightCall(calls, k - 2) /\ RightCall(calls, k - 1) /\ RightCall(calls, k)
         /\ CalledFor("Player", calls[k])
         /\ \A i \in 1 .. 3 : SaysField(calls, calls[k], i, Says(p)[i])
<1> DEFINE x == k - 2
           y == k - 1
           user == p.user_id
           nick == p.nickname
           code == StateNumber(p)
           args == <<x, y, code>>
           table == "Player"
           f == Fields(table)
<1> HIDE DEF f
<1>0. /\ table \in DOMAIN Schema /\ DOMAIN f = 1 .. 3
      /\ IsString(f[1]) /\ IsString(f[2]) /\ IsNumber(f[3]) /\ f[3].type = "ubyte"
  <2>1. table \in DOMAIN Schema
    BY PlayerLayout
  <2>2. DOMAIN f = 1 .. 3
    BY PlayerLayout DEF f
  <2>3. IsString(f[1])
    BY PlayerLayout DEF f
  <2>4. IsString(f[2])
    BY PlayerLayout DEF f
  <2>5. IsNumber(f[3])
    BY PlayerLayout DEF f
  <2>6. f[3].type = "ubyte"
    BY PlayerLayout DEF f
  <2> QED
    BY <2>1, <2>2, <2>3, <2>4, <2>5, <2>6
<1>1. /\ SmallString(user) /\ SmallString(nick) /\ code \in Nat
      /\ calls[x] = String(user) /\ calls[y] = String(nick) /\ calls[k] = Create("Player", args)
  BY DEF RightPlayer, PlayerCalled
<1>2. x \in 1 .. k - 1 /\ y \in 1 .. k - 1
  BY DEF PlayerCalled
<1>3. args[1] = x /\ args[2] = y /\ args[3] = code /\ DOMAIN args = 1 .. 3
  OBVIOUS
<1>4. Says(p)[1] = user /\ Says(p)[2] = nick /\ Says(p)[3] = Number(code, "ubyte")
  BY DEF Says
<1> HIDE DEF x, y, user, nick, code, args, table
<1>5. RightCall(calls, x) /\ RightCall(calls, y)
  BY <1>1, StringCall
<1>6. ASSUME NEW i \in DOMAIN f
      PROVE  RightArgument(calls, k, f[i], args[i])
  <2>1. i \in 1 .. 3
    BY <1>0
  <2>2. CASE i = 1
    BY <1>1, <1>2, <1>3, <2>2, <1>0, StringArgument
  <2>3. CASE i = 2
    BY <1>1, <1>2, <1>3, <2>3, <1>0, StringArgument
  <2>4. CASE i = 3
    BY <1>1, <1>3, <2>4, <1>0, NumberArgument
  <2> QED
    BY <2>1, <2>2, <2>3, <2>4
<1>7. RightCall(calls, k) /\ calls[k].call = "Create" /\ calls[k].table = table
      /\ calls[k].args = args
  <2>0. DOMAIN args = DOMAIN f /\ calls[k] = Create(table, args)
    BY <1>0, <1>1, <1>3 DEF table
  <2>1. TableCall(calls, k, table, args)
    BY <1>0, <1>6, <2>0 DEF TableCall, f
  <2> QED
    BY <2>1, CreateCall
<1>8. CalledFor("Player", calls[k])
  BY <1>7 DEF CalledFor, table
<1> DEFINE c == calls[k]
<1> HIDE DEF c
<1>9. /\ 1 \in DOMAIN f /\ 2 \in DOMAIN f
      /\ 3 \in DOMAIN f /\ c.table = table
      /\ calls[c.args[1]] = String(user) /\ calls[c.args[2]] = String(nick) /\ c.args[3] = code
  BY <1>1, <1>3, <1>7, <1>0 DEF c
<1>10. SaysField(calls, c, 1, user) /\ SaysField(calls, c, 2, nick)
  BY <1>9, <1>0, SaysString DEF f
<1>11. SaysField(calls, c, 3, Number(code, "ubyte"))
  BY <1>9, <1>0, SaysNumber DEF f
<1>12. ASSUME NEW i \in 1 .. 3 PROVE SaysField(calls, c, i, Says(p)[i])
  <2>1. i = 1 \/ i = 2 \/ i = 3
    OBVIOUS
  <2> QED
    BY <1>4, <1>10, <1>11, <2>1
<1> QED
  BY <1>5, <1>7, <1>8, <1>12 DEF x, y, c

LEMMA SaysPlayer ==
  ASSUME NEW p, RightPlayer(p)
  PROVE  Says(p) \in Seq(Seq(Nat)) /\ Len(Says(p)) = 3
<1> DEFINE user == p.user_id
           nick == p.nickname
           number == Number(StateNumber(p), "ubyte")
<1>1. user \in Seq(Nat) /\ nick \in Seq(Nat)
  BY SmallStringNat DEF RightPlayer
<1>2. number \in Seq(Nat)
  BY NumberNat DEF ScalarTypes, RightPlayer
<1> HIDE DEF user, nick, number
<1>3. <<user, nick, number>> \in Seq(Seq(Nat)) /\ Len(<<user, nick, number>>) = 3
  BY <1>1, <1>2
<1> QED
  BY <1>3 DEF Says, user, nick, number

\* The i-th of three, and the n-th in all.
LEMMA OfThree ==
  ASSUME NEW i \in Nat, 1 <= i
  PROVE  /\ (3 * i) \div 3 = i /\ (3 * i + 1) \div 3 = i /\ (3 * i + 2) \div 3 = i
         /\ (3 * i - 2) % 3 = 1 /\ (3 * i - 1) % 3 = 2 /\ (3 * i) % 3 = 0
         /\ (3 * i - 3) % 3 = 0
BY SMT

LEMMA ThreeOf ==
  ASSUME NEW n \in Nat, 1 <= n
  PROVE  LET i == (n + 2) \div 3
         IN  /\ i \in Nat /\ 1 <= i /\ n \in {3 * i - 2, 3 * i - 1, 3 * i}
             /\ ((n - 1) % 3) + 1 \in 1 .. 3
BY SMT

PlayersCalled(calls, players) ==
  \A i \in 1 .. Len(players) : PlayerCalled(calls, 3 * i, players[i])

LEMMA PlayersMade ==
  ASSUME NEW P, NEW players \in Seq(P), NEW calls, Begins(calls, CreatePlayers(players))
  PROVE  PlayersCalled(calls, players) /\ Len(CreatePlayers(players)) = 3 * Len(players)
<1> DEFINE made == CreatePlayers(players)
           m == 3 * Len(players)
<1>1. m \in Nat
  OBVIOUS
<1>2. DOMAIN made = 1 .. m /\ Len(made) = m
  <2>1. DOMAIN made = 1 .. m
    BY DEF CreatePlayers
  <2> QED
    BY <1>1, <2>1
<1> SUFFICES ASSUME NEW i \in 1 .. Len(players) PROVE PlayerCalled(calls, 3 * i, players[i])
  BY <1>2 DEF PlayersCalled
<1> DEFINE k == 3 * i
           p == players[i]
<1>3. /\ k \in Nat /\ 3 <= k
      /\ k - 2 \in 1 .. m /\ k - 1 \in 1 .. m /\ k \in 1 .. m
  OBVIOUS
<1>4. /\ ((k - 2) + 2) \div 3 = i /\ ((k - 1) + 2) \div 3 = i /\ (k + 2) \div 3 = i
      /\ (k - 2) % 3 = 1 /\ (k - 1) % 3 = 2 /\ k % 3 = 0
  BY OfThree
<1>5. made[k - 2] = String(p.user_id)
  <2> HIDE DEF p
  <2> QED
    BY <1>3, <1>4 DEF CreatePlayers, p
<1>6. made[k - 1] = String(p.nickname)
  BY <1>3, <1>4 DEF CreatePlayers
<1>7. made[k] = Create("Player", <<k - 2, k - 1, StateNumber(p)>>)
  <2>1. k % 3 # 1 /\ k % 3 # 2
    BY <1>4
  <2> HIDE DEF p, k
  <2>2. made[k] = Create("Player", <<k - 2, k - 1, StateNumber(players[(k + 2) \div 3])>>)
    BY <1>3, <2>1, Zenon DEF CreatePlayers
  <2> QED
    BY <1>4, <2>2 DEF p
<1> QED
  BY <1>2, <1>3, <1>5, <1>6, <1>7 DEF PlayerCalled, Begins

\* Every call that makes players is right.
LEMMA PlayersRight ==
  ASSUME NEW P, NEW players \in Seq(P), NEW calls, PlayersCalled(calls, players),
         \A i \in 1 .. Len(players) : RightPlayer(players[i])
  PROVE  /\ \A n \in 1 .. 3 * Len(players) : RightCall(calls, n)
         /\ \A i \in 1 .. Len(players) :
              /\ CalledFor("Player", calls[3 * i])
              /\ \A j \in 1 .. 3 : SaysField(calls, calls[3 * i], j, Says(players[i])[j])
<1>1. ASSUME NEW i \in 1 .. Len(players)
      PROVE  /\ RightCall(calls, 3 * i - 2) /\ RightCall(calls, 3 * i - 1)
             /\ RightCall(calls, 3 * i) /\ CalledFor("Player", calls[3 * i])
             /\ \A j \in 1 .. 3 : SaysField(calls, calls[3 * i], j, Says(players[i])[j])
  <2> DEFINE k == 3 * i
             p == players[i]
  <2>1. RightPlayer(p) /\ PlayerCalled(calls, k, p)
    BY DEF PlayersCalled
  <2> HIDE DEF k, p
  <2>2. /\ RightCall(calls, k - 2) /\ RightCall(calls, k - 1) /\ RightCall(calls, k)
        /\ CalledFor("Player", calls[k])
        /\ \A j \in 1 .. 3 : SaysField(calls, calls[k], j, Says(p)[j])
    BY <2>1, PlayerCall
  <2> QED
    BY <2>2 DEF k, p
<1>2. ASSUME NEW n \in 1 .. 3 * Len(players) PROVE RightCall(calls, n)
  <2> DEFINE i == (n + 2) \div 3
  <2>1. n \in Nat /\ 1 <= n
    OBVIOUS
  <2>2. i \in Nat /\ 1 <= i /\ n \in {3 * i - 2, 3 * i - 1, 3 * i}
    BY <2>1, ThreeOf
  <2> HIDE DEF i
  <2>3. i <= Len(players)
    BY <2>2
  <2>4. i \in 1 .. Len(players)
    BY <2>2, <2>3
  <2>5. n = 3 * i - 2 \/ n = 3 * i - 1 \/ n = 3 * i
    BY <2>2
  <2>6. CASE n = 3 * i - 2
    BY <1>1, <2>4, <2>6
  <2>7. CASE n = 3 * i - 1
    BY <1>1, <2>4, <2>7
  <2>8. CASE n = 3 * i
    BY <1>1, <2>4, <2>8
  <2> QED
    BY <2>5, <2>6, <2>7, <2>8
<1>3. ASSUME NEW i \in 1 .. Len(players)
      PROVE  /\ CalledFor("Player", calls[3 * i])
             /\ \A j \in 1 .. 3 : SaysField(calls, calls[3 * i], j, Says(players[i])[j])
  BY <1>1
<1> QED
  BY <1>2, <1>3

LEMMA InSeq ==
  ASSUME NEW R, NEW w \in Seq(R), NEW j \in DOMAIN w
  PROVE  w[j] \in R
OBVIOUS

LEMMA SeqIn ==
  ASSUME NEW A, NEW B, A \subseteq B, NEW s \in Seq(A)
  PROVE  s \in Seq(B) /\ Len(s) \in Nat
OBVIOUS

LEMMA Concatenated ==
  ASSUME NEW A, NEW s \in Seq(A), NEW t \in Seq(A)
  PROVE  /\ s \o t \in Seq(A) /\ Len(s \o t) = Len(s) + Len(t)
         /\ \A j \in 1 .. Len(s) : (s \o t)[j] = s[j]
         /\ \A j \in 1 .. Len(t) : (s \o t)[Len(s) + j] = t[j]
OBVIOUS

\* One sequence after the other.
Joined(s, t, w) ==
  /\ Len(w) = Len(s) + Len(t)
  /\ \A j \in 1 .. Len(s) : w[j] = s[j]
  /\ \A j \in 1 .. Len(t) : w[Len(s) + j] = t[j]

LEMMA Joining ==
  ASSUME NEW A, NEW s \in Seq(A), NEW t \in Seq(A)
  PROVE  s \o t \in Seq(A) /\ Joined(s, t, s \o t)
BY Concatenated DEF Joined

LEMMA Appended ==
  ASSUME NEW A, NEW s \in Seq(A), NEW x \in A
  PROVE  /\ Append(s, x) \in Seq(A) /\ Len(Append(s, x)) = Len(s) + 1
         /\ \A j \in 1 .. Len(s) : Append(s, x)[j] = s[j]
         /\ Append(s, x)[Len(s) + 1] = x
OBVIOUS

LEMMA SaysPlayersIs ==
  ASSUME NEW P, NEW players \in Seq(P), \A i \in 1 .. Len(players) : RightPlayer(players[i])
  PROVE  /\ SaysPlayers(players) \in Seq(Seq(Nat))
         /\ Len(SaysPlayers(players)) = 3 * Len(players)
         /\ \A i \in 1 .. Len(players), j \in 1 .. 3 :
              SaysPlayers(players)[3 * (i - 1) + j] = Says(players[i])[j]
<1> DEFINE m == 3 * Len(players)
           says == SaysPlayers(players)
           R == Seq(Nat)
<1>1. m \in Nat
  OBVIOUS
<1>2. DOMAIN says = 1 .. m
  BY DEF SaysPlayers
<1>3. ASSUME NEW n \in 1 .. m PROVE says[n] \in R
  <2> DEFINE i == (n + 2) \div 3
             j == ((n - 1) % 3) + 1
  <2>1. n \in Nat /\ 1 <= n
    OBVIOUS
  <2>2. i \in Nat /\ 1 <= i /\ n \in {3 * i - 2, 3 * i - 1, 3 * i} /\ j \in 1 .. 3
    BY <2>1, ThreeOf
  <2>3. says[n] = Says(players[i])[j]
    BY DEF SaysPlayers
  <2> HIDE DEF i, j, says
  <2>4. i <= Len(players)
    BY <2>2
  <2>5. i \in 1 .. Len(players)
    BY <2>2, <2>4
  <2>6. Says(players[i]) \in Seq(R) /\ Len(Says(players[i])) = 3
    BY <2>5, SaysPlayer
  <2> DEFINE w == Says(players[i])
  <2> HIDE DEF R, w
  <2>7. w \in Seq(R) /\ Len(w) = 3
    BY <2>6 DEF w, R
  <2>8. j \in 1 .. 3
    BY <2>2
  <2>9. j \in DOMAIN w
    BY <2>7, <2>8
  <2>10. w[j] \in R
    BY <2>7, <2>9, InSeq
  <2> QED
    BY <2>3, <2>10 DEF w
<1>4. ASSUME NEW i \in 1 .. Len(players), NEW j \in 1 .. 3
      PROVE  says[3 * (i - 1) + j] = Says(players[i])[j]
  <2> DEFINE n == 3 * (i - 1) + j
  <2>1. n \in 1 .. m
    OBVIOUS
  <2>2. (n + 2) \div 3 = i /\ ((n - 1) % 3) + 1 = j
    <3>1. CASE j = 1
      <4>1. n = 3 * i - 2 /\ n + 2 = 3 * i /\ n - 1 = 3 * i - 3
        BY <3>1
      <4> QED
        BY <3>1, <4>1, OfThree
    <3>2. CASE j = 2
      <4>1. n = 3 * i - 1 /\ n + 2 = 3 * i + 1 /\ n - 1 = 3 * i - 2
        BY <3>2
      <4> QED
        BY <3>2, <4>1, OfThree
    <3>3. CASE j = 3
      <4>1. n = 3 * i /\ n + 2 = 3 * i + 2 /\ n - 1 = 3 * i - 1
        BY <3>3
      <4> QED
        BY <3>3, <4>1, OfThree
    <3> QED
      BY <3>1, <3>2, <3>3
  <2> HIDE DEF n
  <2>3. says[n] = Says(players[(n + 2) \div 3])[((n - 1) % 3) + 1]
    BY <2>1 DEF SaysPlayers
  <2> QED
    BY <2>2, <2>3 DEF n
<1>5. says \in Seq(R) /\ Len(says) = m
  <2> HIDE DEF R, says, m
  <2>1. says = [n \in 1 .. m |-> says[n]]
    <3>1. says = [n \in DOMAIN says |-> says[n]]
      BY DEF says, SaysPlayers
    <3> QED
      BY <1>2, <3>1
  <2> QED
    BY <1>1, <1>2, <1>3, <2>1
<1> QED
  BY <1>4, <1>5

\* The calls begin with those that make the players, and go on with these.
PlayersFirst(calls, players, rest) ==
  /\ \A n \in 1 .. 3 * Len(players) : RightCall(calls, n)
  /\ \A i \in 1 .. Len(players) :
       /\ CalledFor("Player", calls[3 * i])
       /\ \A j \in 1 .. 3 : SaysField(calls, calls[3 * i], j, Says(players[i])[j])
  /\ \A j \in 1 .. Len(rest) : calls[3 * Len(players) + j] = rest[j]

LEMMA PlayersMessage ==
  ASSUME NEW P, NEW players \in Seq(P), \A i \in 1 .. Len(players) : RightPlayer(players[i]),
         NEW T, NEW rest \in Seq(T), NEW to, NEW kind \in Range(Payload), NEW says, NEW body,
         body = CreatePlayers(players) \o rest
  PROVE  /\ \E S : body \in Seq(S)
         /\ Len(body) = 3 * Len(players) + Len(rest)
         /\ PlayersFirst(Message(to, kind, body, says).calls, players, rest)
<1> DEFINE first == CreatePlayers(players)
           m == 3 * Len(players)
           S == Range(first) \cup T
           calls == Message(to, kind, body, says).calls
<1>1. m \in Nat
  OBVIOUS
<1>2. first \in Seq(Range(first)) /\ Len(first) = m
  <2>1. DOMAIN first = 1 .. m
    BY DEF CreatePlayers
  <2>2. first = [n \in DOMAIN first |-> first[n]]
    BY DEF CreatePlayers
  <2> HIDE DEF first, m
  <2>3. \A n \in 1 .. m : first[n] \in Range(first)
    BY <2>1 DEF Range
  <2>4. first = [n \in 1 .. m |-> first[n]]
    BY <2>1, <2>2
  <2> DEFINE R == Range(first)
  <2> HIDE DEF R
  <2>5. first \in Seq(R) /\ Len(first) = m
    BY <1>1, <2>1, <2>3, <2>4 DEF R
  <2> QED
    BY <2>5 DEF R
<1> HIDE DEF first, m
<1>3. first \in Seq(S) /\ rest \in Seq(S) /\ Len(rest) \in Nat
  <2>1. Range(first) \subseteq S /\ T \subseteq S
    OBVIOUS
  <2> DEFINE R == Range(first)
  <2> HIDE DEF S, R
  <2> QED
    BY <1>2, <2>1, SeqIn DEF R
<1> HIDE DEF S
<1>4. body = first \o rest
  BY DEF first
<1>5. /\ body \in Seq(S) /\ Len(body) = m + Len(rest)
      /\ \A j \in 1 .. m : body[j] = first[j]
      /\ \A j \in 1 .. Len(rest) : body[m + j] = rest[j]
  <2>1. body \in Seq(S) /\ Joined(first, rest, body)
    BY <1>3, <1>4, Joining
  <2> QED
    BY <1>2, <2>1 DEF Joined
<1>6. Begins(calls, body)
  BY <1>5, MessageCalls
<1> HIDE DEF calls
<1>7. Begins(calls, first)
  <2>1. \A j \in 1 .. m : j \in 1 .. Len(body)
    BY <1>1, <1>3, <1>5
  <2> QED
    BY <1>2, <1>5, <1>6, <2>1 DEF Begins
<1>8. \A j \in 1 .. Len(rest) : calls[m + j] = rest[j]
  <2>1. \A j \in 1 .. Len(rest) : m + j \in 1 .. Len(body)
    BY <1>1, <1>3, <1>5
  <2> QED
    BY <1>5, <1>6, <2>1 DEF Begins
<1>9. PlayersCalled(calls, players)
  BY <1>7, PlayersMade DEF first
<1>10. PlayersFirst(calls, players, rest)
  BY <1>8, <1>9, PlayersRight DEF PlayersFirst, m
<1> QED
  BY <1>5, <1>10 DEF m, calls

LEMMA InOutRight ==
  ASSUME NEW player, RightPlayer(player), NEW join \in Nat
  PROVE  RightMessage(BroadcastPlayerInOut(player, join))
<1> DEFINE table == "S2C_PlayerInOutLobby"
           args == <<3, join>>
           players == <<player>>
           rest == <<Create(table, args)>>
           body == CreatePlayers(players) \o rest
           says == Append(Says(player), Number(join, "ubyte"))
           calls == Message("client", table, body, says).calls
           f == Fields(table)
           handler == Handler[table]
<1>1. /\ table \in Handled("client") /\ handler = <<1, 2>> /\ table \in DOMAIN Schema
      /\ f = <<Field("Player", "player"), Field("ubyte", "is_join")>>
  BY DEF Handled, ToServer, Handler, Fields, Schema, S2C_PlayerInOutLobby
<1>2. table \in Range(Payload)
  BY <1>1, PayloadNumbers
<1>3. /\ rest \in Seq({Create(table, args)}) /\ Len(rest) = 1 /\ rest[1] = Create(table, args)
      /\ players \in Seq({player}) /\ Len(players) = 1 /\ players[1] = player
      /\ DOMAIN args = 1 .. 2 /\ args[1] = 3 /\ args[2] = join
  OBVIOUS
<1>4. /\ 1 \in DOMAIN f /\ 2 \in DOMAIN f /\ DOMAIN f = 1 .. 2
      /\ f[1] = Field("Player", "player") /\ f[2] = Field("ubyte", "is_join")
  <2> HIDE DEF f
  <2> QED
    BY <1>1
<1>5. Number(join, "ubyte") \in Seq(Nat)
  BY NumberNat DEF ScalarTypes
<1>6. says \in Seq(Seq(Nat)) /\ Len(says) = 4 /\ (\A i \in 1 .. 3 : says[i] = Says(player)[i])
      /\ says[4] = Number(join, "ubyte")
  <2> DEFINE x == Number(join, "ubyte")
             w == Says(player)
             R == Seq(Nat)
  <2>1. w \in Seq(R) /\ Len(w) = 3 /\ x \in R
    BY <1>5, SaysPlayer
  <2> HIDE DEF x, w, R
  <2>2. Append(w, x) \in Seq(R) /\ Len(Append(w, x)) = 4 /\ Append(w, x)[4] = x
        /\ \A i \in 1 .. 3 : Append(w, x)[i] = w[i]
    <3> DEFINE z == Append(w, x)
    <3>1. /\ z \in Seq(R) /\ Len(z) = Len(w) + 1
          /\ \A j \in 1 .. Len(w) : z[j] = w[j]
          /\ z[Len(w) + 1] = x
      BY <2>1, Appended
    <3> HIDE DEF z
    <3>2. Len(w) + 1 = 4
      BY <2>1
    <3> QED
      BY <2>1, <3>1, <3>2 DEF z
  <2> QED
    BY <2>2 DEF x, w, R
<1> HIDE DEF args, players, rest, says, f, handler
<1>7. \A i \in 1 .. Len(players) : RightPlayer(players[i])
  BY <1>3
<1>8. /\ \E S : body \in Seq(S)
      /\ Len(body) = 3 * Len(players) + Len(rest)
      /\ PlayersFirst(calls, players, rest)
  <2> HIDE DEF table
  <2> QED
    BY <1>2, <1>3, <1>7, PlayersMessage
<1> HIDE DEF body, calls, table
<1>9. Len(body) = 4
  BY <1>3, <1>8
<1>10. /\ \A n \in 1 .. 3 : RightCall(calls, n)
       /\ CalledFor("Player", calls[3])
       /\ \A j \in 1 .. 3 : SaysField(calls, calls[3], j, says[j])
       /\ calls[4] = Create(table, args)
  <2>1. 3 * Len(players) = 3 /\ 3 * Len(players) + 1 = 4 /\ 1 \in 1 .. Len(players)
        /\ 1 \in 1 .. Len(rest) /\ 3 * 1 = 3
    BY <1>3
  <2> QED
    BY <1>3, <1>6, <1>8, <2>1 DEF PlayersFirst
<1>11. RightCall(calls, 4) /\ calls[4].call = "Create" /\ calls[4].table = table
       /\ calls[4].args = args
  <2>1. ~IsScalar(f[1]) /\ f[1].type = "Player"
    BY <1>4, RightFields DEF Field
  <2>2. IsNumber(f[2])
    BY <1>4, FieldForms DEF ScalarTypes
  <2>3. RightArgument(calls, 4, f[1], args[1])
    BY <1>3, <1>10, <2>1 DEF RightArgument
  <2>4. RightArgument(calls, 4, f[2], args[2])
    BY <1>3, <2>2, NumberArgument
  <2>5. \A i \in DOMAIN f : RightArgument(calls, 4, f[i], args[i])
    BY <1>4, <2>3, <2>4
  <2>6. TableCall(calls, 4, table, args)
    BY <1>1, <1>3, <1>4, <1>10, <2>5 DEF TableCall, f
  <2> QED
    BY <2>6, CreateCall
<1>12. SaysList(calls, calls[4], handler, says, <<3>>)
  <2> DEFINE c == calls[4]
             p == <<3>>
  <2>0. Fields(c.table) = f
    BY <1>11 DEF f
  <2>1. handler = <<1, 2>> /\ handler[1] = 1 /\ handler[2] = 2 /\ Len(handler) = 2
    BY <1>1
  <2>2. p \in Seq(Nat) /\ Len(p) = 1 /\ p[1] = 3
    OBVIOUS
  <2>3. SaysField(calls, c, 2, Number(join, "ubyte"))
    <3>1. IsNumber(f[2]) /\ f[2].type = "ubyte"
      BY <1>4, FieldForms DEF ScalarTypes
    <3>2. c.args[2] = join
      BY <1>3, <1>11
    <3> HIDE DEF c
    <3> QED
      BY <1>4, <2>0, <3>1, <3>2, SaysNumber
  <2> HIDE DEF c, p
  <2>4. \A k \in 1 .. Len(p), i \in 1 .. 3 :
          SaysField(calls, calls[p[k]], i, says[3 * (k - 1) + i])
    <3> SUFFICES ASSUME NEW k \in 1 .. Len(p), NEW i \in 1 .. 3
                 PROVE  SaysField(calls, calls[p[k]], i, says[3 * (k - 1) + i])
      OBVIOUS
    <3>1. k = 1 /\ p[k] = 3 /\ 3 * (k - 1) + i = i
      BY <2>2
    <3> QED
      BY <1>10, <3>1
  <2>5. \A j \in 2 .. Len(handler) :
          SaysField(calls, c, handler[j], says[3 * Len(p) + (j - 1)])
    <3> SUFFICES ASSUME NEW j \in 2 .. Len(handler)
                 PROVE  SaysField(calls, c, handler[j], says[3 * Len(p) + (j - 1)])
      OBVIOUS
    <3>1. j = 2 /\ handler[j] = 2 /\ 3 * Len(p) + (j - 1) = 4
      BY <2>1, <2>2
    <3> QED
      BY <1>6, <2>3, <3>1
  <2>6. f[1].type = "Player" /\ c.args[1] = 3
    <3>1. c.args[1] = 3
      BY <1>3, <1>11 DEF c
    <3> QED
      BY <1>4, <3>1 DEF Field
  <2>7. Len(says) = 3 * Len(p) + (Len(handler) - 1)
    BY <1>6, <2>1, <2>2
  <2>8. SaysList(calls, c, handler, says, p)
    <3>1. Fields(c.table)[handler[1]].type = "Player" /\ p[1] = c.args[handler[1]]
      BY <2>0, <2>1, <2>2, <2>6
    <3>2. Len(handler) > 0 /\ handler[1] \in DOMAIN Fields(c.table)
      BY <1>4, <2>0, <2>1
    <3> QED
      BY <2>2, <2>4, <2>5, <2>7, <3>1, <3>2 DEF SaysList
  <2> QED
    BY <2>8 DEF c, p
<1>13. SaysBody(calls, calls[4], says)
  <2>1. <<3>> \in Seq(Nat)
    OBVIOUS
  <2> DEFINE p == <<3>>
  <2> HIDE DEF p
  <2> QED
    BY <1>11, <1>12, <2>1 DEF SaysBody, handler, p
<1>14. RightMessage(Message("client", table, body, says))
  <2>1. PICK S : body \in Seq(S)
    BY <1>8
  <2>2. \A n \in 1 .. Len(body) : RightCall(calls, n)
    <3>1. \A n \in 1 .. Len(body) : n \in 1 .. 3 \/ n = 4
      BY <1>9
    <3> QED
      BY <1>10, <1>11, <3>1
  <2>3. Len(body) >= 1 /\ Len(body) <= 3 * MaxPlayers + 4
    BY <1>9, SizeAssumption
  <2>4. calls[Len(body)].call = "Create" /\ calls[Len(body)].table = table
        /\ SaysBody(calls, calls[Len(body)], says)
    BY <1>9, <1>11, <1>13
  <2>5. calls = Message("client", table, body, says).calls
    BY DEF calls
  <2>6. says \in Seq(Seq(Nat)) /\ table \in Handled("client")
    BY <1>1, <1>6
  <2> QED
    BY <2>1, <2>2, <2>3, <2>4, <2>5, <2>6, MessageRight
<1> QED
  BY <1>14 DEF BroadcastPlayerInOut, body, table, players, rest, args, says

LEMMA PlayerListRight ==
  ASSUME NEW P, NEW players \in Seq(P), Len(players) <= MaxPlayers,
         \A i \in 1 .. Len(players) : RightPlayer(players[i])
  PROVE  RightMessage(ProcessPlayerListRequest(players))
<1> DEFINE table == "S2C_PlayerListResponse"
           n == Len(players)
           m == 3 * n
           p == [k \in 1 .. n |-> 3 * k]
           args == <<m + 1>>
           rest == <<Vector(p), Create(table, args)>>
           body == CreatePlayers(players) \o rest
           says == SaysPlayers(players)
           calls == Message("client", table, body, says).calls
           f == Fields(table)
           handler == Handler[table]
<1>1. /\ table \in Handled("client") /\ handler = <<1>> /\ table \in DOMAIN Schema
      /\ f = <<Field("[Player]", "players")>>
  BY DEF Handled, ToServer, Handler, Fields, Schema, S2C_PlayerListResponse
<1>2. table \in Range(Payload)
  BY <1>1, PayloadNumbers
<1>3. n \in Nat /\ m \in Nat /\ m = 3 * n /\ (m + 2) - 1 = m + 1
  OBVIOUS
<1>4. /\ rest \in Seq({Vector(p), Create(table, args)}) /\ Len(rest) = 2
      /\ rest[1] = Vector(p) /\ rest[2] = Create(table, args)
      /\ DOMAIN args = 1 .. 1 /\ args[1] = m + 1
  OBVIOUS
<1>5. p \in Seq(1 .. m) /\ p \in Seq(Nat) /\ Len(p) = n /\ \A k \in 1 .. n : p[k] = 3 * k
  <2>1. \A k \in 1 .. n : 3 * k \in 1 .. m
    OBVIOUS
  <2>2. n \in Nat
    OBVIOUS
  <2> HIDE DEF n, m
  <2>3. p \in Seq(1 .. m) /\ Len(p) = n
    BY <2>1, <2>2
  <2>4. 1 .. m \subseteq Nat
    OBVIOUS
  <2>5. \A k \in 1 .. n : p[k] = 3 * k
    OBVIOUS
  <2> HIDE DEF p
  <2>6. p \in Seq(Nat)
    BY <2>3, <2>4, SeqIn
  <2> QED
    BY <2>3, <2>5, <2>6
<1>6. /\ 1 \in DOMAIN f /\ DOMAIN f = 1 .. 1 /\ f[1] = Field("[Player]", "players")
      /\ handler[1] = 1 /\ Len(handler) = 1
  <2> HIDE DEF f, handler
  <2> QED
    BY <1>1
<1>7. /\ says \in Seq(Seq(Nat)) /\ Len(says) = m
      /\ \A i \in 1 .. n, j \in 1 .. 3 : says[3 * (i - 1) + j] = Says(players[i])[j]
  BY SaysPlayersIs
<1> HIDE DEF args, rest, says, f, handler, p
<1>8. /\ \E S : body \in Seq(S)
      /\ Len(body) = 3 * Len(players) + Len(rest)
      /\ PlayersFirst(calls, players, rest)
  <2> HIDE DEF table
  <2> QED
    BY <1>2, <1>4, PlayersMessage
<1> HIDE DEF body, calls, table
<1> DEFINE v == m + 1
           k == m + 2
<1>9. Len(body) = k
  BY <1>4, <1>8
<1>10. /\ \A j \in 1 .. m : RightCall(calls, j)
       /\ \A i \in 1 .. n :
            /\ CalledFor("Player", calls[3 * i])
            /\ \A j \in 1 .. 3 : SaysField(calls, calls[3 * i], j, Says(players[i])[j])
       /\ calls[v] = Vector(p) /\ calls[k] = Create(table, args)
  <2>1. 1 \in 1 .. Len(rest) /\ 2 \in 1 .. Len(rest)
    BY <1>4
  <2> QED
    BY <1>4, <1>8, <2>1 DEF PlayersFirst
<1>11. k \in Nat /\ v \in Nat /\ v - 1 = m /\ v \in 1 .. k - 1
  BY <1>3
<1> HIDE DEF n, v, k
<1>12. calls[v].call = "CreateVector" /\ calls[v].elements = p
  BY <1>10 DEF Vector
<1>13. RightCall(calls, v)
  <2>1. ASSUME NEW j \in 1 .. Len(p) PROVE CalledFor("Player", calls[p[j]])
    BY <1>5, <1>10
  <2>2. p \in Seq(1 .. v - 1) /\ Len(p) <= MaxPlayers
    BY <1>5, <1>11 DEF n
  <2>3. RightVector(calls, v)
    BY <1>12, <2>1, <2>2 DEF RightVector
  <2> QED
    BY <2>3 DEF RightCall
<1>14. RightCall(calls, k) /\ calls[k].call = "Create" /\ calls[k].table = table
       /\ calls[k].args = args
  <2>1. ~IsScalar(f[1]) /\ f[1].type = "[Player]"
    BY <1>6, RightFields DEF Field
  <2>2. CalledFor("[Player]", calls[v])
    BY <1>12 DEF CalledFor
  <2>3. RightArgument(calls, k, f[1], args[1])
    <3>1. args[1] = v
      BY <1>4 DEF v
    <3> QED
      BY <1>11, <2>1, <2>2, <3>1 DEF RightArgument
  <2>4. \A i \in DOMAIN f : RightArgument(calls, k, f[i], args[i])
    BY <1>6, <2>3
  <2>5. TableCall(calls, k, table, args)
    BY <1>1, <1>4, <1>6, <1>10, <2>4 DEF TableCall, f
  <2> QED
    BY <2>5, CreateCall
<1>15. SaysList(calls, calls[k], handler, says, p)
  <2> DEFINE c == calls[k]
  <2>0. Fields(c.table) = f /\ c.args[1] = v
    BY <1>4, <1>14 DEF f, v
  <2> HIDE DEF c
  <2>1. \A j \in 1 .. Len(p), i \in 1 .. 3 :
          SaysField(calls, calls[p[j]], i, says[3 * (j - 1) + i])
    <3> SUFFICES ASSUME NEW j \in 1 .. Len(p), NEW i \in 1 .. 3
                 PROVE  SaysField(calls, calls[p[j]], i, says[3 * (j - 1) + i])
      OBVIOUS
    <3>1. j \in 1 .. n /\ p[j] = 3 * j
      BY <1>5
    <3>2. says[3 * (j - 1) + i] = Says(players[j])[i]
      BY <1>7, <3>1
    <3>3. SaysField(calls, calls[3 * j], i, Says(players[j])[i])
      BY <1>10, <3>1
    <3> QED
      BY <3>1, <3>2, <3>3
  <2>2. \A j \in 2 .. Len(handler) :
          SaysField(calls, c, handler[j], says[3 * Len(p) + (j - 1)])
    BY <1>6
  <2>3. Len(says) = 3 * Len(p) + (Len(handler) - 1)
    BY <1>3, <1>5, <1>6, <1>7
  <2>4. Fields(c.table)[handler[1]].type = "[Player]" /\ calls[c.args[handler[1]]].elements = p
    BY <1>6, <1>12, <2>0 DEF Field
  <2>5. Len(handler) > 0 /\ handler[1] \in DOMAIN Fields(c.table)
    BY <1>6, <2>0
  <2>6. SaysList(calls, c, handler, says, p)
    BY <1>5, <2>1, <2>2, <2>3, <2>4, <2>5 DEF SaysList
  <2> QED
    BY <2>6 DEF c
<1>16. SaysBody(calls, calls[k], says)
  BY <1>5, <1>14, <1>15 DEF SaysBody, handler
<1>17. RightMessage(Message("client", table, body, says))
  <2>1. PICK S : body \in Seq(S)
    BY <1>8
  <2>2. \A j \in 1 .. Len(body) : RightCall(calls, j)
    <3>1. \A j \in 1 .. k : j \in 1 .. m \/ j = v \/ j = k
      BY <1>3 DEF k, v
    <3> QED
      BY <1>9, <1>10, <1>13, <1>14, <3>1
  <2>3. Len(body) >= 1 /\ Len(body) <= 3 * MaxPlayers + 4
    BY <1>9, SizeAssumption DEF k, n
  <2>4. calls[Len(body)].call = "Create" /\ calls[Len(body)].table = table
        /\ SaysBody(calls, calls[Len(body)], says)
    BY <1>9, <1>14, <1>16
  <2>5. calls = Message("client", table, body, says).calls
    BY DEF calls
  <2>6. says \in Seq(Seq(Nat)) /\ table \in Handled("client")
    BY <1>1, <1>7
  <2> QED
    BY <2>1, <2>2, <2>3, <2>4, <2>5, <2>6, MessageRight
<1> QED
  BY <1>17 DEF ProcessPlayerListRequest, body, table, rest, args, says, p, n

------------------------------------------------------------------------------
(* Every message of the protocol is right.                                  *)

LEMMA DigitSmall ==
  ASSUME NEW n \in 0 .. 15
  PROVE  HexDigit(n) \in 1 .. 255
BY DEF HexDigit

LEMMA Units ==
  ASSUME NEW k \in 1 .. 8
  PROVE  Unit[k] \in Nat /\ Unit[k] > 0
BY DEF Unit

LEMMA Quotient ==
  ASSUME NEW n \in Nat, NEW d \in Nat, d > 0
  PROVE  (n \div d) % 16 \in 0 .. 15
<1>1. n \div d \in Int
  BY SMT
<1> DEFINE q == n \div d
<1> HIDE DEF q
<1>2. q \in Int => (q % 16) \in 0 .. 15
  BY SMT
<1> QED
  BY <1>1, <1>2 DEF q

LEMMA HexSmall ==
  ASSUME NEW n \in Nat, NEW width \in 1 .. 8
  PROVE  Hex(n, width) \in Seq(1 .. 255) /\ Len(Hex(n, width)) = width
<1> DEFINE digit(k) == HexDigit((n \div Unit[width - k + 1]) % 16)
           R == 1 .. 255
<1>1. ASSUME NEW k \in 1 .. width PROVE digit(k) \in R
  <2>1. width - k + 1 \in 1 .. 8
    OBVIOUS
  <2>2. Unit[width - k + 1] \in Nat /\ Unit[width - k + 1] > 0
    BY <2>1, Units
  <2>3. (n \div Unit[width - k + 1]) % 16 \in 0 .. 15
    BY <2>2, Quotient
  <2> QED
    BY <2>3, DigitSmall
<1>2. Hex(n, width) = [k \in 1 .. width |-> digit(k)]
  BY DEF Hex, Digits
<1> HIDE DEF digit, R
<1>3. [k \in 1 .. width |-> digit(k)] \in Seq(R) /\ Len([k \in 1 .. width |-> digit(k)]) = width
  BY <1>1
<1> QED
  BY <1>2, <1>3 DEF R

\* One text after another.
SmallOf(s, n) == s \in Seq(1 .. 255) /\ Len(s) = n

LEMMA SmallTogether ==
  ASSUME NEW s, NEW t, NEW m \in Nat, NEW n \in Nat, SmallOf(s, m), SmallOf(t, n)
  PROVE  SmallOf(s \o t, m + n)
BY Concatenated DEF SmallOf

LEMMA DashSmall == SmallOf(Dash, 1)
BY DEF SmallOf, Dash

LEMMA UuidNumbers ==
  ASSUME NEW u \in Uuids
  PROVE  /\ u.Data1 \in Nat /\ u.Data2 \in Nat /\ u.Data3 \in Nat
         /\ \A k \in 1 .. 8 : u.Data4[k] \in Nat
<1> DEFINE top == 255
<1> HIDE DEF top
<1>1. u \in [Data1 : Long, Data2 : Word, Data3 : Word, Data4 : [1 .. 8 -> 0 .. top]]
  BY UuidsAssumption DEF UUID, top
<1>2. /\ u.Data1 \in Long /\ u.Data2 \in Word /\ u.Data3 \in Word
      /\ u.Data4 \in [1 .. 8 -> 0 .. top]
  BY <1>1
<1>3. Long \subseteq Nat
  BY DEF Long
<1>4. Word \subseteq Nat
  BY DEF Word
<1>5. ASSUME NEW k \in 1 .. 8 PROVE u.Data4[k] \in Nat
  <2>1. u.Data4[k] \in 0 .. top
    BY <1>2
  <2> QED
    BY <2>1
<1> QED
  BY <1>2, <1>3, <1>4, <1>5

LEMMA HexOf ==
  ASSUME NEW n \in Nat
  PROVE  SmallOf(Hex(n, 2), 2) /\ SmallOf(Hex(n, 4), 4) /\ SmallOf(Hex(n, 8), 8)
<1>1. 2 \in 1 .. 8 /\ 4 \in 1 .. 8 /\ 8 \in 1 .. 8
  OBVIOUS
<1> QED
  BY <1>1, HexSmall DEF SmallOf

LEMMA TokenSmall ==
  ASSUME NEW u \in Uuids
  PROVE  SmallOf(UuidToString(u), 36)
<1> DEFINE a == Hex(u.Data1, 8)
           b == Hex(u.Data2, 4)
           c == Hex(u.Data3, 4)
           byte(k) == Hex(u.Data4[k], 2)
           s1 == a \o Dash
           s2 == s1 \o b
           s3 == s2 \o Dash
           s4 == s3 \o c
           s5 == s4 \o Dash
           s6 == s5 \o byte(1)
           s7 == s6 \o byte(2)
           s8 == s7 \o Dash
           s9 == s8 \o byte(3)
           s10 == s9 \o byte(4)
           s11 == s10 \o byte(5)
           s12 == s11 \o byte(6)
           s13 == s12 \o byte(7)
           s14 == s13 \o byte(8)
<1>1. /\ u.Data1 \in Nat /\ u.Data2 \in Nat /\ u.Data3 \in Nat
      /\ \A k \in 1 .. 8 : u.Data4[k] \in Nat
  BY UuidNumbers
<1>2. SmallOf(a, 8) /\ SmallOf(b, 4) /\ SmallOf(c, 4)
  BY <1>1, HexOf
<1>3. \A k \in 1 .. 8 : SmallOf(byte(k), 2)
  BY <1>1, HexOf
<1> HIDE DEF a, b, c, byte
<1>4. SmallOf(s1, 9)
  BY <1>2, DashSmall, SmallTogether
<1> HIDE DEF s1
<1>5. SmallOf(s2, 13)
  BY <1>2, <1>4, SmallTogether
<1> HIDE DEF s2
<1>6. SmallOf(s3, 14)
  BY <1>5, DashSmall, SmallTogether
<1> HIDE DEF s3
<1>7. SmallOf(s4, 18)
  BY <1>2, <1>6, SmallTogether
<1> HIDE DEF s4
<1>8. SmallOf(s5, 19)
  BY <1>7, DashSmall, SmallTogether
<1> HIDE DEF s5
<1>9. SmallOf(s6, 21)
  BY <1>3, <1>8, SmallTogether
<1> HIDE DEF s6
<1>10. SmallOf(s7, 23)
  BY <1>3, <1>9, SmallTogether
<1> HIDE DEF s7
<1>11. SmallOf(s8, 24)
  BY <1>10, DashSmall, SmallTogether
<1> HIDE DEF s8
<1>12. SmallOf(s9, 26)
  BY <1>3, <1>11, SmallTogether
<1> HIDE DEF s9
<1>13. SmallOf(s10, 28)
  BY <1>3, <1>12, SmallTogether
<1> HIDE DEF s10
<1>14. SmallOf(s11, 30)
  BY <1>3, <1>13, SmallTogether
<1> HIDE DEF s11
<1>15. SmallOf(s12, 32)
  BY <1>3, <1>14, SmallTogether
<1> HIDE DEF s12
<1>16. SmallOf(s13, 34)
  BY <1>3, <1>15, SmallTogether
<1> HIDE DEF s13
<1>17. SmallOf(s14, 36)
  BY <1>3, <1>16, SmallTogether
<1> HIDE DEF s14
<1>18. UuidToString(u) = s14
  BY Zenon DEF UuidToString, a, b, c, byte, s1, s2, s3, s4, s5, s6, s7, s8, s9, s10, s11, s12, s13, s14
<1> QED
  BY <1>17, <1>18

LEMMA TextsSmall ==
  /\ \A s \in Texts : SmallString(s)
  /\ \A t \in SessionTokens : SmallString(t)
  /\ SmallString(<<>>) /\ SmallString(Dash)
<1>1. MaxText \in Nat
  BY SizeAssumption
<1>2. \A s \in Text : SmallString(s)
  BY <1>1 DEF Text, SmallString
<1>3. \A n \in 0 .. 36 : \A s : SmallOf(s, n) => SmallString(s)
  BY <1>1 DEF SmallOf, SmallString
<1>4. SmallOf(<<>>, 0)
  BY DEF SmallOf
<1>5. SmallString(<<>>)
  BY <1>3, <1>4
<1>6. SmallString(Dash)
  BY <1>3, DashSmall
<1>7. ASSUME NEW t \in SessionTokens PROVE SmallString(t)
  <2>1. CASE t = <<>>
    BY <1>5, <2>1
  <2>2. CASE \E u \in Uuids : t = UuidToString(u)
    <3>1. PICK u \in Uuids : t = UuidToString(u)
      BY <2>2
    <3>2. SmallOf(t, 36) /\ 36 \in 0 .. 36
      BY <3>1, TokenSmall
    <3> QED
      BY <1>3, <3>2
  <2> QED
    BY <2>1, <2>2 DEF SessionTokens
<1> QED
  BY <1>2, <1>5, <1>6, <1>7, TextAssumption

LEMMA EnumNat ==
  ASSUME NEW T, NEW enum \in Seq(T), NEW name \in Range(enum)
  PROVE  EnumValue(enum, name) \in Nat
<1> DEFINE i == CHOOSE j \in DOMAIN enum : enum[j] = name
<1>1. i \in DOMAIN enum
  BY DEF Range
<1>2. i \in Nat /\ i >= 1
  <2> HIDE DEF i
  <2> QED
    BY <1>1
<1> HIDE DEF i
<1>3. i - 1 \in Nat
  BY <1>2
<1> QED
  BY <1>3 DEF EnumValue, i

LEMMA PlayersAreRight == \A p \in Players : RightPlayer(p)
<1>1. PlayerState \in Seq({"Lobby", "Ready", "InGame"})
  BY DEF PlayerState
<1> SUFFICES ASSUME NEW p \in Players PROVE RightPlayer(p)
  OBVIOUS
<1>2. p \in [user_id : Text, nickname : Text, state : Range(PlayerState)]
  BY TextAssumption
<1>3. p.user_id \in Text /\ p.nickname \in Text /\ p.state \in Range(PlayerState)
  BY <1>2
<1>4. MaxText \in Nat
  BY SizeAssumption
<1>5. SmallString(p.user_id) /\ SmallString(p.nickname)
  BY <1>3, <1>4 DEF Text, SmallString
<1>6. StateNumber(p) \in Nat
  BY <1>1, <1>3, EnumNat DEF StateNumber
<1> QED
  BY <1>5, <1>6 DEF RightPlayer

LEMMA StatusNumbers ==
  /\ \A s \in Range(SignUpStatus) : EnumValue(SignUpStatus, s) \in Nat
  /\ \A s \in Range(LoginStatus) : EnumValue(LoginStatus, s) \in Nat
  /\ "Success" \in Range(LoginStatus)
<1>1. /\ SignUpStatus \in Seq({"Success", "DuplicateUserId", "DuplicateNickname", "OtherError"})
      /\ LoginStatus \in Seq({"Success", "UserIdNotFound", "InvalidPassword", "OtherError"})
  BY DEF SignUpStatus, LoginStatus
<1>2. LoginStatus[1] = "Success" /\ 1 \in DOMAIN LoginStatus
  BY DEF LoginStatus
<1>3. "Success" \in Range(LoginStatus)
  BY <1>2 DEF Range
<1> QED
  BY <1>1, <1>3, EnumNat

LEMMA RequestsRight == \A m \in Requests : RightMessage(m)
<1>1. ASSUME NEW u \in Texts, NEW p \in Texts PROVE RightMessage(SendLoginRequest(u, p))
  BY TextsSmall, LoginRequestRight
<1>2. ASSUME NEW u \in Texts, NEW p \in Texts, NEW n \in Texts
      PROVE  RightMessage(SendSignUpRequest(u, p, n))
  BY TextsSmall, SignUpRequestRight
<1>3. ASSUME NEW t \in SessionTokens, NEW r \in Flag
      PROVE  RightMessage(SendPlayerReadyRequest(t, r))
  <2>1. r \in Nat
    BY DEF Flag
  <2> QED
    BY <2>1, TextsSmall, ReadyRequestRight
<1>4. RightMessage(SendPlayerListRequest)
  BY PlayerListRequestRight
<1> QED
  BY <1>1, <1>2, <1>3, <1>4 DEF Requests

LEMMA BroadcastsRight == \A m \in Broadcasts : RightMessage(m)
<1>1. ASSUME NEW p \in Players, NEW j \in Flag PROVE RightMessage(BroadcastPlayerInOut(p, j))
  <2>1. j \in Nat
    BY DEF Flag
  <2> QED
    BY <2>1, PlayersAreRight, InOutRight
<1>2. ASSUME NEW p \in Players PROVE RightMessage(BroadcastPlayerChangeState(p))
  <2>1. SmallString(p.user_id) /\ StateNumber(p) \in Nat
    BY PlayersAreRight DEF RightPlayer
  <2> QED
    BY <2>1, ChangeStateRight
<1>3. ASSUME NEW s \in Flag, NEW n \in Numbers
      PROVE  RightMessage(BroadcastCountdownStartGame(s, n))
  <2>1. s \in Nat /\ n \in Nat
    BY NumberAssumption DEF Flag
  <2> QED
    BY <2>1, CountdownRight
<1>4. ASSUME NEW a \in Texts, NEW n \in Numbers PROVE RightMessage(BroadcastStartGame(a, n))
  <2>1. n \in Nat
    BY NumberAssumption
  <2> QED
    BY <2>1, TextsSmall, StartGameRight
<1> QED
  BY <1>1, <1>2, <1>3, <1>4 DEF Broadcasts

LEMMA ResponsesRight == \A m \in Responses : RightMessage(m)
<1>1. ASSUME NEW s \in Range(SignUpStatus) PROVE RightMessage(ProcessSignUpRequest(s))
  BY StatusNumbers, SignUpResponseRight
<1>2. ASSUME NEW n \in Texts, NEW t \in SessionTokens
      PROVE  RightMessage(ProcessLoginRequest("Success", n, t))
  BY StatusNumbers, TextsSmall, LoginResponseRight
<1>3. ASSUME NEW s \in Range(LoginStatus) PROVE RightMessage(ProcessLoginRequest(s, <<>>, Dash))
  BY StatusNumbers, TextsSmall, LoginResponseRight
<1>4. ASSUME NEW l \in UNION {[1 .. n -> Players] : n \in 0 .. MaxPlayers}
      PROVE  RightMessage(ProcessPlayerListRequest(l))
  <2>1. PICK n \in 0 .. MaxPlayers : l \in [1 .. n -> Players]
    OBVIOUS
  <2>2. n \in Nat /\ n <= MaxPlayers
    BY SizeAssumption
  <2>3. l \in Seq(Players) /\ Len(l) = n
    BY <2>1, <2>2
  <2>4. \A i \in 1 .. Len(l) : RightPlayer(l[i])
    <3>1. \A i \in 1 .. Len(l) : l[i] \in Players
      BY <2>1, <2>3
    <3> QED
      BY <3>1, PlayersAreRight
  <2> QED
    BY <2>2, <2>3, <2>4, PlayerListRight
<1> QED
  BY <1>1, <1>2, <1>3, <1>4 DEF Responses

LEMMA MessagesRight == \A m \in Requests \cup Responses \cup Broadcasts : RightMessage(m)
BY RequestsRight, BroadcastsRight, ResponsesRight

------------------------------------------------------------------------------
(* The sender.                                                              *)

\* The calls that have been made are as they should be, the last one, which finishes
\* the message, included.
Sending(f, made, calls) ==
  \/ Composing(f, made, calls)
  \/ /\ Sound(f) /\ f.finished = TRUE /\ made \in Seq(Nat) /\ Len(made) = Len(calls)
     /\ \E a \in Alignments : Composed(f.bytes, a, made, calls)

LEMMA SendingStart ==
  ASSUME NEW calls, RightCalls(calls)
  PROVE  Sending(NewBuilder, <<>>, calls)
BY ComposingStart DEF Sending

LEMMA SendingStep ==
  ASSUME NEW f, NEW made, NEW calls, RightCalls(calls), Sending(f, made, calls),
         Len(made) < Len(calls), NEW h, h = Perform(f, made, calls[Len(made) + 1])
  PROVE  Sending(h, Append(made, h.result), calls)
<1>1. Len(calls) \in Nat
  BY DEF RightCalls
<1>2. Composing(f, made, calls) /\ made \in Seq(Nat)
  BY <1>1 DEF Sending, Composing
<1>3. Len(made) \in Nat
  BY <1>2
<1>4. CASE Len(made) + 1 < Len(calls)
  BY <1>2, <1>4, ComposingStep DEF Sending
<1>5. CASE Len(made) + 1 = Len(calls)
  <2>1. Sound(h) /\ h.finished = TRUE
        /\ \E a \in Alignments : Composed(h.bytes, a, Append(made, h.result), calls)
    BY <1>2, <1>5, ComposedAtLast
  <2>2. PICK a \in Alignments : Composed(h.bytes, a, Append(made, h.result), calls)
    BY <2>1
  <2>3. Append(made, h.result) \in Seq(Nat) /\ Len(Append(made, h.result)) = Len(calls)
    BY <2>2 DEF Composed
  <2> QED
    BY <2>1, <2>3 DEF Sending
<1> QED
  BY <1>1, <1>3, <1>4, <1>5

LEMMA SendingFacts ==
  ASSUME NEW f, NEW made, NEW calls, RightCalls(calls), Sending(f, made, calls)
  PROVE  /\ Sound(f) /\ f \in Builders /\ f.asserts = TRUE /\ f.bytes \in Seq(Byte)
         /\ made \in Seq(Nat) /\ Len(made) \in Nat /\ Len(made) <= Len(calls)
         /\ \/ f.finished = TRUE /\ Len(made) = Len(calls)
            \/ f.finished = FALSE /\ Len(made) < Len(calls)
<1>1. Len(calls) \in Nat
  BY DEF RightCalls
<1>2. Sound(f)
  BY DEF Sending, Composing, Outside
<1>3. f \in Builders /\ f.asserts = TRUE /\ f.bytes \in Seq(Byte)
  BY <1>2 DEF Sound, Builders
<1>4. made \in Seq(Nat)
  BY DEF Sending, Composing
<1>5. Len(made) \in Nat
  BY <1>4
<1>6. CASE Composing(f, made, calls)
  <2>1. Len(made) < Len(calls) /\ f.finished = FALSE
    BY <1>6 DEF Composing
  <2> QED
    BY <1>1, <1>2, <1>3, <1>4, <1>5, <2>1
<1>7. CASE ~Composing(f, made, calls)
  <2>1. Len(made) = Len(calls) /\ f.finished = TRUE
    BY <1>7 DEF Sending
  <2> QED
    BY <1>1, <1>2, <1>3, <1>4, <1>5, <2>1
<1> QED
  BY <1>6, <1>7

\* However many calls a message takes, it is built of bytes.
LEMMA BuiltOfBytes ==
  ASSUME NEW m, RightMessage(m)
  PROVE  Built(m) \in Seq(Byte)
<1> DEFINE calls == m.calls
           N == Len(calls)
           U == [fbb : Builders, results : Seq(Nat)]
           e == [fbb |-> NewBuilder, results |-> <<>>]
           P == [k \in 0 .. N |-> {x \in U : Sending(x.fbb, x.results, calls)
                                             /\ Len(x.results) = k}]
           step == [w \in U \X (1 .. N) |-> Performed(w[1], calls[w[2]])]
           made[n \in 0 .. N] == IF n = 0 THEN e ELSE Performed(made[n - 1], calls[n])
           Is(g) == g = [n \in 0 .. N |-> IF n = 0 THEN e ELSE Performed(g[n - 1], calls[n])]
<1>1. N \in Nat /\ 0 \in 0 .. N /\ N \in 0 .. N /\ \A k \in 1 .. N : k - 1 \in 0 .. N /\ k \in 0 .. N
  BY DEF RightMessage, RightCalls
<1>2. RightCalls(calls)
  BY DEF RightMessage
<1> HIDE DEF calls
<1>3. Built(m) = made[N].fbb.bytes
  BY Zenon DEF Built, e, calls
<1>4. e \in P[0]
  <2>1. Sending(NewBuilder, <<>>, calls)
    BY <1>2, SendingStart
  <2>2. NewBuilder \in Builders /\ <<>> \in Seq(Nat) /\ Len(<<>>) = 0
    BY <1>2, <2>1, SendingFacts
  <2>3. e \in U /\ e.fbb = NewBuilder /\ e.results = <<>>
    BY <2>2
  <2> HIDE DEF e, U
  <2> QED
    BY <1>1, <2>1, <2>2, <2>3
<1>5. ASSUME NEW k \in 1 .. N, NEW x \in P[k - 1]
      PROVE  Performed(x, calls[k]) \in P[k]
  <2> DEFINE f == x.fbb
             res == x.results
             h == Perform(f, res, calls[k])
             y == Performed(x, calls[k])
  <2>1. x \in U /\ Sending(f, res, calls) /\ Len(res) = k - 1
    <3> HIDE DEF U, N
    <3> QED
      BY <1>1
  <2>2. k = Len(res) + 1 /\ Len(res) < N
    BY <1>1, <2>1
  <2> HIDE DEF h
  <2>3. Sending(h, Append(res, h.result), calls)
    <3>1. h = Perform(f, res, calls[Len(res) + 1])
      BY <2>2 DEF h
    <3> HIDE DEF f, res
    <3> QED
      BY <1>2, <2>1, <2>2, <3>1, SendingStep
  <2>4. h \in Builders /\ Append(res, h.result) \in Seq(Nat)
    BY <1>2, <2>3, SendingFacts
  <2>5. Len(Append(res, h.result)) = k
    <3>1. res \in Seq(Nat)
      BY <2>1
    <3> HIDE DEF res
    <3> QED
      BY <2>2, <3>1
  <2> DEFINE z == Append(res, h.result)
  <2>6. y = [fbb |-> h, results |-> z]
    BY Zenon DEF Performed, h
  <2> HIDE DEF y, z, f, res
  <2>7. y \in U /\ y.fbb = h /\ y.results = z
    BY <2>4, <2>6 DEF z
  <2> HIDE DEF U
  <2>8. Sending(y.fbb, y.results, calls) /\ Len(y.results) = k
    BY <2>3, <2>5, <2>7 DEF z
  <2>9. y \in P[k]
    BY <1>1, <2>7, <2>8
  <2> QED
    BY <2>9 DEF y
<1>6. \A k \in 0 .. N : P[k] \subseteq U
  <2> HIDE DEF U
  <2> QED
    OBVIOUS
<1>7. \A k \in 1 .. N : \A x \in P[k - 1] : step[<<x, k>>] = Performed(x, calls[k])
  <2> SUFFICES ASSUME NEW k \in 1 .. N, NEW x \in P[k - 1]
               PROVE  step[<<x, k>>] = Performed(x, calls[k])
    OBVIOUS
  <2>1. x \in U
    BY <1>1, <1>6
  <2> HIDE DEF U, P
  <2>2. <<x, k>> \in U \X (1 .. N)
    BY <2>1
  <2> QED
    BY <2>2
<1> HIDE DEF P, U, e
<1>8. PICK g \in [0 .. N -> U] :
        g[0] = e /\ \A k \in 1 .. N : g[k] = step[<<g[k - 1], k>>]
  <2>1. \A k \in 1 .. N : \A x \in P[k - 1] : step[<<x, k>>] \in P[k]
    BY <1>5, <1>7
  <2> HIDE DEF step, N
  <2>2. Steps(N, U, P, e, step)
    BY <1>1, <1>4, <1>6, <2>1 DEF Steps
  <2> QED
    BY <2>2, Recursion
<1>9. \A k \in 0 .. N : g[k] \in P[k]
  <2>1. ASSUME NEW k \in 1 .. N, g[k - 1] \in P[k - 1] PROVE g[k] \in P[k]
    <3>1. g[k] = step[<<g[k - 1], k>>]
      BY <1>8
    <3> HIDE DEF step
    <3>2. step[<<g[k - 1], k>>] \in P[k]
      BY <1>5, <1>7, <2>1
    <3> QED
      BY <3>1, <3>2
  <2> HIDE DEF step, N
  <2> QED
    BY <1>1, <1>4, <1>8, <2>1, Along
<1>10. Is(g)
  <2>1. \A k \in 1 .. N : g[k] = Performed(g[k - 1], calls[k])
    <3> SUFFICES ASSUME NEW k \in 1 .. N PROVE g[k] = Performed(g[k - 1], calls[k])
      OBVIOUS
    <3>1. k - 1 \in 0 .. N
      BY <1>1
    <3> QED
      BY <1>7, <1>8, <1>9, <3>1
  <2> HIDE DEF step, N
  <2>2. \A k \in 0 .. N : k # 0 => k \in 1 .. N
    BY <1>1
  <2>3. g = [k \in 0 .. N |-> g[k]]
    BY <1>8
  <2>4. \A k \in 0 .. N : g[k] = IF k = 0 THEN e ELSE Performed(g[k - 1], calls[k])
    BY <1>8, <2>1, <2>2
  <2> QED
    BY <2>3, <2>4
<1>11. Is(made)
  BY <1>10, Zenon
<1> HIDE DEF made
<1>12. made[0] = e /\ \A k \in 1 .. N : made[k] = Performed(made[k - 1], calls[k])
  <2> HIDE DEF N
  <2>1. made[0] = e
    BY <1>1, <1>11
  <2>2. ASSUME NEW k \in 1 .. N PROVE made[k] = Performed(made[k - 1], calls[k])
    <3>1. k \in 0 .. N /\ k # 0
      BY <1>1
    <3> QED
      BY <1>11, <3>1, Zenon
  <2> QED
    BY <2>1, <2>2
<1>13. \A k \in 0 .. N : made[k] \in P[k]
  <2>1. \A k \in 1 .. N : made[k - 1] \in P[k - 1] => made[k] \in P[k]
    BY <1>5, <1>12
  <2> HIDE DEF N
  <2> QED
    BY <1>1, <1>4, <1>12, <2>1, Along
<1>14. made[N] \in P[N] /\ N \in 0 .. N
  BY <1>1, <1>13
<1>15. Sending(made[N].fbb, made[N].results, calls)
  BY <1>14 DEF P
<1> QED
  BY <1>2, <1>3, <1>15, SendingFacts

------------------------------------------------------------------------------
(* The receiver is the one that takes any bytes.                            *)

SenderInv ==
  /\ RightMessage(message) /\ message.to = side /\ side \in {"server", "client"}
  /\ Sending(fbb, results, message.calls)

LEMMA SenderInit == Init => SenderInv
<1> SUFFICES ASSUME Init PROVE SenderInv
  OBVIOUS
<1>1. RightMessage(message) /\ message.to = side
  BY MessagesRight DEF Init
<1>2. side \in {"server", "client"}
  BY DEF Init, RInit
<1>3. Sending(fbb, results, message.calls)
  BY <1>1, SendingStart DEF Init, RightMessage
<1> QED
  BY <1>1, <1>2, <1>3 DEF SenderInv

LEMMA SideStays == Next => UNCHANGED <<side, message>>
BY DEF Next, Call, Arrive, Garbled, rvars, Process, Verify, Dispatch, Handle, ReadScalar,
   ReadString, ReadPlayer, ReadPlayers, NullPointer, Finish

LEMMA SenderNext == SenderInv /\ [Next]_vars => SenderInv'
<1> SUFFICES ASSUME SenderInv, [Next]_vars PROVE SenderInv'
  OBVIOUS
<1>1. side' = side /\ message' = message
  BY SideStays DEF vars, rvars
<1>2. CASE Call
  <2> DEFINE calls == message.calls
             h == Perform(fbb, results, calls[Len(results) + 1])
  <2>1. Len(results) < Len(calls) /\ fbb' = h /\ results' = Append(results, fbb'.result)
    BY <1>2 DEF Call
  <2>2. RightCalls(calls) /\ Sending(fbb, results, calls)
    BY DEF SenderInv, RightMessage
  <2> HIDE DEF calls
  <2>3. Sending(h, Append(results, h.result), calls)
    BY <2>1, <2>2, SendingStep
  <2>4. Sending(fbb', results', calls)
    BY <2>1, <2>3
  <2> QED
    BY <1>1, <2>4 DEF SenderInv, calls
<1>3. CASE fbb' = fbb /\ results' = results
  BY <1>1, <1>3 DEF SenderInv
<1> QED
  BY <1>2, <1>3 DEF Next, Arrive, Garbled, vars

LEMMA SenderAlways == Spec => []SenderInv
<1> QED
  BY SenderInit, SenderNext, PTL DEF Spec

\* Whatever a message is composed of, no assertion of the builder fails: FLATBUFFERS_ASSERT
\* in ensure_space, NotNested, Finished, EndTable, Required and the scratch pad.
THEOREM NoAssertionFails == Spec => []AssertsHold
<1>1. SenderInv => AssertsHold
  BY SendingFacts DEF SenderInv, AssertsHold, RightMessage
<1> QED
  BY <1>1, SenderAlways, PTL

LEMMA PartOf ==
  ASSUME NEW A, NEW s \in Seq(A), NEW i \in Nat, NEW j \in Nat, 1 <= i, j <= Len(s)
  PROVE  SubSeq(s, i, j) \in Seq(A) /\ (i <= j + 1 => Len(SubSeq(s, i, j)) = j - i + 1)
OBVIOUS

LEMMA PacketBytes ==
  ASSUME NEW m, RightMessage(m)
  PROVE  Packet(m) \in Seq(Byte) /\ 4 <= Len(Packet(m))
<1> DEFINE b == Built(m)
           s == LittleEndian(Len(b), 4)
<1>1. b \in Seq(Byte)
  BY BuiltOfBytes
<1>2. s \in Seq(Byte) /\ Len(s) = 4
  <2>1. Len(b) \in Int
    BY <1>1
  <2> QED
    BY <2>1, LengthBytes
<1> HIDE DEF s
<1>3. Reverse(s) \in Seq(Byte) /\ Len(Reverse(s)) = 4
  <2> DEFINE R == Byte
             r == [i \in 1 .. 4 |-> s[4 - i + 1]]
  <2>1. Reverse(s) = r
    BY <1>2 DEF Reverse
  <2>2. \A i \in 1 .. 4 : 4 - i + 1 \in DOMAIN s
    BY <1>2
  <2> HIDE DEF R
  <2>3. \A i \in 1 .. 4 : s[4 - i + 1] \in R
    BY <1>2, <2>2, InSeq DEF R
  <2>4. r \in Seq(R) /\ Len(r) = 4
    BY <2>3
  <2> QED
    BY <2>1, <2>4 DEF R
<1> DEFINE r == Reverse(s)
<1> HIDE DEF b, r
<1>4. r \o b \in Seq(Byte) /\ 4 <= Len(r \o b)
  BY <1>1, <1>3, Concatenated DEF r
<1> QED
  BY <1>4 DEF Packet, WithLength, r, s, b

LEMMA ReceiverStep == SenderInv /\ [Next]_vars => [Receive \/ Process]_rvars
<1> SUFFICES ASSUME SenderInv, Next PROVE Receive \/ Process \/ UNCHANGED rvars
  BY DEF vars, rvars
<1>1. fbb.bytes \in Seq(Byte)
  BY SendingFacts DEF SenderInv, RightMessage
<1>2. CASE Call
  BY <1>2 DEF Call
<1>3. CASE Arrive
  BY <1>1, <1>3 DEF Arrive, Ready, Receive
<1>4. CASE Garbled
  <2> DEFINE b == fbb.bytes
             z == Size(fbb)
  <2>1. z \in Nat /\ z = Len(b)
    BY <1>1 DEF Size
  <2> DEFINE Got(other, n, k) ==
               buf' = SubSeq(SubSeq(b, 1, k) \o SubSeq(other, 1, n) \o SubSeq(b, k + 1, z), 1, z)
  <2>a. PICK other \in BroadcastPackets \cup RequestPackets :
          \E n \in {4, Len(other)} : \E k \in 0 .. z - 1 : Got(other, n, k)
    BY <1>4 DEF Garbled
  <2>2. PICK n \in {4, Len(other)}, k \in 0 .. z - 1 : Got(other, n, k)
    BY <2>a
  <2>3. other \in Seq(Byte) /\ 4 <= Len(other)
    BY PacketBytes, MessagesRight DEF BroadcastPackets, RequestPackets
  <2>4. n \in Nat /\ n <= Len(other)
    BY <2>3
  <2> DEFINE x == SubSeq(b, 1, k)
             y == SubSeq(other, 1, n)
             w == SubSeq(b, k + 1, z)
  <2> HIDE DEF b, z
  <2>5. x \in Seq(Byte) /\ Len(x) = k /\ w \in Seq(Byte) /\ Len(w) = z - k
    <3>1. 1 \in Nat /\ k \in Nat /\ k + 1 \in Nat /\ 1 <= k + 1 /\ k <= z /\ k + 1 <= z + 1
          /\ (k - 1) + 1 = k /\ (z - (k + 1)) + 1 = z - k
      BY <2>1
    <3>2. b \in Seq(Byte)
      BY <1>1 DEF b
    <3> QED
      BY <2>1, <3>1, <3>2, PartOf
  <2>6. y \in Seq(Byte) /\ Len(y) \in Nat
    <3>1. 1 \in Nat /\ 1 <= 1
      OBVIOUS
    <3>2. y \in Seq(Byte)
      BY <2>3, <2>4, <3>1, PartOf
    <3> HIDE DEF y
    <3> QED
      BY <3>2
  <2> HIDE DEF x, y, w
  <2> DEFINE t == x \o y \o w
  <2>7. t \in Seq(Byte) /\ z <= Len(t)
    <3>1. x \o y \in Seq(Byte) /\ Len(x \o y) = Len(x) + Len(y)
      BY <2>5, <2>6, Concatenated
    <3>2. t \in Seq(Byte) /\ Len(t) = Len(x \o y) + Len(w)
      BY <2>5, <3>1, Concatenated
    <3> HIDE DEF t
    <3> QED
      BY <2>1, <2>5, <2>6, <3>1, <3>2
  <2> HIDE DEF t
  <2>8. SubSeq(t, 1, z) \in Seq(Byte)
    <3>1. 1 \in Nat /\ 1 <= 1
      OBVIOUS
    <3> QED
      BY <2>1, <2>7, <3>1, PartOf
  <2>9. buf' \in Seq(Byte)
    BY <2>2, <2>8 DEF t, x, y, w
  <2> QED
    BY <1>4, <2>9 DEF Garbled, Ready, Receive
<1> QED
  BY <1>2, <1>3, <1>4 DEF Next

\* What arrives, built or garbled, is bytes, as Reader takes them, so that what is proved
\* of Reader holds here: a step of the sender is a stutter of it.
LEMMA ReceiverIsReader == Spec => ReaderSpec
<1>1. Init => RInit
  BY DEF Init
<1> QED
  BY <1>1, ReceiverStep, SenderAlways, PTL DEF Spec, ReaderSpec

\* Since Reader takes any bytes, the handlers of a message, also of a garbled one, read within it.
THEOREM MessagesReadInBounds == Spec => []ReadsInBounds
BY ReceiverIsReader, ReadsStayInBounds, PTL

\* And what a handler has yet to read are fields its message has in the
\* schema.
THEOREM MessagesTypeCorrect == Spec => []TypeOK
BY ReceiverIsReader, TypeCorrect, PTL

------------------------------------------------------------------------------
(* Verifying and reading what a message has been composed of.               *)

\* A buffer that is aligned as a whole.
Whole(b, a) ==
  b \in Seq(Byte) /\ Len(b) < MaxSize /\ a \in Alignments /\ 4 <= a /\ Len(b) % a = 0

LEMMA MultipleOfBoth ==
  ASSUME NEW x \in Nat, NEW d \in Nat, NEW a \in Alignments, NEW n \in Alignments,
         n <= a, x % a = 0, d % n = 0, d <= x
  PROVE  (x - d) % n = 0
<1>1. \A y, z \in Nat : y % 8 = 0 /\ z % 8 = 0 => (y - z) % 8 = 0
  BY SMT
<1>2. \A y, z \in Nat : y % 4 = 0 /\ z % 4 = 0 => (y - z) % 4 = 0
  BY SMT
<1>3. \A y, z \in Nat : y % 2 = 0 /\ z % 2 = 0 => (y - z) % 2 = 0
  BY SMT
<1>4. \A y, z \in Nat : (y - z) % 1 = 0
  BY SMT
<1>5. \A y \in Nat : /\ y % 8 = 0 => y % 4 = 0
                     /\ y % 4 = 0 => y % 2 = 0
  BY SMT
<1>6. a \in {1, 2, 4, 8} /\ n \in {1, 2, 4, 8}
  BY DEF Alignments
<1>7. CASE n = 1
  BY <1>4, <1>7
<1>8. CASE n = 2
  <2>1. x % 2 = 0
    BY <1>5, <1>6, <1>8
  <2> QED
    BY <1>3, <1>8, <2>1
<1>9. CASE n = 4
  <2>1. x % 4 = 0
    BY <1>5, <1>6, <1>9
  <2> QED
    BY <1>2, <1>9, <2>1
<1>10. CASE n = 8
  <2>1. x % 8 = 0
    BY <1>6, <1>10
  <2> QED
    BY <1>1, <1>10, <2>1
<1> QED
  BY <1>6, <1>7, <1>8, <1>9, <1>10

LEMMA WholeFacts ==
  ASSUME NEW b, NEW a, Whole(b, a)
  PROVE  /\ b \in Seq(Byte) /\ Len(b) \in Nat /\ Len(b) < MaxSize /\ MaxSize \in Nat
         /\ \A n \in Alignments : n <= a => n \in Nat
         /\ \A n \in Alignments, d \in Nat :
              n <= a /\ d % n = 0 /\ d <= Len(b) => (Len(b) - d) % n = 0
         /\ 2 \in Alignments /\ 4 \in Alignments /\ 2 <= a /\ 4 <= a
<1>1. b \in Seq(Byte) /\ Len(b) \in Nat /\ Len(b) < MaxSize /\ MaxSize \in Nat
  BY MaxSizeNat DEF Whole
<1>2. a \in Alignments /\ Len(b) % a = 0 /\ 4 <= a
  BY DEF Whole
<1>3. 2 \in Alignments /\ 4 \in Alignments /\ 2 <= a /\ \A n \in Alignments : n \in Nat
  BY <1>2 DEF Alignments
<1> DEFINE x == Len(b)
<1> HIDE DEF x
<1>4. ASSUME NEW n \in Alignments, NEW d \in Nat, n <= a, d % n = 0, d <= x
      PROVE  (x - d) % n = 0
  BY <1>1, <1>2, <1>4, MultipleOfBoth DEF x
<1> QED
  BY <1>1, <1>2, <1>3, <1>4 DEF x

\* A distance that leads forwards.
LEMMA DistanceVerified ==
  ASSUME NEW b, NEW a, Whole(b, a), NEW d \in Nat, NEW off \in Nat, d <= Len(b), d % 4 = 0,
         off # 0, off + 4 <= d, Stands(b, d, LittleEndian(d - off, 4))
  PROVE  /\ VerifyDistance(b, Len(b) - d)
         /\ Target(b, Len(b) - d) = Len(b) - off
<1> DEFINE n == d - off
           x == Len(b)
           p == x - d
<1>1. /\ b \in Seq(Byte) /\ x \in Nat /\ x < MaxSize /\ MaxSize \in Nat /\ p % 4 = 0
  BY WholeFacts
<1>2. n \in Nat /\ n >= 4 /\ n <= x /\ p \in Nat /\ p + n = x - off /\ p <= x - 4 /\ x > 4
      /\ x - off <= x - 1 /\ 0 <= x - off
  BY <1>1
<1>3. Signed32(n)
  BY <1>1, <1>2 DEF Signed32
<1> HIDE DEF n
<1>4. I32(b, x - d) = n
  BY <1>1, <1>3, Read32 DEF n
<1> HIDE DEF x, p
<1>5. Target(b, p) = x - off
  <2>1. I32(b, p) = n /\ ~(n < 0)
    BY <1>2, <1>4 DEF p
  <2> QED
    BY <1>2, <2>1 DEF Target
<1>6. FitsAligned(b, p, 4) /\ Fits(b, x - off, 1)
  BY <1>1, <1>2 DEF FitsAligned, Fits, x
<1>7. I32(b, p) > 0
  BY <1>2, <1>4 DEF p
<1> QED
  BY <1>5, <1>6, <1>7 DEF VerifyDistance, p, x

LEMMA StringVerified ==
  ASSUME NEW b, NEW a, Whole(b, a), NEW d, d <= Len(b), NEW s, s \in Seq(1 .. 255),
         StringIs(b, d, s)
  PROVE  VerifyString(b, Len(b) - d) /\ StringValue(b, Len(b) - d) = s
<1> DEFINE x == Len(b)
           n == Len(s)
           p == x - d
<1>1. /\ d \in Nat /\ d % 4 = 0 /\ n + 5 <= d
      /\ Stands(b, d, LittleEndian(n, 4)) /\ Stands(b, d - 4, s) /\ Stands(b, d - 4 - n, <<0>>)
  BY DEF StringIs
<1>2. b \in Seq(Byte) /\ x \in Nat /\ x < MaxSize /\ MaxSize \in Nat /\ p % 4 = 0
  BY <1>1, WholeFacts
<1>3. s \in Seq(Byte) /\ n \in Nat /\ s = [k \in 1 .. n |-> s[k]]
  <2>1. 1 .. 255 \subseteq Byte
    BY DEF Byte
  <2>2. s \in Seq(Byte) /\ n \in Nat
    BY <2>1, SeqIn
  <2> QED
    BY <2>2
<1> HIDE DEF n
<1>4. /\ n <= MaxSize /\ n < MaxSize /\ d - 4 \in Nat /\ d - 4 - n \in Nat /\ p \in Nat
      /\ p <= x - 4 /\ 4 < x /\ 4 + n < x /\ p <= x - (4 + n) /\ p + 4 + n <= x - 1 /\ 1 < x
      /\ x - (d - 4) = p + 4 /\ x - (d - 4 - n) = p + 4 + n
  <2>1. /\ d \in Nat /\ n \in Nat /\ x \in Nat /\ MaxSize \in Nat /\ x < MaxSize /\ d <= x
        /\ n + 5 <= d
    BY <1>1, <1>2, <1>3
  <2> HIDE DEF x
  <2> QED
    BY <2>1
<1>5. Length(b, p) = n
  <2>1. Signed32(n)
    BY <1>2, <1>3, <1>4 DEF Signed32
  <2>2. I32(b, Len(b) - d) = n
    BY <1>1, <1>2, <2>1, Read32
  <2> QED
    BY <2>2 DEF Length
<1> HIDE DEF p, x
<1>6. VerifyVector(b, p, 1)
  <2>1. FitsAligned(b, p, 4)
    BY <1>2, <1>4 DEF FitsAligned, Fits, x
  <2>2. MaxSize \div 1 = MaxSize
    <3>1. \A y \in Nat : y \div 1 = y
      BY SMT
    <3> QED
      BY <1>2, <3>1
  <2>3. Fits(b, p, 4 + 1 * n)
    BY <1>2, <1>3, <1>4 DEF Fits, x
  <2> QED
    BY <1>3, <1>4, <1>5, <2>1, <2>2, <2>3 DEF VerifyVector
<1>7. Fits(b, p + 4 + n, 1)
  BY <1>2, <1>3, <1>4 DEF Fits, x
<1>8. At(b, p + 4 + n) = 0
  <2> DEFINE z == <<0>>
             e == d - 4 - n
  <2>1. z \in Seq(Byte) /\ 1 \in 1 .. Len(z) /\ z[1] = 0
    BY DEF Byte
  <2> HIDE DEF z, e
  <2>2. At(b, Len(b) - e + 1 - 1) = z[1]
    BY <1>1, <1>2, <1>4, <2>1, StandsAt DEF z, e
  <2>3. Len(b) - e + 1 - 1 = p + 4 + n
    BY <1>2, <1>4 DEF x, e
  <2> QED
    BY <2>1, <2>2, <2>3
<1>9. VerifyString(b, p)
  BY <1>5, <1>6, <1>7, <1>8 DEF VerifyString
<1>10. ASSUME NEW k \in 1 .. n PROVE At(b, p + 3 + k) = s[k]
  <2> DEFINE e == d - 4
  <2> HIDE DEF e
  <2>1. At(b, Len(b) - e + k - 1) = s[k]
    BY <1>1, <1>2, <1>3, <1>4, StandsAt DEF e, n
  <2>2. Len(b) - e + k - 1 = p + 3 + k
    BY <1>2, <1>3, <1>4 DEF x, e
  <2> QED
    BY <2>1, <2>2
<1>11. StringValue(b, p) = s
  <2>1. StringValue(b, p) = [k \in 1 .. n |-> At(b, p + 3 + k)]
    BY <1>5 DEF StringValue
  <2> QED
    BY <1>3, <1>10, <2>1
<1> QED
  BY <1>9, <1>11 DEF p, x

LEMMA VectorVerified ==
  ASSUME NEW b, NEW a, Whole(b, a), NEW d, d < Len(b), NEW offs, VectorIs(b, d, offs)
  PROVE  /\ VerifyVector(b, Len(b) - d, 4) /\ Length(b, Len(b) - d) = Len(offs)
         /\ \A j \in 1 .. Len(offs) : Element(b, Len(b) - d, j - 1) = Len(b) - offs[j]
<1> DEFINE x == Len(b)
           n == Len(offs)
           m == 4 * n
           p == x - d
<1>1. /\ d \in Nat /\ d % 4 = 0 /\ offs \in Seq(Nat) /\ 4 + m <= d
      /\ Stands(b, d, LittleEndian(n, 4))
      /\ \A j \in 1 .. n : /\ offs[j] # 0 /\ offs[j] + 4 <= d - 4 * j
                           /\ Offset(b, d - 4 * j, offs[j])
  BY DEF VectorIs
<1>2. /\ b \in Seq(Byte) /\ x \in Nat /\ x < MaxSize /\ MaxSize \in Nat /\ p % 4 = 0
  <2>1. d <= Len(b)
    BY <1>1, WholeFacts
  <2> QED
    BY <1>1, <2>1, WholeFacts
<1>3. n \in Nat
  BY <1>1
<1>4. m \in Nat /\ n <= m /\ m = 4 * n
  <2> HIDE DEF n
  <2> QED
    BY <1>3
<1> HIDE DEF n, m
<1>5. /\ n <= MaxSize /\ p \in Nat /\ p <= x - 4 /\ 4 < x /\ 4 + m < x /\ p <= x - (4 + m)
      /\ m + 4 <= MaxSize
  <2>1. /\ d \in Nat /\ n \in Nat /\ m \in Nat /\ x \in Nat /\ MaxSize \in Nat /\ x < MaxSize
        /\ d < x /\ n <= m /\ 4 + m <= d
    BY <1>1, <1>2, <1>3, <1>4
  <2> HIDE DEF x
  <2> QED
    BY <2>1
<1>6. Length(b, p) = n
  <2>1. Signed32(n)
    BY <1>2, <1>3, <1>5 DEF Signed32
  <2>2. I32(b, Len(b) - d) = n
    BY <1>1, <1>2, <2>1, Read32
  <2> QED
    BY <2>2 DEF Length
<1>7. n < MaxSize \div 4
  <2>1. \A y, z \in Nat : 4 * y + 4 <= z => y < z \div 4
    BY SMT
  <2> QED
    BY <1>2, <1>3, <1>4, <1>5, <2>1
<1>8. VerifyVector(b, p, 4)
  <2>1. FitsAligned(b, p, 4)
    BY <1>2, <1>5 DEF FitsAligned, Fits
  <2>2. Fits(b, p, 4 + 4 * n)
    BY <1>4, <1>5 DEF Fits
  <2> QED
    BY <1>3, <1>6, <1>7, <2>1, <2>2 DEF VerifyVector
<1>9. ASSUME NEW j \in 1 .. n PROVE Element(b, p, j - 1) = x - offs[j]
  <2> DEFINE e == d - 4 * j
             off == offs[j]
  <2>1. off \in Nat
    <3>1. j \in 1 .. Len(offs)
      BY DEF n
    <3> QED
      BY <1>1, <3>1
  <2>2. off # 0 /\ off + 4 <= e /\ Stands(b, e, LittleEndian(e - off, 4))
    BY <1>1 DEF Offset
  <2> HIDE DEF off
  <2>3. e \in Nat /\ e <= x /\ e % 4 = 0
    <3>1. \A y, z \in Nat : y % 4 = 0 => (y - 4 * z) % 4 = 0
      BY SMT
    <3>2. e % 4 = 0
      BY <1>1, <1>3, <3>1
    <3>3. j \in Nat /\ d \in Nat /\ x \in Nat /\ d < x
      BY <1>1, <1>2, <1>3
    <3> HIDE DEF x
    <3>4. e \in Int /\ e <= x
      BY <3>3
    <3> HIDE DEF e
    <3> QED
      BY <2>1, <2>2, <3>2, <3>4
  <2>4. p + 4 + 4 * (j - 1) = x - e
    <3>1. j \in Nat /\ d \in Nat /\ x \in Nat
      BY <1>1, <1>2, <1>3
    <3> HIDE DEF x
    <3> QED
      BY <3>1
  <2> HIDE DEF e
  <2>5. Target(b, Len(b) - e) = Len(b) - off
    BY <2>1, <2>2, <2>3, DistanceVerified
  <2> QED
    BY <2>4, <2>5 DEF Element, off
<1> QED
  BY <1>6, <1>8, <1>9 DEF p, x, n

LEMMA TableVerified ==
  ASSUME NEW b, NEW a, Whole(b, a), NEW top, top < Len(b), NEW table, NEW args,
         DOMAIN table.fields \subseteq Nat, TableIs(b, a, top, table, args),
         VTableFits(b, Len(b) - top)
  PROVE  VerifyTableStart(b, Len(b) - top)
<1> DEFINE x == Len(b)
           t == x - top
<1>1. top \in Nat /\ top % 4 = 0 /\ 4 <= top /\ top <= x
  BY DEF TableIs
<1>2. /\ b \in Seq(Byte) /\ x \in Nat /\ t % 4 = 0
  BY <1>1, WholeFacts
<1>3. PICK v \in Nat, size \in Nat :
        /\ VTable(b, t) = x - v
        /\ Even(v) /\ Even(size) /\ 4 <= size /\ size <= v /\ v <= x
        /\ U16(b, x - v) = size
  BY <1>2, TableRead
<1>4. (x - v) % 2 = 0 /\ size % 2 = 0
  <2>1. v % 2 = 0 /\ size % 2 = 0
    BY <1>3 DEF Even
  <2> QED
    BY <1>3, <2>1, WholeFacts
<1>5. size < x
  BY <1>3 DEF VTableFits
<1> HIDE DEF x
<1>6. FitsAligned(b, t, 4)
  <2>1. 4 < x /\ 0 <= t /\ t <= x - 4
    BY <1>1, <1>2 DEF x
  <2> QED
    BY <1>2, <2>1 DEF FitsAligned, Fits, x
<1>7. FitsAligned(b, x - v, 2) /\ Fits(b, x - v, size)
  <2>1. 2 < x /\ 0 <= x - v /\ x - v <= x - 2 /\ x - v <= x - size
    BY <1>2, <1>3, <1>5
  <2> QED
    BY <1>4, <1>5, <2>1 DEF FitsAligned, Fits, x
<1> HIDE DEF t
<1> QED
  BY <1>3, <1>4, <1>6, <1>7 DEF VerifyTableStart, t, x

LEMMA ScalarFound ==
  ASSUME NEW b, NEW a, Whole(b, a), NEW top \in Nat, top <= Len(b), NEW field, IsScalar(field),
         NEW width \in Alignments, FieldSize(field) = width, NEW arg \in Nat, NEW i,
         FieldFound(b, a, top, field, i, arg)
  PROVE  /\ VerifyField(b, Len(b) - top, i, width)
         /\ ScalarValue(b, Len(b) - top, i, width) = LittleEndian(arg, width)
<1> DEFINE x == Len(b)
           t == x - top
           s == LittleEndian(arg, width)
           place == FieldOffset(b, t, i)
<1>1. width \in Nat /\ 1 <= width /\ x \in Nat /\ b \in Seq(Byte)
  BY WholeFacts, EightNat
<1>2. s \in Seq(Byte) /\ Len(s) = width /\ s \in [1 .. width -> Byte]
  <2>1. arg \in Int
    OBVIOUS
  <2> QED
    BY <1>1, <2>1, LittleEndianType
<1>3. s = [k \in 1 .. width |-> s[k]]
  <2> HIDE DEF s
  <2> QED
    BY <1>2
<1>4. CASE place = 0 /\ IsDefault(field, arg)
  <2>1. ~Holds(b, t, i)
    BY <1>4 DEF Holds
  <2>2. ScalarValue(b, t, i, width) = [k \in 1 .. width |-> 0]
    BY <2>1 DEF ScalarValue
  <2>3. s = Zeros(width)
    BY <1>4 DEF IsDefault
  <2> QED
    BY <2>1, <2>2, <2>3 DEF VerifyField, Zeros
<1>5. CASE ~(place = 0 /\ IsDefault(field, arg))
  <2>1. PICK off \in Nat :
          /\ place = top - off
          /\ off + 4 <= top /\ FieldIs(b, off, field, arg) /\ FieldSize(field) <= a
    BY <1>5 DEF FieldFound
  <2>2. off % width = 0 /\ width <= a /\ Stands(b, off, s)
    BY <2>1 DEF FieldIs, FieldBytes
  <2> DEFINE p == t + place
  <2> HIDE DEF place
  <2>3. p = x - off /\ place # 0 /\ off <= x
    BY <1>1, <2>1
  <2>4. Holds(b, t, i)
    BY <2>3 DEF Holds, place
  <2>5. (x - off) % width = 0
    BY <2>2, <2>3, WholeFacts
  <2>6. width <= off
    BY <1>2, <2>2 DEF Stands
  <2> HIDE DEF x, s
  <2>7. FitsAligned(b, x - off, width)
    <3>1. width < x /\ 0 <= x - off /\ x - off <= x - width
      <4>1. off + 4 <= x
        BY <1>1, <2>1 DEF x
      <4> QED
        BY <1>1, <2>6, <4>1
    <3> QED
      BY <2>5, <3>1 DEF FitsAligned, Fits, x
  <2>8. ASSUME NEW k \in 1 .. width PROVE At(b, p + k - 1) = s[k]
    <3>1. k \in 1 .. Len(s)
      BY <1>2
    <3>2. At(b, x - off + k - 1) = s[k]
      BY <1>1, <1>2, <2>2, <3>1, StandsAt DEF x
    <3> QED
      BY <2>3, <3>2
  <2>9. ScalarValue(b, t, i, width) = [k \in 1 .. width |-> At(b, p + k - 1)]
    BY <2>4 DEF ScalarValue, place
  <2> HIDE DEF p
  <2>10. ScalarValue(b, t, i, width) = s
    BY <1>3, <2>8, <2>9
  <2>11. VerifyField(b, t, i, width)
    BY <2>3, <2>7 DEF VerifyField, p, place
  <2> QED
    BY <2>10, <2>11 DEF s, x
<1> QED
  BY <1>4, <1>5

LEMMA PointerFound ==
  ASSUME NEW b, NEW a, Whole(b, a), NEW top \in Nat, top <= Len(b), NEW field, ~IsScalar(field),
         NEW arg \in Nat, arg # 0, NEW i, FieldFound(b, a, top, field, i, arg)
  PROVE  /\ Holds(b, Len(b) - top, i) /\ VerifyOffset(b, Len(b) - top, i)
         /\ Pointer(b, Len(b) - top, i) = Len(b) - arg
         /\ arg + 8 <= top
<1> DEFINE x == Len(b)
           t == x - top
           place == FieldOffset(b, t, i)
<1>1. x \in Nat
  BY WholeFacts
<1>2. PICK off \in Nat :
        place = top - off /\ off + 4 <= top /\ FieldIs(b, off, field, arg)
  BY DEF FieldFound, IsDefault
<1>3. off % 4 = 0 /\ arg + 4 <= off /\ Stands(b, off, LittleEndian(off - arg, 4))
  BY <1>2 DEF FieldIs, FieldBytes, FieldSize
<1> HIDE DEF place
<1>4. t + place = x - off /\ place # 0 /\ off <= x
  BY <1>1, <1>2
<1>5. VerifyDistance(b, Len(b) - off) /\ Target(b, Len(b) - off) = Len(b) - arg
  BY <1>3, <1>4, DistanceVerified
<1>6. Holds(b, t, i)
  BY <1>4 DEF Holds, place
<1>7. arg + 8 <= top
  <2>1. off + 4 <= top /\ arg + 4 <= off
    BY <1>2, <1>3
  <2> QED
    BY <2>1
<1> QED
  BY <1>4, <1>5, <1>6, <1>7 DEF VerifyOffset, Pointer, place

------------------------------------------------------------------------------
(* By the calls of the message.                                             *)

Placed(b, made, k) == Len(b) - made[k]

\* What a call has made, as the functions of the receiver see it.
LEMMA ComposedFacts ==
  ASSUME NEW b, NEW a, NEW made, NEW calls, Composed(b, a, made, calls),
         NEW k \in 1 .. Len(calls) - 1
  PROVE  /\ Whole(b, a) /\ made[k] \in Nat /\ made[k] # 0 /\ made[k] < Len(b)
         /\ CallIs(b, a, made, calls[k], made[k])
         /\ calls[k].call = "Create" => VTableFits(b, Len(b) - made[k])
<1>1. made \in Seq(Nat) /\ Len(made) = Len(calls)
  BY DEF Composed
<1>2. Len(calls) \in Nat
  BY <1>1
<1>3. k \in 1 .. Len(made)
  BY <1>1, <1>2
<1>4. made[k] \in Nat
  BY <1>1, <1>3
<1> QED
  BY <1>4 DEF Composed, Whole

LEMMA StringMade ==
  ASSUME NEW b, NEW a, NEW made, NEW calls, Composed(b, a, made, calls), RightCalls(calls),
         NEW k \in 1 .. Len(calls) - 1, calls[k].call = "CreateString"
  PROVE  /\ VerifyString(b, Placed(b, made, k))
         /\ StringValue(b, Placed(b, made, k)) = calls[k].string
<1>1. /\ Whole(b, a) /\ made[k] \in Nat /\ made[k] < Len(b)
      /\ CallIs(b, a, made, calls[k], made[k])
  BY ComposedFacts
<1>2. calls[k].string \in Seq(1 .. 255)
  BY DEF RightCalls, RightCall, RightString, RightCreate, RightVector, SmallString
<1>3. StringIs(b, made[k], calls[k].string)
  BY <1>1 DEF CallIs
<1>4. made[k] <= Len(b)
  BY <1>1, WholeFacts
<1> QED
  BY <1>1, <1>2, <1>3, <1>4, StringVerified DEF Placed

LEMMA VectorMade ==
  ASSUME NEW b, NEW a, NEW made, NEW calls, Composed(b, a, made, calls), RightCalls(calls),
         NEW k \in 1 .. Len(calls) - 1, calls[k].call = "CreateVector"
  PROVE  LET p == Placed(b, made, k)
             offs == calls[k].elements
         IN  /\ VerifyVector(b, p, 4) /\ Length(b, p) = Len(offs)
             /\ offs \in Seq(1 .. k - 1)
             /\ \A j \in 1 .. Len(offs) : CalledFor("Player", calls[offs[j]])
             /\ \A j \in 1 .. Len(offs) : Element(b, p, j - 1) = Placed(b, made, offs[j])
<1> DEFINE offs == calls[k].elements
           w == Elements(calls[k], made)
<1>1. /\ Whole(b, a) /\ made[k] \in Nat /\ made[k] < Len(b)
      /\ CallIs(b, a, made, calls[k], made[k])
  BY ComposedFacts
<1>2. offs \in Seq(1 .. k - 1) /\ \A j \in 1 .. Len(offs) : CalledFor("Player", calls[offs[j]])
  BY DEF RightCalls, RightCall, RightString, RightCreate, RightVector
<1>3. VectorIs(b, made[k], w)
  BY <1>1 DEF CallIs
<1>4. w = [j \in DOMAIN offs |-> made[offs[j]]]
  BY DEF Elements
<1> HIDE DEF offs, w
<1>5. Len(w) = Len(offs) /\ \A j \in 1 .. Len(offs) : w[j] = made[offs[j]]
  <2>1. DOMAIN offs = 1 .. Len(offs) /\ Len(offs) \in Nat
    BY <1>2
  <2> QED
    BY <1>4, <2>1
<1>6. /\ VerifyVector(b, Len(b) - made[k], 4) /\ Length(b, Len(b) - made[k]) = Len(w)
      /\ \A j \in 1 .. Len(w) : Element(b, Len(b) - made[k], j - 1) = Len(b) - w[j]
  BY <1>1, <1>3, VectorVerified
<1> QED
  BY <1>2, <1>5, <1>6 DEF Placed, offs

\* A field of a table that the k-th call has made leads to its argument.
FieldMade(b, made, calls, k, i) ==
  LET field == Fields(calls[k].table)[i]
      t == Placed(b, made, k)
      arg == calls[k].args[i]
  IN  IF IsScalar(field)
        THEN field.type \in ScalarTypes =>
               /\ VerifyField(b, t, i, Width[field.type])
               /\ ScalarValue(b, t, i, Width[field.type]) = LittleEndian(arg, Width[field.type])
        ELSE /\ arg \in 1 .. k - 1 /\ CalledFor(field.type, calls[arg])
             /\ made[arg] + 8 <= made[k]
             /\ Holds(b, t, i) /\ VerifyOffset(b, t, i)
             /\ Pointer(b, t, i) = Placed(b, made, arg)

LEMMA ArgumentIs ==
  ASSUME NEW c, NEW made, c.table \in DOMAIN Schema, NEW i \in DOMAIN c.args
  PROVE  /\ IsScalar(Fields(c.table)[i]) => Arguments(c, made)[i] = c.args[i]
         /\ ~IsScalar(Fields(c.table)[i]) /\ c.args[i] # 0 =>
              Arguments(c, made)[i] = made[c.args[i]]
<1>1. Layout(c.table).fields = Fields(c.table)
  BY LayoutIs
<1>2. Arguments(c, made)[i] =
        IF IsScalar(Layout(c.table).fields[i]) \/ c.args[i] = 0 THEN c.args[i] ELSE made[c.args[i]]
  BY DEF Arguments
<1> QED
  BY <1>1, <1>2

LEMMA CreateMade ==
  ASSUME NEW b, NEW a, NEW made, NEW calls, Composed(b, a, made, calls), RightCalls(calls),
         NEW k \in 1 .. Len(calls) - 1, calls[k].call = "Create"
  PROVE  /\ calls[k].table \in DOMAIN Schema
         /\ VerifyTableStart(b, Placed(b, made, k))
         /\ 4 <= made[k]
         /\ \A i \in DOMAIN Fields(calls[k].table) :
              FieldMade(b, made, calls, k, i)
<1> DEFINE c == calls[k]
           table == c.table
           top == made[k]
           args == Arguments(c, made)
           f == Fields(table)
<1>1. /\ Whole(b, a) /\ top \in Nat /\ top < Len(b) /\ VTableFits(b, Len(b) - top)
      /\ CallIs(b, a, made, c, top)
  BY ComposedFacts
<1>2. RightCreate(calls, k)
  BY DEF RightCalls, RightCall, RightString, RightVector
<1>3. /\ table \in DOMAIN Schema /\ DOMAIN c.args = DOMAIN f
      /\ \A i \in DOMAIN f : RightArgument(calls, k, f[i], c.args[i])
  BY <1>2 DEF RightCreate
<1>4. TableIs(b, a, top, Schema[table], args)
  BY <1>1 DEF CallIs
<1> HIDE DEF c, args
<1>5. f = Schema[table].fields /\ DOMAIN f \subseteq Nat /\ \A i \in DOMAIN f : RightField(f[i])
  BY <1>3, LayoutIs
<1>6. VerifyTableStart(b, Len(b) - top) /\ 4 <= top
  <2>1. 4 <= top
    BY <1>4 DEF TableIs
  <2> HIDE DEF f, top
  <2> QED
    BY <1>1, <1>4, <1>5, <2>1, TableVerified
<1>7. \A i \in DOMAIN f : FieldFound(b, a, top, f[i], i, args[i])
  <2>1. b \in Seq(Byte)
    BY <1>1, WholeFacts
  <2> HIDE DEF f, top
  <2> QED
    BY <1>4, <1>5, <2>1, TableRead
<1>8. top <= Len(b)
  BY <1>1, WholeFacts
<1>9. ASSUME NEW i \in DOMAIN f PROVE FieldMade(b, made, calls, k, i)
  <2> DEFINE field == f[i]
             arg == c.args[i]
             t == Len(b) - top
  <2>1. /\ RightArgument(calls, k, field, arg) /\ FieldFound(b, a, top, field, i, args[i])
        /\ i \in DOMAIN c.args /\ RightField(field)
    BY <1>3, <1>5, <1>7
  <2>2. /\ IsScalar(field) => args[i] = arg
        /\ ~IsScalar(field) /\ arg # 0 => args[i] = made[arg]
    BY <1>3, <2>1, ArgumentIs DEF args
  <2>3. t = Placed(b, made, k)
    BY DEF Placed
  <2> HIDE DEF t, field, arg, top
  <2>4. CASE IsScalar(field)
    <3>1. ASSUME field.type \in ScalarTypes
          PROVE  /\ VerifyField(b, t, i, Width[field.type])
                 /\ ScalarValue(b, t, i, Width[field.type]) = LittleEndian(arg, Width[field.type])
      <4>1. Width[field.type] \in Alignments /\ FieldSize(field) = Width[field.type]
        BY <2>4, <3>1, ScalarSizes DEF FieldSize
      <4>2. arg \in Nat
        BY <2>1, <2>4 DEF RightArgument
      <4>3. FieldFound(b, a, top, field, i, arg)
        BY <2>1, <2>2, <2>4
      <4> DEFINE width == Width[field.type]
      <4> HIDE DEF width
      <4>4. width \in Alignments /\ FieldSize(field) = width
        BY <4>1 DEF width
      <4>5. VerifyField(b, t, i, width) /\ ScalarValue(b, t, i, width) = LittleEndian(arg, width)
        BY <1>1, <1>8, <2>4, <4>2, <4>3, <4>4, ScalarFound DEF t
      <4> QED
        BY <4>5 DEF width
    <3> QED
      BY <2>3, <2>4, <3>1 DEF FieldMade, field, arg, f, c
  <2>5. CASE ~IsScalar(field)
    <3>1. arg \in 1 .. k - 1 /\ CalledFor(field.type, calls[arg])
      BY <2>1, <2>5 DEF RightArgument
    <3>2. Len(calls) \in Nat /\ arg # 0 /\ arg \in 1 .. Len(calls) - 1
      <4>1. Len(calls) \in Nat
        BY DEF RightCalls
      <4> QED
        BY <3>1, <4>1
    <3>3. made[arg] \in Nat /\ made[arg] # 0
      BY <3>2, ComposedFacts
    <3>4. FieldFound(b, a, top, field, i, made[arg])
      BY <2>1, <2>2, <2>5, <3>2
    <3>5. /\ Holds(b, t, i) /\ VerifyOffset(b, t, i)
          /\ Pointer(b, t, i) = Len(b) - made[arg]
          /\ made[arg] + 8 <= top
      BY <1>1, <1>8, <2>5, <3>3, <3>4, PointerFound DEF t
    <3>6. Pointer(b, t, i) = Placed(b, made, arg)
      BY <3>5 DEF Placed
    <3> QED
      BY <2>3, <2>5, <3>1, <3>5, <3>6 DEF FieldMade, field, arg, f, c, top
  <2> QED
    BY <2>4, <2>5
<1> QED
  BY <1>3, <1>6, <1>9 DEF Placed, c

LEMMA NoScalars ==
  \A field : field.type \in {"string", "Player", "[Player]", "Payload"} => ~IsScalar(field)
BY DEF IsScalar, SizeOf

LEMMA LeafVerified ==
  ASSUME NEW b, NEW a, NEW made, NEW calls, Composed(b, a, made, calls), RightCalls(calls),
         NEW k \in 1 .. Len(calls) - 1, calls[k].call = "Create",
         NEW i \in DOMAIN Fields(calls[k].table)
  PROVE  VerifyLeaf(b, Placed(b, made, k), i, Fields(calls[k].table)[i])
<1> DEFINE field == Fields(calls[k].table)[i]
           t == Placed(b, made, k)
           arg == calls[k].args[i]
<1>1. calls[k].table \in DOMAIN Schema /\ FieldMade(b, made, calls, k, i)
  BY CreateMade
<1>2. RightField(field)
  BY <1>1, LayoutIs
<1>3. field.type \in ScalarTypes => IsScalar(field)
  BY ScalarSizes DEF IsScalar
<1>4. ~IsScalar(field) =>
        /\ arg \in 1 .. k - 1 /\ CalledFor(field.type, calls[arg])
        /\ Holds(b, t, i) /\ VerifyOffset(b, t, i)
        /\ Pointer(b, t, i) = Placed(b, made, arg)
  BY <1>1 DEF FieldMade
<1>5. IsScalar(field) /\ field.type \in ScalarTypes => VerifyField(b, t, i, Width[field.type])
  BY <1>1 DEF FieldMade
<1> HIDE DEF field, t, arg
<1>6. field.required => Holds(b, t, i)
  BY <1>2, <1>4 DEF RightField
<1>7. ASSUME field.type = "string"
      PROVE  VerifyOffset(b, t, i) /\ VerifyString(b, Pointer(b, t, i))
  <2>1. ~IsScalar(field)
    BY <1>7, NoScalars
  <2>2. arg \in 1 .. k - 1 /\ CalledFor("string", calls[arg]) /\ VerifyOffset(b, t, i)
        /\ Pointer(b, t, i) = Placed(b, made, arg)
    BY <1>4, <1>7, <2>1
  <2>3. Len(calls) \in Nat
    BY DEF RightCalls
  <2>4. arg \in 1 .. Len(calls) - 1 /\ calls[arg].call = "CreateString"
    BY <2>2, <2>3 DEF CalledFor
  <2>5. VerifyString(b, Placed(b, made, arg))
    BY <2>4, StringMade
  <2> QED
    BY <2>2, <2>5
<1> QED
  BY <1>3, <1>5, <1>6, <1>7 DEF VerifyLeaf, field, t

LEMMA PlayerVerified ==
  ASSUME NEW b, NEW a, NEW made, NEW calls, Composed(b, a, made, calls), RightCalls(calls),
         NEW k \in 1 .. Len(calls) - 1, CalledFor("Player", calls[k])
  PROVE  VerifyPlayer(b, Placed(b, made, k))
<1>1. calls[k].call = "Create" /\ calls[k].table = "Player"
  BY DEF CalledFor
<1>2. VerifyTableStart(b, Placed(b, made, k))
  BY <1>1, CreateMade
<1>3. \A i \in DOMAIN Fields("Player") : VerifyLeaf(b, Placed(b, made, k), i, Fields("Player")[i])
  BY <1>1, LeafVerified
<1> QED
  BY <1>2, <1>3 DEF VerifyPlayer

LEMMA PlayersVerified ==
  ASSUME NEW b, NEW a, NEW made, NEW calls, Composed(b, a, made, calls), RightCalls(calls),
         NEW k \in 1 .. Len(calls) - 1, calls[k].call = "CreateVector"
  PROVE  VerifyPlayers(b, Placed(b, made, k))
<1> DEFINE p == Placed(b, made, k)
           offs == calls[k].elements
<1>1. /\ VerifyVector(b, p, 4) /\ Length(b, p) = Len(offs)
      /\ offs \in Seq(1 .. k - 1)
      /\ \A j \in 1 .. Len(offs) : CalledFor("Player", calls[offs[j]])
      /\ \A j \in 1 .. Len(offs) : Element(b, p, j - 1) = Placed(b, made, offs[j])
  BY VectorMade
<1> HIDE DEF p, offs
<1>2. ASSUME NEW l \in 0 .. Length(b, p) - 1 PROVE VerifyPlayer(b, Element(b, p, l))
  <2> DEFINE j == l + 1
  <2>1. Len(offs) \in Nat /\ Len(calls) \in Nat
    BY <1>1 DEF RightCalls
  <2>2. j \in 1 .. Len(offs) /\ j - 1 = l
    BY <1>1, <2>1
  <2> HIDE DEF j
  <2>3. CalledFor("Player", calls[offs[j]]) /\ Element(b, p, l) = Placed(b, made, offs[j])
    BY <1>1, <2>2
  <2>4. offs[j] \in 1 .. k - 1
    <3>1. j \in DOMAIN offs
      BY <1>1, <2>2
    <3> QED
      BY <1>1, <3>1, InSeq
  <2>5. offs[j] \in 1 .. Len(calls) - 1
    BY <2>1, <2>4
  <2> QED
    BY <2>3, <2>5, PlayerVerified
<1> QED
  BY <1>1, <1>2 DEF VerifyPlayers, p

LEMMA BodyFieldVerified ==
  ASSUME NEW b, NEW a, NEW made, NEW calls, Composed(b, a, made, calls), RightCalls(calls),
         NEW k \in 1 .. Len(calls) - 1, calls[k].call = "Create",
         NEW i \in DOMAIN Fields(calls[k].table)
  PROVE  VerifyBodyField(b, Placed(b, made, k), i, Fields(calls[k].table)[i])
<1> DEFINE field == Fields(calls[k].table)[i]
           t == Placed(b, made, k)
           arg == calls[k].args[i]
<1>1. FieldMade(b, made, calls, k, i)
  BY CreateMade
<1>2. ~IsScalar(field) =>
        /\ arg \in 1 .. k - 1 /\ CalledFor(field.type, calls[arg])
        /\ Holds(b, t, i) /\ VerifyOffset(b, t, i)
        /\ Pointer(b, t, i) = Placed(b, made, arg)
  BY <1>1 DEF FieldMade
<1>3. VerifyLeaf(b, t, i, field)
  BY LeafVerified
<1> HIDE DEF field, t, arg
<1>4. ASSUME field.type \in {"Player", "[Player]"}
      PROVE  /\ VerifyOffset(b, t, i)
             /\ arg \in 1 .. Len(calls) - 1 /\ CalledFor(field.type, calls[arg])
             /\ Pointer(b, t, i) = Placed(b, made, arg)
  <2>1. ~IsScalar(field)
    BY <1>4, NoScalars
  <2>2. Len(calls) \in Nat
    BY DEF RightCalls
  <2>3. arg \in 1 .. k - 1
    BY <1>2, <2>1
  <2>4. arg \in 1 .. Len(calls) - 1
    BY <2>2, <2>3
  <2> QED
    BY <1>2, <2>1, <2>4
<1>5. ASSUME field.type = "Player" PROVE VerifyPlayer(b, Pointer(b, t, i))
  BY <1>4, <1>5, PlayerVerified
<1>6. ASSUME field.type = "[Player]" PROVE VerifyPlayers(b, Pointer(b, t, i))
  <2>1. calls[arg].call = "CreateVector"
    BY <1>4, <1>6 DEF CalledFor
  <2> QED
    BY <1>4, <1>6, <2>1, PlayersVerified
<1> QED
  BY <1>3, <1>4, <1>5, <1>6 DEF VerifyBodyField, field, t

LEMMA BodyVerified ==
  ASSUME NEW b, NEW a, NEW made, NEW calls, Composed(b, a, made, calls), RightCalls(calls),
         NEW k \in 1 .. Len(calls) - 1, calls[k].call = "Create"
  PROVE  VerifyBody(b, calls[k].table, Placed(b, made, k))
<1>1. VerifyTableStart(b, Placed(b, made, k))
  BY CreateMade
<1> QED
  BY <1>1, BodyFieldVerified DEF VerifyBody

------------------------------------------------------------------------------
(* The envelope.                                                            *)

LEMMA RootIs ==
  ASSUME NEW b, NEW a, NEW made, NEW calls, Composed(b, a, made, calls), RightCalls(calls)
  PROVE  /\ VerifyDistance(b, 0)
         /\ Root(b) = Placed(b, made, Len(calls) - 1)
         /\ made[Len(calls) - 1] + 4 <= Len(b)
<1> DEFINE l == Len(calls) - 1
           x == Len(b)
           root == made[l]
<1>1. l \in 1 .. Len(calls) - 1
  BY DEF RightCalls
<1>2. root \in Nat /\ root # 0 /\ Whole(b, a)
  BY <1>1, ComposedFacts
<1>3. root + 4 <= x /\ Stands(b, x, LittleEndian(x - root, 4))
  BY DEF Composed
<1>4. x \in Nat /\ x <= x /\ x % 4 = 0 /\ x - x = 0
  <2>1. x \in Nat
    BY <1>2, WholeFacts
  <2>2. 0 \in Nat /\ 0 % 4 = 0 /\ 0 <= x /\ x - 0 = x
    BY <2>1
  <2>3. (x - 0) % 4 = 0
    BY <1>2, <2>2, WholeFacts
  <2> HIDE DEF x
  <2> QED
    BY <2>1, <2>2, <2>3
<1> HIDE DEF root
<1>5. VerifyDistance(b, x - x) /\ Target(b, x - x) = x - root
  BY <1>2, <1>3, <1>4, DistanceVerified
<1> QED
  BY <1>3, <1>4, <1>5 DEF Root, Placed, root

LEMMA OneByte ==
  ASSUME NEW n \in 1 .. 15
  PROVE  LittleEndian(n, 1)[1] = n
<1>1. LittleEndian(n, 1)[1] = n % 256
  BY DEF LittleEndian
<1>2. n % 256 = n
  OBVIOUS
<1> QED
  BY <1>1, <1>2

\* What the receiver finds in the envelope.
Delivered(b, calls, made, n) ==
  /\ VerifyMessageEnvelopeBuffer(b)
  /\ BodyType(b, Root(b)) = calls[n + 1].args[2]
  /\ Holds(b, Root(b), 3)
  /\ Pointer(b, Root(b), 3) = Placed(b, made, n)

LEMMA EnvelopeDelivered ==
  ASSUME NEW b, NEW a, NEW made, NEW m, RightMessage(m), Composed(b, a, made, m.calls)
  PROVE  Delivered(b, m.calls, made, Len(m.calls) - 2)
<1> DEFINE calls == m.calls
           n == Len(calls) - 2
           k == n + 1
           t == Placed(b, made, k)
           c == calls[k]
<1>1. RightCalls(calls) /\ Composed(b, a, made, calls)
  BY DEF RightMessage
<1>2. /\ calls[n].call = "Create" /\ c.call = "Create" /\ c.table = "MessageEnvelope"
      /\ c.args[2] \in DOMAIN Payload /\ Payload[c.args[2]] = calls[n].table /\ c.args[3] = n
  BY DEF RightMessage
<1>3. /\ Len(calls) \in Nat /\ n \in 1 .. Len(calls) - 1 /\ k \in 1 .. Len(calls) - 1
      /\ k = Len(calls) - 1
  BY <1>1 DEF RightCalls
<1> HIDE DEF calls, n
<1>4. VerifyDistance(b, 0) /\ Root(b) = t /\ made[k] + 4 <= Len(b)
  BY <1>1, <1>3, RootIs
<1>5. /\ VerifyTableStart(b, t)
      /\ \A i \in DOMAIN Fields("MessageEnvelope") : FieldMade(b, made, calls, k, i)
  BY <1>1, <1>2, <1>3, CreateMade
<1>6. 4 <= made[n] /\ made[n] \in Nat /\ made[k] \in Nat /\ Whole(b, a)
  BY <1>1, <1>2, <1>3, CreateMade, ComposedFacts
<1> HIDE DEF k
<1>7. FieldMade(b, made, calls, k, 1) /\ FieldMade(b, made, calls, k, 2) /\ FieldMade(b, made, calls, k, 3)
  BY <1>5, EnvelopeFields
<1>8. VerifyField(b, t, 1, 8)
  BY <1>2, <1>7, EnvelopeFields DEF FieldMade, ScalarTypes, Width
<1>9. VerifyField(b, t, 2, 1) /\ ScalarValue(b, t, 2, 1) = LittleEndian(c.args[2], 1)
  BY <1>2, <1>7, EnvelopeFields DEF FieldMade, ScalarTypes, Width
<1>10. /\ made[n] + 8 <= made[k] /\ Holds(b, t, 3) /\ VerifyOffset(b, t, 3)
       /\ Pointer(b, t, 3) = Placed(b, made, n)
  BY <1>2, <1>7, EnvelopeFields DEF FieldMade
<1>11. BodyType(b, t) = c.args[2]
  BY <1>2, <1>9, OneByte, PayloadNumbers DEF BodyType
<1>12. VerifyBody(b, calls[n].table, Placed(b, made, n))
  BY <1>1, <1>2, <1>3, BodyVerified
<1>13. VerifyMessageEnvelope(b, t)
  BY <1>2, <1>5, <1>8, <1>9, <1>10, <1>11, <1>12 DEF VerifyMessageEnvelope, VerifyPayload
<1>14. Len(b) >= MinSize
  <2>1. Len(b) \in Nat
    BY <1>6, WholeFacts
  <2> QED
    BY <1>4, <1>6, <1>10, <2>1 DEF MinSize
<1> QED
  BY <1>4, <1>10, <1>11, <1>13, <1>14 DEF Delivered, VerifyMessageEnvelopeBuffer, k, n, calls

------------------------------------------------------------------------------
(* What the accessors return.                                               *)

\* The accessor of this field returns the value.
Gives(b, e, value) ==
  \/ Type(e) \in ScalarTypes /\ value = ScalarValue(b, e.place, e.field, Width[Type(e)])
  \/ /\ Type(e) = "string" /\ Holds(b, e.place, e.field)
     /\ value = StringValue(b, Pointer(b, e.place, e.field))

LEMMA FieldGives ==
  ASSUME NEW b, NEW a, NEW made, NEW calls, Composed(b, a, made, calls), RightCalls(calls),
         NEW k \in 1 .. Len(calls) - 1, calls[k].call = "Create",
         NEW i, NEW value, SaysField(calls, calls[k], i, value)
  PROVE  Gives(b, Item(calls[k].table, Placed(b, made, k), i), value)
<1> DEFINE e == Item(calls[k].table, Placed(b, made, k), i)
           field == Fields(calls[k].table)[i]
           t == Placed(b, made, k)
           arg == calls[k].args[i]
<1>1. e.place = t /\ e.field = i /\ Type(e) = field.type
  BY DEF Item, Type
<1>2. i \in DOMAIN Fields(calls[k].table)
  BY DEF SaysField
<1>3. FieldMade(b, made, calls, k, i)
  BY <1>2, CreateMade
<1>4. CASE IsScalar(field)
  <2>1. field.type \in ScalarTypes /\ value = LittleEndian(arg, Width[field.type])
    BY <1>4 DEF SaysField
  <2>2. ScalarValue(b, t, i, Width[field.type]) = LittleEndian(arg, Width[field.type])
    BY <1>3, <1>4, <2>1 DEF FieldMade
  <2> HIDE DEF e, field, t, arg
  <2> QED
    BY <1>1, <2>1, <2>2 DEF Gives, e, t
<1>5. CASE ~IsScalar(field)
  <2>1. field.type = "string" /\ value = calls[arg].string
    BY <1>5 DEF SaysField
  <2>2. /\ arg \in 1 .. k - 1 /\ CalledFor(field.type, calls[arg]) /\ Holds(b, t, i)
        /\ Pointer(b, t, i) = Placed(b, made, arg)
    BY <1>3, <1>5 DEF FieldMade
  <2>3. Len(calls) \in Nat
    BY DEF RightCalls
  <2>4. arg \in 1 .. Len(calls) - 1 /\ calls[arg].call = "CreateString"
    BY <2>1, <2>2, <2>3 DEF CalledFor
  <2>5. StringValue(b, Placed(b, made, arg)) = calls[arg].string
    BY <2>4, StringMade
  <2> HIDE DEF e, field, t, arg
  <2> QED
    BY <1>1, <2>1, <2>2, <2>5 DEF Gives, e, t
<1> QED
  BY <1>4, <1>5

\* A player, which stands before the other fields.
Foremost(b, e) ==
  LET p == Pointer(b, e.place, e.field)
  IN  IF Type(e) = "Player" THEN [i \in DOMAIN Fields("Player") |-> Item("Player", p, i)]
      ELSE [j \in 1 .. 3 * Length(b, p) |->
              Item("Player", Element(b, p, (j - 1) \div 3), ((j - 1) % 3) + 1)]

\* What is yet to be read are the values after the n-th.
Leaves(b, items, says, n) ==
  /\ Len(says) = n + Len(items)
  /\ \A j \in 1 .. Len(items) : Gives(b, items[j], says[n + j])
FrontLeaves(b, items, says, n, front) ==
  /\ Len(says) = n + Len(front) + (Len(items) - 1)
  /\ \A j \in 1 .. Len(front) : Gives(b, front[j], says[n + j])
  /\ \A j \in 2 .. Len(items) : Gives(b, items[j], says[n + Len(front) + (j - 1)])
Yields(b, items, says, n) ==
  \/ Leaves(b, items, says, n)
  \/ /\ Len(items) > 0 /\ Type(items[1]) \in {"Player", "[Player]"}
     /\ Holds(b, items[1].place, items[1].field)
     /\ FrontLeaves(b, items, says, n, Foremost(b, items[1]))

\* The fields of the players that a body leads to.
LEMMA PlayerGives ==
  ASSUME NEW b, NEW a, NEW made, NEW calls, Composed(b, a, made, calls), RightCalls(calls),
         NEW k \in 1 .. Len(calls) - 1, CalledFor("Player", calls[k]),
         NEW i, NEW value, SaysField(calls, calls[k], i, value)
  PROVE  Gives(b, Item("Player", Placed(b, made, k), i), value)
<1>1. calls[k].call = "Create" /\ calls[k].table = "Player"
  BY DEF CalledFor
<1>2. Gives(b, Item(calls[k].table, Placed(b, made, k), i), value)
  BY <1>1, FieldGives
<1> QED
  BY <1>1, <1>2

LEMMA OneOfThree ==
  ASSUME NEW l \in Nat, NEW n \in 1 .. 3 * l
  PROVE  \E i \in 1 .. l, j \in 1 .. 3 :
           n = 3 * (i - 1) + j /\ (n - 1) \div 3 = i - 1 /\ ((n - 1) % 3) + 1 = j
<1> DEFINE i == ((n - 1) \div 3) + 1
           j == ((n - 1) % 3) + 1
<1>1. i \in Nat /\ j \in 1 .. 3 /\ n = 3 * (i - 1) + j /\ 1 <= i
  OBVIOUS
<1>2. (n - 1) \div 3 = i - 1 /\ ((n - 1) % 3) + 1 = j
  BY <1>1
<1> HIDE DEF i, j
<1>3. i <= l
  BY <1>1
<1> QED
  BY <1>1, <1>2, <1>3

\* The players that a list or a single field leads to.
PlayersOf(b, made, p, front) ==
  /\ Len(front) = 3 * Len(p)
  /\ \A i \in 1 .. Len(p), j \in 1 .. 3 :
       front[3 * (i - 1) + j] = Item("Player", Placed(b, made, p[i]), j)

LEMMA FrontOfPlayer ==
  ASSUME NEW b, NEW made, NEW e, Type(e) = "Player", NEW p \in Seq(Nat), Len(p) = 1,
         Pointer(b, e.place, e.field) = Placed(b, made, p[1])
  PROVE  PlayersOf(b, made, p, Foremost(b, e))
<1> DEFINE x == Placed(b, made, p[1])
<1>1. Foremost(b, e) = [i \in 1 .. 3 |-> Item("Player", x, i)]
  BY PlayerLayout DEF Foremost
<1> HIDE DEF x
<1>2. Len(Foremost(b, e)) = 3
  BY <1>1
<1>3. ASSUME NEW i \in 1 .. Len(p), NEW j \in 1 .. 3
      PROVE  Foremost(b, e)[3 * (i - 1) + j] = Item("Player", Placed(b, made, p[i]), j)
  <2>1. i = 1 /\ 3 * (i - 1) + j = j
    OBVIOUS
  <2> QED
    BY <1>1, <2>1 DEF x
<1> QED
  BY <1>2, <1>3 DEF PlayersOf

LEMMA FrontOfPlayers ==
  ASSUME NEW b, NEW made, NEW e, Type(e) = "[Player]", NEW p \in Seq(Nat), NEW x,
         Pointer(b, e.place, e.field) = x, Length(b, x) = Len(p),
         \A j \in 1 .. Len(p) : Element(b, x, j - 1) = Placed(b, made, p[j])
  PROVE  PlayersOf(b, made, p, Foremost(b, e))
<1> DEFINE At3(n) == Item("Player", Element(b, x, (n - 1) \div 3), ((n - 1) % 3) + 1)
<1>1. Foremost(b, e) = [n \in 1 .. 3 * Len(p) |-> At3(n)]
  BY DEF Foremost
<1>2. Len(p) \in Nat
  OBVIOUS
<1>3. Len(Foremost(b, e)) = 3 * Len(p)
  <2> HIDE DEF At3
  <2> QED
    BY <1>1, <1>2
<1>4. ASSUME NEW i \in 1 .. Len(p), NEW j \in 1 .. 3
      PROVE  Foremost(b, e)[3 * (i - 1) + j] = Item("Player", Placed(b, made, p[i]), j)
  <2> DEFINE n == 3 * (i - 1) + j
  <2>1. n \in 1 .. 3 * Len(p) /\ (n - 1) \div 3 = i - 1 /\ ((n - 1) % 3) + 1 = j
    BY <1>2
  <2>2. Element(b, x, i - 1) = Placed(b, made, p[i])
    OBVIOUS
  <2> HIDE DEF n
  <2>3. At3(n) = Item("Player", Placed(b, made, p[i]), j)
    <3> DEFINE q == (n - 1) \div 3
               r == ((n - 1) % 3) + 1
    <3>1. At3(n) = Item("Player", Element(b, x, q), r)
      OBVIOUS
    <3>2. q = i - 1 /\ r = j
      BY <2>1
    <3> HIDE DEF q, r, At3
    <3> QED
      BY <2>2, <3>1, <3>2
  <2> HIDE DEF At3
  <2>4. Foremost(b, e)[n] = At3(n)
    BY <1>1, <2>1
  <2> QED
    BY <2>3, <2>4 DEF n
<1> QED
  BY <1>3, <1>4 DEF PlayersOf

LEMMA PlayersGive ==
  ASSUME NEW b, NEW a, NEW made, NEW calls, Composed(b, a, made, calls), RightCalls(calls),
         NEW p \in Seq(1 .. Len(calls) - 1), NEW says, NEW front, PlayersOf(b, made, p, front),
         \A i \in 1 .. Len(p) : CalledFor("Player", calls[p[i]]),
         \A i \in 1 .. Len(p), j \in 1 .. 3 :
           SaysField(calls, calls[p[i]], j, says[3 * (i - 1) + j]),
         NEW m \in 1 .. Len(front)
  PROVE  Gives(b, front[m], says[m])
<1>1. Len(p) \in Nat /\ Len(front) = 3 * Len(p)
  BY DEF PlayersOf
<1>2. PICK i \in 1 .. Len(p), j \in 1 .. 3 : m = 3 * (i - 1) + j
  <2> DEFINE l == Len(p)
  <2>1. l \in Nat /\ m \in 1 .. 3 * l
    BY <1>1
  <2> HIDE DEF l
  <2>2. \E i \in 1 .. l, j \in 1 .. 3 : m = 3 * (i - 1) + j
    BY <2>1, OneOfThree
  <2> QED
    BY <2>2 DEF l
<1>3. p[i] \in 1 .. Len(calls) - 1
  BY <1>1
<1>4. front[m] = Item("Player", Placed(b, made, p[i]), j)
  BY <1>2 DEF PlayersOf
<1>5. SaysField(calls, calls[p[i]], j, says[m]) /\ CalledFor("Player", calls[p[i]])
  BY <1>2
<1>6. Gives(b, Item("Player", Placed(b, made, p[i]), j), says[m])
  BY <1>3, <1>5, PlayerGives
<1> QED
  BY <1>4, <1>6

\* The items with which the handler of a body begins.
Items(table, place) == [j \in DOMAIN Handler[table] |-> Item(table, place, Handler[table][j])]

LEMMA ItemsAre ==
  ASSUME NEW table \in DOMAIN Handler, NEW place
  PROVE  /\ Len(Items(table, place)) = Len(Handler[table]) /\ Len(Handler[table]) \in Nat
         /\ \A j \in 1 .. Len(Handler[table]) :
              Items(table, place)[j] = Item(table, place, Handler[table][j])
<1>1. Handler[table] \in Seq(Nat)
  BY HandlerFields
<1> DEFINE w == Handler[table]
<1> HIDE DEF w
<1>2. DOMAIN w = 1 .. Len(w) /\ Len(w) \in Nat
  BY <1>1 DEF w
<1>3. Items(table, place) = [j \in 1 .. Len(w) |-> Item(table, place, w[j])]
  BY <1>2 DEF Items, w
<1> QED
  BY <1>2, <1>3 DEF w

LEMMA ListFront ==
  ASSUME NEW b, NEW a, NEW made, NEW calls, Composed(b, a, made, calls), RightCalls(calls),
         NEW k \in 1 .. Len(calls) - 1, calls[k].call = "Create",
         NEW fields, NEW says, NEW p, SaysList(calls, calls[k], fields, says, p),
         NEW e, e = Item(calls[k].table, Placed(b, made, k), fields[1])
  PROVE  /\ Type(e) \in {"Player", "[Player]"} /\ Holds(b, e.place, e.field)
         /\ PlayersOf(b, made, p, Foremost(b, e)) /\ p \in Seq(1 .. Len(calls) - 1)
         /\ \A i \in 1 .. Len(p) : CalledFor("Player", calls[p[i]])
<1> DEFINE i == fields[1]
           field == Fields(calls[k].table)[i]
           t == Placed(b, made, k)
           arg == calls[k].args[i]
<1>1. e.place = t /\ e.field = i /\ Type(e) = field.type
  BY DEF Item, Type
<1>2. i \in DOMAIN Fields(calls[k].table)
  BY DEF SaysList
<1>3. FieldMade(b, made, calls, k, i)
  BY <1>2, CreateMade
<1>4. p \in Seq(Nat)
      /\ \/ field.type = "Player" /\ Len(p) = 1 /\ p[1] = arg
         \/ field.type = "[Player]" /\ calls[arg].elements = p
  BY DEF SaysList
<1>5. Len(calls) \in Nat
  BY DEF RightCalls
<1>6. ~IsScalar(field)
  BY <1>4, NoScalars
<1>7. /\ arg \in 1 .. k - 1 /\ CalledFor(field.type, calls[arg]) /\ Holds(b, t, i)
      /\ Pointer(b, t, i) = Placed(b, made, arg)
  BY <1>3, <1>6 DEF FieldMade
<1>8. arg \in 1 .. Len(calls) - 1
  BY <1>5, <1>7
<1> HIDE DEF field, t, arg, i
<1>9. CASE field.type = "Player" /\ Len(p) = 1 /\ p[1] = arg
  <2>1. PlayersOf(b, made, p, Foremost(b, e))
    BY <1>1, <1>4, <1>7, <1>9, FrontOfPlayer
  <2>2. p \in Seq(1 .. Len(calls) - 1)
    <3> DEFINE S == 1 .. Len(calls) - 1
    <3>1. DOMAIN p = 1 .. 1 /\ \A n \in 1 .. 1 : p[n] \in S
      BY <1>4, <1>8, <1>9
    <3> HIDE DEF S
    <3>2. p \in [1 .. 1 -> S]
      <4>1. p = [n \in DOMAIN p |-> p[n]]
        BY <1>4
      <4> QED
        BY <3>1, <4>1
    <3>3. p \in Seq(S)
      BY <3>2, FunctionIsSeq
    <3> QED
      BY <3>3 DEF S
  <2> QED
    BY <1>1, <1>7, <1>9, <2>1, <2>2
<1>10. CASE field.type = "[Player]" /\ calls[arg].elements = p
  <2>1. calls[arg].call = "CreateVector"
    BY <1>7, <1>10 DEF CalledFor
  <2> DEFINE x == Placed(b, made, arg)
  <2>2. /\ Length(b, x) = Len(p) /\ p \in Seq(1 .. arg - 1)
        /\ \A j \in 1 .. Len(p) : CalledFor("Player", calls[p[j]])
        /\ \A j \in 1 .. Len(p) : Element(b, x, j - 1) = Placed(b, made, p[j])
    BY <1>8, <1>10, <2>1, VectorMade
  <2>3. PlayersOf(b, made, p, Foremost(b, e))
    <3>1. Pointer(b, e.place, e.field) = x
      BY <1>1, <1>7
    <3> HIDE DEF x
    <3> QED
      BY <1>1, <1>4, <1>10, <2>2, <3>1, FrontOfPlayers
  <2>4. p \in Seq(1 .. Len(calls) - 1)
    <3>1. 1 .. arg - 1 \subseteq 1 .. Len(calls) - 1
      BY <1>5, <1>8
    <3> DEFINE S == 1 .. arg - 1
               U == 1 .. Len(calls) - 1
    <3>2. p \in Seq(S) /\ S \subseteq U
      BY <2>2, <3>1
    <3> HIDE DEF S, U
    <3>3. p \in Seq(U)
      BY <3>2, SeqIn
    <3> QED
      BY <3>3 DEF U
  <2> QED
    BY <1>1, <1>7, <1>10, <2>2, <2>3, <2>4
<1> QED
  BY <1>4, <1>9, <1>10

LEMMA BodyYields ==
  ASSUME NEW b, NEW a, NEW made, NEW calls, Composed(b, a, made, calls), RightCalls(calls),
         NEW k \in 1 .. Len(calls) - 1, calls[k].call = "Create", calls[k].table \in DOMAIN Handler,
         NEW says, SaysBody(calls, calls[k], says)
  PROVE  Yields(b, Items(calls[k].table, Placed(b, made, k)), says, 0)
<1> DEFINE table == calls[k].table
           fields == Handler[table]
           t == Placed(b, made, k)
           items == Items(table, t)
<1>1. /\ Len(items) = Len(fields) /\ Len(fields) \in Nat
      /\ \A j \in 1 .. Len(fields) : items[j] = Item(table, t, fields[j])
  BY ItemsAre
<1>2. \A i, value : SaysField(calls, calls[k], i, value) => Gives(b, Item(table, t, i), value)
  BY FieldGives
<1>3. CASE SaysFields(calls, calls[k], fields, says)
  <2>1. /\ Len(says) = Len(fields)
        /\ \A j \in 1 .. Len(fields) : SaysField(calls, calls[k], fields[j], says[j])
    BY <1>3 DEF SaysFields
  <2> HIDE DEF items, fields, t, table
  <2>2. \A j \in 1 .. Len(items) : Gives(b, items[j], says[0 + j])
    BY <1>1, <1>2, <2>1
  <2>3. Len(says) = 0 + Len(items)
    BY <1>1, <2>1
  <2>4. Yields(b, items, says, 0)
    BY <2>2, <2>3 DEF Yields, Leaves
  <2> QED
    BY <2>4 DEF items, t, table
<1>4. ASSUME NEW p \in Seq(Nat), SaysList(calls, calls[k], fields, says, p)
      PROVE  Yields(b, items, says, 0)
  <2> DEFINE e == Item(table, t, fields[1])
             front == Foremost(b, e)
  <2>1. /\ Type(e) \in {"Player", "[Player]"} /\ Holds(b, e.place, e.field)
        /\ PlayersOf(b, made, p, front) /\ p \in Seq(1 .. Len(calls) - 1)
        /\ \A i \in 1 .. Len(p) : CalledFor("Player", calls[p[i]])
    BY <1>4, ListFront
  <2>2. /\ Len(fields) > 0 /\ Len(says) = 3 * Len(p) + (Len(fields) - 1)
        /\ \A i \in 1 .. Len(p), j \in 1 .. 3 :
             SaysField(calls, calls[p[i]], j, says[3 * (i - 1) + j])
        /\ \A j \in 2 .. Len(fields) :
             SaysField(calls, calls[k], fields[j], says[3 * Len(p) + (j - 1)])
    BY <1>4 DEF SaysList
  <2> HIDE DEF front, e
  <2>3. \A m \in 1 .. Len(front) : Gives(b, front[m], says[m])
    BY <2>1, <2>2, PlayersGive
  <2>4. Len(front) = 3 * Len(p) /\ Len(p) \in Nat
    BY <2>1 DEF PlayersOf
  <2>5. items[1] = e
    BY <1>1, <2>2 DEF e
  <2> HIDE DEF items, fields, t, table
  <2>6. ASSUME NEW j \in 2 .. Len(items)
        PROVE  Gives(b, items[j], says[0 + Len(front) + (j - 1)])
    <3>1. j \in 2 .. Len(fields) /\ j \in 1 .. Len(fields)
          /\ 0 + Len(front) + (j - 1) = 3 * Len(p) + (j - 1)
      BY <1>1, <2>4
    <3>2. SaysField(calls, calls[k], fields[j], says[3 * Len(p) + (j - 1)])
      BY <2>2, <3>1
    <3>3. Gives(b, Item(table, t, fields[j]), says[3 * Len(p) + (j - 1)])
      BY <1>2, <3>2
    <3> QED
      BY <1>1, <3>1, <3>3
  <2>7. \A m \in 1 .. Len(front) : Gives(b, front[m], says[0 + m])
    BY <2>3
  <2>8. Len(says) = 0 + Len(front) + (Len(items) - 1) /\ Len(items) > 0
    BY <1>1, <2>2, <2>4
  <2> QED
    BY <2>1, <2>5, <2>6, <2>7, <2>8 DEF Yields, FrontLeaves, front
<1> QED
  BY <1>3, <1>4 DEF SaysBody

LEMMA Reads ==
  /\ "Player" \notin ScalarTypes /\ "[Player]" \notin ScalarTypes /\ "string" \notin ScalarTypes
BY DEF ScalarTypes

\* The next item is a value, or leads to players.
LEMMA NextItem ==
  ASSUME NEW b, NEW S, NEW items \in Seq(S), items # <<>>, NEW says, NEW n \in Nat,
         Yields(b, items, says, n)
  PROVE  /\ Head(items) = items[1] /\ Len(items) > 0
         /\ \/ /\ Gives(b, Head(items), says[n + 1]) /\ n + 1 \in 1 .. Len(says)
               /\ Leaves(b, Tail(items), says, n + 1)
               /\ Type(Head(items)) \notin {"Player", "[Player]"}
            \/ /\ Type(Head(items)) \in {"Player", "[Player]"}
               /\ Holds(b, Head(items).place, Head(items).field)
               /\ FrontLeaves(b, items, says, n, Foremost(b, Head(items)))
<1>1. Head(items) = items[1] /\ Len(items) > 0 /\ Len(items) \in Nat
  OBVIOUS
<1>2. CASE Leaves(b, items, says, n)
  <2>1. Len(says) = n + Len(items) /\ \A j \in 1 .. Len(items) : Gives(b, items[j], says[n + j])
    BY <1>2 DEF Leaves
  <2>2. 1 \in 1 .. Len(items) /\ n + 1 \in 1 .. Len(says)
    BY <1>1, <2>1
  <2>3. Gives(b, items[1], says[n + 1])
    BY <2>1, <2>2
  <2>4. Len(Tail(items)) = Len(items) - 1
        /\ \A j \in 1 .. Len(Tail(items)) : Tail(items)[j] = items[j + 1]
    BY <1>1
  <2>5. Leaves(b, Tail(items), says, n + 1)
    <3>1. Len(says) = (n + 1) + Len(Tail(items))
      BY <1>1, <2>1, <2>4
    <3>2. ASSUME NEW j \in 1 .. Len(Tail(items))
          PROVE  Gives(b, Tail(items)[j], says[(n + 1) + j])
      <4>1. j + 1 \in 1 .. Len(items) /\ n + (j + 1) = (n + 1) + j
        BY <1>1, <2>4
      <4>2. Gives(b, items[j + 1], says[n + (j + 1)])
        BY <2>1, <4>1
      <4> QED
        BY <2>4, <4>1, <4>2
    <3> QED
      BY <3>1, <3>2 DEF Leaves
  <2>6. Type(items[1]) \notin {"Player", "[Player]"}
    BY <2>3, Reads DEF Gives
  <2> QED
    BY <1>1, <2>2, <2>3, <2>5, <2>6
<1>3. CASE ~Leaves(b, items, says, n)
  <2>1. /\ Type(items[1]) \in {"Player", "[Player]"}
        /\ Holds(b, items[1].place, items[1].field)
        /\ FrontLeaves(b, items, says, n, Foremost(b, items[1]))
    BY <1>3 DEF Yields
  <2> QED
    BY <1>1, <2>1
<1> QED
  BY <1>2, <1>3

LEMMA FrontThenTail ==
  ASSUME NEW b, NEW S, NEW items \in Seq(S), Len(items) > 0, NEW says, NEW n \in Nat,
         NEW l \in Nat, NEW front, DOMAIN front = 1 .. l, front = [j \in DOMAIN front |-> front[j]],
         FrontLeaves(b, items, says, n, front)
  PROVE  Leaves(b, front \o Tail(items), says, n)
<1> DEFINE U == S \cup {front[j] : j \in 1 .. l}
           rest == Tail(items)
<1>1. front \in Seq(U) /\ Len(front) = l
  <2>1. \A j \in 1 .. l : front[j] \in U
    OBVIOUS
  <2> HIDE DEF U
  <2>2. front \in [1 .. l -> U]
    BY <2>1
  <2>3. front \in Seq(U)
    BY <2>2, FunctionIsSeq
  <2> QED
    BY <2>3
<1>2. rest \in Seq(S) /\ Len(items) \in Nat /\ Len(rest) = Len(items) - 1
      /\ \A j \in 1 .. Len(rest) : rest[j] = items[j + 1]
  OBVIOUS
<1>3. rest \in Seq(U)
  <2>1. S \subseteq U
    OBVIOUS
  <2> HIDE DEF U, rest
  <2> QED
    BY <1>2, <2>1, SeqIn
<1> HIDE DEF U, rest
<1> DEFINE w == front \o rest
<1>4. Joined(front, rest, w)
  BY <1>1, <1>3, Joining
<1> HIDE DEF w
<1>5. /\ Len(says) = n + Len(front) + (Len(items) - 1)
      /\ \A j \in 1 .. Len(front) : Gives(b, front[j], says[n + j])
      /\ \A j \in 2 .. Len(items) : Gives(b, items[j], says[n + Len(front) + (j - 1)])
  BY DEF FrontLeaves
<1>6. ASSUME NEW j \in 1 .. Len(w) PROVE Gives(b, w[j], says[n + j])
  <2>1. CASE j \in 1 .. Len(front)
    BY <1>4, <1>5, <2>1 DEF Joined
  <2>2. CASE j \notin 1 .. Len(front)
    <3> DEFINE k == j - Len(front)
    <3>1. k \in 1 .. Len(rest) /\ Len(front) + k = j /\ k + 1 \in 2 .. Len(items)
          /\ n + Len(front) + ((k + 1) - 1) = n + j
      <4>1. Len(w) = Len(front) + Len(rest) /\ Len(rest) = Len(items) - 1
        BY <1>2, <1>4 DEF Joined
      <4>2. Len(front) \in Nat /\ Len(items) \in Nat
        BY <1>1, <1>2
      <4>3. j > Len(front) /\ j <= Len(front) + Len(rest) /\ j \in Nat
        BY <2>2, <4>1, <4>2
      <4> QED
        BY <4>1, <4>2, <4>3
    <3> HIDE DEF k
    <3>2. w[j] = items[k + 1]
      BY <1>2, <1>4, <3>1 DEF Joined
    <3>3. Gives(b, items[k + 1], says[n + Len(front) + ((k + 1) - 1)])
      BY <1>5, <3>1
    <3> QED
      BY <3>1, <3>2, <3>3
  <2> QED
    BY <2>1, <2>2
<1>7. Len(says) = n + Len(w)
  <2>1. Len(w) = Len(front) + Len(rest) /\ Len(rest) = Len(items) - 1
    BY <1>2, <1>4 DEF Joined
  <2>2. Len(front) \in Nat /\ Len(items) \in Nat
    BY <1>1, <1>2
  <2> QED
    BY <1>5, <2>1, <2>2
<1> QED
  BY <1>6, <1>7 DEF Leaves, rest, w

------------------------------------------------------------------------------
(* A message is read as it was built.                                       *)

\* The values read so far are the first ones, and the others are yet to be read.
Begun(b, items, values0, says) ==
  /\ values0 \in Seq(Seq(Nat))
  /\ \A j \in 1 .. Len(values0) : values0[j] = says[j]
  /\ Yields(b, items, says, Len(values0))

ReadInv ==
  whole =>
    /\ at \in {"idle", "verify", "dispatch", "handler"} /\ last \in {"none", "read"}
    /\ last = "read" => values = message.says
    /\ at # "idle" => last = "none"
    /\ at # "idle" \/ last = "read" => fbb.finished = TRUE /\ buf = fbb.bytes
    /\ at \in {"verify", "dispatch"} => values = <<>>
    /\ at = "handler" => Begun(buf, todo, values, message.says)

LEMMA ReadInit == Init => ReadInv
BY DEF Init, RInit, ReadInv

\* What a finished message has been composed of.
LEMMA WhatArrived ==
  ASSUME SenderInv, whole, ReadInv, at # "idle" \/ last = "read"
  PROVE  /\ Delivered(buf, message.calls, results, Len(message.calls) - 2)
         /\ \E a \in Alignments : Composed(buf, a, results, message.calls)
<1>1. fbb.finished = TRUE /\ buf = fbb.bytes
  BY DEF ReadInv
<1>2. RightMessage(message)
  BY DEF SenderInv
<1>3. PICK a \in Alignments : Composed(fbb.bytes, a, results, message.calls)
  BY <1>1 DEF SenderInv, Sending, Composing
<1> QED
  BY <1>1, <1>2, <1>3, EnvelopeDelivered

LEMMA ReadVerify ==
  ASSUME SenderInv, ReadInv, Verify, UNCHANGED <<message, fbb, results, whole>>
  PROVE  ReadInv'
<1> SUFFICES ASSUME whole PROVE ReadInv'
  BY DEF ReadInv
<1>1. at = "verify"
  BY DEF Verify
<1>2. VerifyMessageEnvelopeBuffer(buf)
  BY <1>1, WhatArrived DEF Delivered
<1>3. at' = "dispatch" /\ last' = last /\ buf' = buf /\ values' = values
  BY <1>2 DEF Verify
<1> QED
  BY <1>1, <1>3 DEF ReadInv

LEMMA DispatchKnown ==
  ASSUME SenderInv, whole, ReadInv, at = "dispatch"
  PROVE  /\ Known /\ Holds(buf, Root(buf), 3)
         /\ Handler[Table] \in Seq(Nat)
         /\ Yields(buf, Items(Table, Body), message.says, 0)
<1> DEFINE calls == message.calls
           n == Len(calls) - 2
<1>1. /\ Delivered(buf, calls, results, n)
      /\ \E a \in Alignments : Composed(buf, a, results, calls)
  BY WhatArrived
<1>2. PICK a : Composed(buf, a, results, calls)
  BY <1>1
<1>3. RightMessage(message) /\ message.to = side /\ side \in {"server", "client"}
  BY DEF SenderInv
<1>4. /\ RightCalls(calls) /\ n \in 1 .. Len(calls) - 1
      /\ calls[n].call = "Create" /\ calls[n].table \in Handled(side)
      /\ calls[n + 1].args[2] \in DOMAIN Payload
      /\ Payload[calls[n + 1].args[2]] = calls[n].table
      /\ SaysBody(calls, calls[n], message.says)
  BY <1>3 DEF RightMessage, RightCalls
<1> HIDE DEF calls, n
<1>5. /\ BodyType(buf, Root(buf)) = calls[n + 1].args[2] /\ Holds(buf, Root(buf), 3)
      /\ Body = Placed(buf, results, n)
  BY <1>1 DEF Delivered, Body
<1>6. Known /\ Table = calls[n].table
  BY <1>4, <1>5 DEF Known, Table
<1>7. calls[n].table \in DOMAIN Handler
  BY <1>3, <1>4 DEF Handled, ToServer, Handler
<1>8. Yields(buf, Items(calls[n].table, Placed(buf, results, n)), message.says, 0)
  BY <1>2, <1>4, <1>7, BodyYields
<1>9. Handler[calls[n].table] \in Seq(Nat)
  BY <1>7, HandlerFields
<1> QED
  BY <1>5, <1>6, <1>8, <1>9

LEMMA ReadDispatch ==
  ASSUME SenderInv, ReadInv, Dispatch, UNCHANGED <<message, fbb, results, whole>>
  PROVE  ReadInv'
<1> SUFFICES ASSUME whole PROVE ReadInv'
  BY DEF ReadInv
<1>1. at = "dispatch" /\ UNCHANGED <<side, buf, values>>
  BY DEF Dispatch
<1>2. Known /\ Holds(buf, Root(buf), 3) /\ Yields(buf, Items(Table, Body), message.says, 0)
  BY <1>1, DispatchKnown
<1>3. at' = "handler" /\ todo' = Items(Table, Body) /\ last' = last
  BY <1>2 DEF Dispatch, Items
<1>4. values = <<>> /\ values' = <<>>
  BY <1>1 DEF ReadInv
<1>5. Len(values') = 0 /\ values' \in Seq(Seq(Nat))
  BY <1>4
<1>6. Yields(buf', todo', message'.says, Len(values'))
  BY <1>1, <1>2, <1>3, <1>5
<1>7. Begun(buf', todo', values', message'.says)
  BY <1>5, <1>6 DEF Begun
<1> QED
  BY <1>1, <1>3, <1>7 DEF ReadInv

\* The handler is in the middle of it.
LEMMA InHandler ==
  ASSUME ReadInv, IInv, whole, at = "handler"
  PROVE  /\ last = "none" /\ fbb.finished = TRUE /\ buf = fbb.bytes
         /\ Begun(buf, todo, values, message.says)
         /\ todo \in Seq(Passed(buf, side)) /\ Len(values) \in Nat
BY DEF ReadInv, IInv, Begun

LEMMA ReadOneMore ==
  ASSUME SenderInv, ReadInv, IInv, whole, at = "handler", todo # <<>>,
         Type(Current) \notin {"Player", "[Player]"}
  PROVE  /\ Len(values) + 1 \in 1 .. Len(message.says)
         /\ Gives(buf, Current, message.says[Len(values) + 1])
         /\ Begun(buf, Tail(todo), Append(values, message.says[Len(values) + 1]), message.says)
<1> DEFINE says == message.says
           n == Len(values)
           v == says[n + 1]
<1>1. /\ Begun(buf, todo, values, says)
      /\ todo \in Seq(Passed(buf, side)) /\ n \in Nat
  BY InHandler
<1>2. values \in Seq(Seq(Nat)) /\ \A j \in 1 .. n : values[j] = says[j]
  BY <1>1 DEF Begun
<1>3. Yields(buf, todo, says, n)
  BY <1>1 DEF Begun
<1>4. says \in Seq(Seq(Nat))
  BY DEF SenderInv, RightMessage
<1> HIDE DEF says, n
<1>5. /\ Gives(buf, Head(todo), v) /\ n + 1 \in 1 .. Len(says)
      /\ Leaves(buf, Tail(todo), says, n + 1)
  BY <1>1, <1>3, NextItem DEF Current
<1>6. v \in Seq(Nat)
  <2>1. n + 1 \in DOMAIN says
    BY <1>4, <1>5
  <2> QED
    BY <1>4, <2>1, InSeq
<1> HIDE DEF v
<1> DEFINE more == Append(values, v)
<1>7. /\ more \in Seq(Seq(Nat)) /\ Len(more) = n + 1
      /\ \A j \in 1 .. n : more[j] = values[j]
      /\ more[n + 1] = v
  BY <1>2, <1>6, Appended DEF n
<1> HIDE DEF more
<1>8. ASSUME NEW j \in 1 .. Len(more) PROVE more[j] = says[j]
  <2>1. CASE j = n + 1
    BY <1>7, <2>1 DEF v
  <2>2. CASE j # n + 1
    <3>1. j \in 1 .. n
      BY <1>1, <1>7, <2>2
    <3> QED
      BY <1>2, <1>7, <3>1
  <2> QED
    BY <2>1, <2>2
<1>9. Yields(buf, Tail(todo), says, Len(more))
  BY <1>5, <1>7 DEF Yields
<1>10. Begun(buf, Tail(todo), more, says)
  BY <1>7, <1>8, <1>9 DEF Begun
<1> QED
  BY <1>5, <1>10 DEF Current, more, v, n, says

LEMMA ReadReadScalar ==
  ASSUME SenderInv, ReadInv, IInv, NEW type \in ScalarTypes, ReadScalar(type),
         UNCHANGED <<message, fbb, results, whole>>
  PROVE  ReadInv'
<1> SUFFICES ASSUME whole PROVE ReadInv'
  BY DEF ReadInv
<1>1. /\ at = "handler" /\ todo # <<>> /\ Type(Current) = type
      /\ values' = Append(values, ScalarValue(buf, Current.place, Current.field, Width[type]))
      /\ todo' = Tail(todo) /\ UNCHANGED <<side, buf, at, last>>
  BY DEF ReadScalar, Reading
<1>2. Type(Current) \notin {"Player", "[Player]"} /\ Type(Current) # "string"
  BY <1>1, Reads
<1>3. last = "none" /\ fbb.finished = TRUE /\ buf = fbb.bytes
  BY <1>1, InHandler
<1> DEFINE v == message.says[Len(values) + 1]
<1>4. Gives(buf, Current, v) /\ Begun(buf, Tail(todo), Append(values, v), message.says)
  BY <1>1, <1>2, ReadOneMore
<1> HIDE DEF v
<1>5. v = ScalarValue(buf, Current.place, Current.field, Width[type])
  BY <1>1, <1>2, <1>4 DEF Gives
<1>6. Begun(buf', todo', values', message'.says)
  BY <1>1, <1>4, <1>5
<1> QED
  BY <1>1, <1>3, <1>6 DEF ReadInv

LEMMA ReadReadString ==
  ASSUME SenderInv, ReadInv, IInv, ReadString, UNCHANGED <<message, fbb, results, whole>>
  PROVE  ReadInv'
<1> SUFFICES ASSUME whole PROVE ReadInv'
  BY DEF ReadInv
<1>1. /\ at = "handler" /\ todo # <<>> /\ Type(Current) = "string"
      /\ values' = Append(values, StringValue(buf, Place))
      /\ todo' = Tail(todo) /\ UNCHANGED <<side, buf, at, last>>
  BY DEF ReadString, Reading
<1>2. Type(Current) \notin {"Player", "[Player]"} /\ Type(Current) \notin ScalarTypes
  BY <1>1, Reads
<1>3. last = "none" /\ fbb.finished = TRUE /\ buf = fbb.bytes
  BY <1>1, InHandler
<1> DEFINE v == message.says[Len(values) + 1]
<1>4. Gives(buf, Current, v) /\ Begun(buf, Tail(todo), Append(values, v), message.says)
  BY <1>1, <1>2, ReadOneMore
<1> HIDE DEF v
<1>5. v = StringValue(buf, Place)
  BY <1>2, <1>4 DEF Gives, Place
<1>6. Begun(buf', todo', values', message'.says)
  BY <1>1, <1>4, <1>5
<1> QED
  BY <1>1, <1>3, <1>6 DEF ReadInv

LEMMA ReadFront ==
  ASSUME SenderInv, ReadInv, IInv, whole, at = "handler", todo # <<>>,
         Type(Current) \in {"Player", "[Player]"}
  PROVE  /\ ~Missing
         /\ \A front :
              front = Foremost(buf, Current) =>
                Begun(buf, front \o Tail(todo), values, message.says)
<1> DEFINE says == message.says
           n == Len(values)
           front == Foremost(buf, Current)
<1>1. /\ Begun(buf, todo, values, says)
      /\ todo \in Seq(Passed(buf, side)) /\ n \in Nat
  BY InHandler
<1>2. values \in Seq(Seq(Nat)) /\ \A j \in 1 .. n : values[j] = says[j]
  BY <1>1 DEF Begun
<1>3. Yields(buf, todo, says, n)
  BY <1>1 DEF Begun
<1> HIDE DEF says, n
<1>4. /\ Len(todo) > 0 /\ Holds(buf, Current.place, Current.field)
      /\ FrontLeaves(buf, todo, says, n, front)
  BY <1>1, <1>3, NextItem DEF Current
<1>5. \E l \in Nat : DOMAIN front = 1 .. l /\ front = [j \in DOMAIN front |-> front[j]]
  <2> DEFINE p == Pointer(buf, Current.place, Current.field)
  <2>1. CASE Type(Current) = "Player"
    <3>1. front = [i \in 1 .. 3 |-> Item("Player", p, i)]
      BY <2>1, PlayerLayout DEF Foremost
    <3> HIDE DEF front, p
    <3>2. DOMAIN front = 1 .. 3 /\ front = [j \in DOMAIN front |-> front[j]]
      BY <3>1
    <3> QED
      BY <3>2
  <2>2. CASE Type(Current) = "[Player]"
    <3> DEFINE At3(j) == Item("Player", Element(buf, p, (j - 1) \div 3), ((j - 1) % 3) + 1)
               l == 3 * Length(buf, p)
    <3>1. front = [j \in 1 .. l |-> At3(j)]
      BY <2>2 DEF Foremost
    <3>2. l \in Nat
      <4>1. Current \in Passed(buf, side)
        <5>1. todo # <<>> /\ todo \in Seq(Passed(buf, side))
          BY <1>1
        <5> DEFINE S == Passed(buf, side)
        <5> HIDE DEF S
        <5>2. Head(todo) \in S
          BY <5>1 DEF S
        <5> QED
          BY <5>2 DEF Current, S
      <4>2. VerifyBodyField(buf, Current.place, Current.field, Fields(Current.table)[Current.field])
        BY <4>1, PassedItem
      <4>3. VerifyPlayers(buf, p)
        BY <1>4, <2>2, <4>2 DEF VerifyBodyField, Type
      <4>4. Length(buf, p) >= 0
        BY <4>3 DEF VerifyPlayers, VerifyVector
      <4>5. Length(buf, p) \in Int
        <5>1. buf \in Seq(Byte) /\ Current.place \in Int
          BY <4>1, PassedItem DEF IInv
        <5>2. Current.field \in Nat
          BY <4>1, PassedItem
        <5>3. p \in Int
          BY <5>1, <5>2, PointerInt
        <5> QED
          BY <5>1, <5>3, I32Int DEF Length
      <4> QED
        BY <4>4, <4>5
    <3> HIDE DEF front, At3, l
    <3>3. DOMAIN front = 1 .. l /\ front = [j \in DOMAIN front |-> front[j]]
      BY <3>1
    <3> QED
      BY <3>2, <3>3
  <2> QED
    BY <2>1, <2>2
<1> HIDE DEF front
<1>6. Leaves(buf, front \o Tail(todo), says, n)
  BY <1>1, <1>4, <1>5, FrontThenTail
<1>7. Begun(buf, front \o Tail(todo), values, says)
  BY <1>2, <1>6 DEF Begun, Yields, n
<1> QED
  BY <1>4, <1>7 DEF Missing, front, says

LEMMA ReadReadPlayer ==
  ASSUME SenderInv, ReadInv, IInv, ReadPlayer, UNCHANGED <<message, fbb, results, whole>>
  PROVE  ReadInv'
<1> SUFFICES ASSUME whole PROVE ReadInv'
  BY DEF ReadInv
<1>1. /\ at = "handler" /\ todo # <<>> /\ Type(Current) = "Player"
      /\ todo' = [i \in DOMAIN Fields("Player") |-> Item("Player", Place, i)] \o Tail(todo)
      /\ UNCHANGED <<side, buf, at, values, last>>
  BY DEF ReadPlayer, Reading
<1>2. last = "none" /\ fbb.finished = TRUE /\ buf = fbb.bytes
  BY <1>1, InHandler
<1>3. [i \in DOMAIN Fields("Player") |-> Item("Player", Place, i)] = Foremost(buf, Current)
  BY <1>1 DEF Foremost, Place
<1>4. Begun(buf, todo', values, message.says)
  BY <1>1, <1>3, ReadFront
<1>5. Begun(buf', todo', values', message'.says)
  BY <1>1, <1>4
<1> QED
  BY <1>1, <1>2, <1>5 DEF ReadInv

LEMMA ReadReadPlayers ==
  ASSUME SenderInv, ReadInv, IInv, ReadPlayers, UNCHANGED <<message, fbb, results, whole>>
  PROVE  ReadInv'
<1> SUFFICES ASSUME whole PROVE ReadInv'
  BY DEF ReadInv
<1>1. /\ at = "handler" /\ todo # <<>> /\ Type(Current) = "[Player]"
      /\ todo' = [j \in 1 .. 3 * Length(buf, Place) |-> PlayerItem(Place, j)] \o Tail(todo)
      /\ UNCHANGED <<side, buf, at, values, last>>
  BY DEF ReadPlayers, Reading
<1>2. last = "none" /\ fbb.finished = TRUE /\ buf = fbb.bytes
  BY <1>1, InHandler
<1>3. [j \in 1 .. 3 * Length(buf, Place) |-> PlayerItem(Place, j)] = Foremost(buf, Current)
  BY <1>1 DEF Foremost, Place, PlayerItem
<1>4. Begun(buf, todo', values, message.says)
  BY <1>1, <1>3, ReadFront
<1>5. Begun(buf', todo', values', message'.says)
  BY <1>1, <1>4
<1> QED
  BY <1>1, <1>2, <1>5 DEF ReadInv

LEMMA ReadNullPointer ==
  ASSUME SenderInv, ReadInv, IInv, NullPointer, whole
  PROVE  FALSE
<1>1. /\ at = "handler" /\ todo # <<>> /\ Type(Current) \in {"string", "Player", "[Player]"}
      /\ ~Holds(buf, Current.place, Current.field)
  BY DEF NullPointer, Reading, Missing
<1>2. CASE Type(Current) = "string"
  <2>1. Gives(buf, Current, message.says[Len(values) + 1])
    BY <1>1, <1>2, ReadOneMore
  <2> QED
    BY <1>1, <1>2, <2>1, Reads DEF Gives
<1>3. CASE Type(Current) \in {"Player", "[Player]"}
  BY <1>1, <1>3, ReadFront DEF Missing
<1> QED
  BY <1>1, <1>2, <1>3

LEMMA SameValues ==
  ASSUME NEW A, NEW s \in Seq(A), NEW t \in Seq(A), Len(s) = Len(t),
         \A j \in 1 .. Len(s) : s[j] = t[j]
  PROVE  s = t
<1>1. s \in [1 .. Len(s) -> A] /\ t \in [1 .. Len(s) -> A]
  OBVIOUS
<1> QED
  BY <1>1

LEMMA ReadFinish ==
  ASSUME SenderInv, ReadInv, IInv, Finish, UNCHANGED <<message, fbb, results, whole>>
  PROVE  ReadInv'
<1> SUFFICES ASSUME whole PROVE ReadInv'
  BY DEF ReadInv
<1> DEFINE says == message.says
<1>1. /\ at = "handler" /\ todo = <<>> /\ at' = "idle" /\ last' = "read"
      /\ UNCHANGED <<side, buf, todo, values>>
  BY DEF Finish
<1>2. Begun(buf, todo, values, says) /\ fbb.finished = TRUE /\ buf = fbb.bytes
  BY <1>1, InHandler
<1>3. values \in Seq(Seq(Nat)) /\ \A j \in 1 .. Len(values) : values[j] = says[j]
  BY <1>2 DEF Begun
<1>4. says \in Seq(Seq(Nat))
  BY DEF SenderInv, RightMessage
<1>5. Len(todo) = 0
  BY <1>1
<1>6. Leaves(buf, todo, says, Len(values))
  BY <1>2, <1>5 DEF Begun, Yields
<1> HIDE DEF says
<1>7. Len(says) = Len(values)
  BY <1>3, <1>5, <1>6 DEF Leaves
<1>8. values = says
  BY <1>3, <1>4, <1>7, SameValues
<1> QED
  BY <1>1, <1>2, <1>8 DEF ReadInv, says

LEMMA ReadNext ==
  ASSUME SenderInv, ReadInv, IInv, [Next]_vars
  PROVE  ReadInv'
<1>1. CASE Call
  <2>1. fbb.finished = FALSE
    <3> DEFINE calls == message.calls
    <3>1. RightCalls(calls) /\ Sending(fbb, results, calls) /\ Len(results) < Len(calls)
      BY <1>1 DEF Call, SenderInv, RightMessage
    <3> HIDE DEF calls
    <3>2. \/ fbb.finished = TRUE /\ Len(results) = Len(calls)
          \/ fbb.finished = FALSE
      BY <3>1, SendingFacts
    <3>3. results \in Seq(Nat)
      BY <3>1, SendingFacts
    <3>4. Len(results) \in Nat
      BY <3>3
    <3> QED
      BY <3>1, <3>2, <3>4
  <2>2. whole => at = "idle" /\ last = "none"
    BY <2>1 DEF ReadInv
  <2> QED
    BY <1>1, <2>2 DEF Call, ReadInv, rvars
<1>2. CASE Arrive
  BY <1>2 DEF Arrive, Ready, ReadInv
<1>3. CASE Garbled
  BY <1>3 DEF Garbled, ReadInv
<1>4. CASE Process /\ UNCHANGED <<message, fbb, results, whole>>
  <2>1. CASE Verify
    BY <1>4, <2>1, ReadVerify
  <2>2. CASE Dispatch
    BY <1>4, <2>2, ReadDispatch
  <2>3. ASSUME NEW type \in ScalarTypes, ReadScalar(type) PROVE ReadInv'
    BY <1>4, <2>3, ReadReadScalar
  <2>4. CASE ReadString
    BY <1>4, <2>4, ReadReadString
  <2>5. CASE ReadPlayer
    BY <1>4, <2>5, ReadReadPlayer
  <2>6. CASE ReadPlayers
    BY <1>4, <2>6, ReadReadPlayers
  <2>7. CASE NullPointer
    <3>1. ~whole /\ ~whole'
      BY <1>4, <2>7, ReadNullPointer
    <3> QED
      BY <3>1 DEF ReadInv
  <2>8. CASE Finish
    BY <1>4, <2>8, ReadFinish
  <2> QED
    BY <1>4, <2>1, <2>2, <2>3, <2>4, <2>5, <2>6, <2>7, <2>8 DEF Process, Handle
<1>5. CASE UNCHANGED vars
  BY <1>5 DEF vars, rvars, ReadInv
<1> QED
  BY <1>1, <1>2, <1>3, <1>4, <1>5 DEF Next

LEMMA ReadAlways == Spec => []ReadInv
<1>1. Spec => []SenderInv
  BY SenderAlways
<1>2. Spec => []IInv
  BY ReceiverIsReader, IInvAlways, PTL
<1>3. Init => ReadInv
  BY ReadInit
<1>4. SenderInv /\ IInv /\ ReadInv /\ [Next]_vars => ReadInv'
  BY ReadNext
<1> QED
  BY <1>1, <1>2, <1>3, <1>4, PTL DEF Spec

\* Every message that arrives as it was built passes the verifier, and its handler reads
\* what the sender has put in.
THEOREM MessagesReadAsBuilt == Spec => []ReadAsBuilt
<1>1. ReadInv => ReadAsBuilt
  BY DEF ReadInv, ReadAsBuilt
<1> QED
  BY <1>1, ReadAlways, PTL

------------------------------------------------------------------------------
(* Tokens.                                                                  *)

LEMMA DigitToldApart ==
  ASSUME NEW m \in 0 .. 15, NEW n \in 0 .. 15, HexDigit(m) = HexDigit(n)
  PROVE  m = n
BY DEF HexDigit

SameDigit(m, n, k) == (m \div Unit[k]) % 16 = (n \div Unit[k]) % 16

LEMMA HexEqual ==
  ASSUME NEW m \in Nat, NEW n \in Nat, NEW width \in 1 .. 8, Hex(m, width) = Hex(n, width),
         NEW k \in 1 .. width
  PROVE  SameDigit(m, n, k)
<1> DEFINE j == width - k + 1
           D(x) == (x \div Unit[width - j + 1]) % 16
<1>1. j \in 1 .. width /\ width - j + 1 = k /\ k \in 1 .. 8
  OBVIOUS
<1> HIDE DEF j
<1>2. Hex(m, width)[j] = HexDigit(D(m)) /\ Hex(n, width)[j] = HexDigit(D(n))
  BY <1>1 DEF Hex, Digits
<1>3. D(m) \in 0 .. 15 /\ D(n) \in 0 .. 15
  BY <1>1, Units, Quotient
<1> HIDE DEF D
<1>4. D(m) = D(n)
  BY <1>2, <1>3, DigitToldApart
<1> QED
  BY <1>1, <1>4 DEF D, SameDigit

LEMMA Sixteenth ==
  ASSUME NEW n \in Nat
  PROVE  /\ n = 16 * (n \div 16) + (n % 16) /\ n \div 16 \in Nat /\ n \div 1 = n
         /\ (n \div 16) \div 16 = n \div 256 /\ (n \div 256) \div 16 = n \div 4096
         /\ (n \div 4096) \div 16 = n \div 65536
BY SMT

LEMMA UnitsAre ==
  /\ Unit[1] = 1 /\ Unit[2] = 16 /\ Unit[3] = 256 /\ Unit[4] = 4096
  /\ Unit[5] = 65536 /\ Unit[6] = 1048576 /\ Unit[7] = 16777216 /\ Unit[8] = 268435456
BY SMT DEF Unit

LEMMA OneDigit ==
  ASSUME NEW m \in Nat, NEW n \in Nat, m % 16 = n % 16, m \div 16 = n \div 16
  PROVE  m = n
<1>1. m = 16 * (m \div 16) + (m % 16) /\ n = 16 * (n \div 16) + (n % 16)
  BY Sixteenth
<1> QED
  BY <1>1

\* Numbers whose last digits are the same differ in the others.
LEMMA TwoDigits ==
  ASSUME NEW m \in Nat, NEW n \in Nat, SameDigit(m, n, 1), SameDigit(m, n, 2),
         m \div 256 = n \div 256
  PROVE  m = n
<1>1. m % 16 = n % 16 /\ (m \div 16) % 16 = (n \div 16) % 16
  BY UnitsAre, Sixteenth DEF SameDigit
<1>2. (m \div 16) \div 16 = (n \div 16) \div 16 /\ m \div 16 \in Nat /\ n \div 16 \in Nat
  BY Sixteenth
<1>3. m \div 16 = n \div 16
  BY <1>1, <1>2, OneDigit
<1> QED
  BY <1>1, <1>3, OneDigit

LEMMA FourDigits ==
  ASSUME NEW m \in Nat, NEW n \in Nat, \A k \in 1 .. 4 : SameDigit(m, n, k),
         HighWord(m) = HighWord(n)
  PROVE  m = n
<1>1. (m \div 256) % 16 = (n \div 256) % 16 /\ (m \div 4096) % 16 = (n \div 4096) % 16
  BY UnitsAre DEF SameDigit
<1>2. m \div 65536 = n \div 65536
  BY DEF HighWord
<1>3. /\ (m \div 256) \div 16 = m \div 4096 /\ (n \div 256) \div 16 = n \div 4096
      /\ (m \div 4096) \div 16 = m \div 65536 /\ (n \div 4096) \div 16 = n \div 65536
      /\ m \div 256 \in Nat /\ n \div 256 \in Nat /\ m \div 4096 \in Nat /\ n \div 4096 \in Nat
  BY Sixteenth
<1>4. m \div 4096 = n \div 4096
  BY <1>1, <1>2, <1>3, OneDigit
<1>5. m \div 256 = n \div 256
  BY <1>1, <1>3, <1>4, OneDigit
<1>6. SameDigit(m, n, 1) /\ SameDigit(m, n, 2)
  OBVIOUS
<1> QED
  BY <1>5, <1>6, TwoDigits

LEMMA HighDigits ==
  ASSUME NEW n \in Nat, NEW k \in 1 .. 4
  PROVE  HighWord(n) \in Nat /\ n \div Unit[k + 4] = HighWord(n) \div Unit[k]
<1>1. /\ n \div 65536 \in Nat /\ n \div 65536 = (n \div 65536) \div 1
      /\ n \div 1048576 = (n \div 65536) \div 16
      /\ n \div 16777216 = (n \div 65536) \div 256
      /\ n \div 268435456 = (n \div 65536) \div 4096
  BY SMT
<1>2. k = 1 \/ k = 2 \/ k = 3 \/ k = 4
  OBVIOUS
<1> QED
  BY <1>1, <1>2, UnitsAre, SMT DEF HighWord

LEMMA ByteToldApart ==
  ASSUME NEW m \in 0 .. 255, NEW n \in 0 .. 255, Hex(m, 2) = Hex(n, 2)
  PROVE  m = n
<1>1. m \in Nat /\ n \in Nat /\ m \div 256 = n \div 256
  BY SMT
<1>2. 2 \in 1 .. 8 /\ 1 \in 1 .. 2 /\ 2 \in 1 .. 2
  OBVIOUS
<1>3. SameDigit(m, n, 1) /\ SameDigit(m, n, 2)
  BY <1>1, <1>2, HexEqual
<1> QED
  BY <1>1, <1>3, TwoDigits

LEMMA HighOfWord ==
  ASSUME NEW h \in Word
  PROVE  h \in Nat /\ HighWord(h) = 0
<1>1. h \in Nat /\ h < 65536
  BY SMT DEF Word
<1>2. h \div 65536 = 0
  BY <1>1, SMT
<1> QED
  BY <1>1, <1>2 DEF HighWord

LEMMA WordToldApart ==
  ASSUME NEW m \in Word, NEW n \in Word, Hex(m, 4) = Hex(n, 4)
  PROVE  m = n
<1>1. m \in Nat /\ n \in Nat /\ HighWord(m) = 0 /\ HighWord(n) = 0
  BY HighOfWord
<1>2. \A k \in 1 .. 4 : SameDigit(m, n, k)
  <2>1. 4 \in 1 .. 8
    OBVIOUS
  <2> QED
    BY <1>1, <2>1, HexEqual
<1> QED
  BY <1>1, <1>2, FourDigits

LEMMA LongToldApart ==
  ASSUME NEW m \in Long, NEW n \in Long, Hex(m, 8) = Hex(n, 8)
  PROVE  m = n
<1>1. m \in Nat /\ n \in Nat /\ HighWord(m) \in Word /\ HighWord(n) \in Word
  BY DEF Long
<1>2. \A k \in 1 .. 8 : SameDigit(m, n, k)
  <2>1. 8 \in 1 .. 8
    OBVIOUS
  <2> QED
    BY <1>1, <2>1, HexEqual
<1>3. ASSUME NEW k \in 1 .. 4 PROVE SameDigit(HighWord(m), HighWord(n), k)
  <2>1. k + 4 \in 1 .. 8
    OBVIOUS
  <2>2. SameDigit(m, n, k + 4)
    BY <1>2, <2>1
  <2>3. m \div Unit[k + 4] = HighWord(m) \div Unit[k] /\ n \div Unit[k + 4] = HighWord(n) \div Unit[k]
    BY <1>1, HighDigits
  <2> QED
    BY <2>2, <2>3 DEF SameDigit
<1>4. HighWord(HighWord(m)) = 0 /\ HighWord(HighWord(n)) = 0
  BY <1>1, HighOfWord
<1>5. HighWord(m) \in Nat /\ HighWord(n) \in Nat
  BY <1>1, HighOfWord
<1>6. HighWord(m) = HighWord(n)
  BY <1>3, <1>4, <1>5, FourDigits
<1>7. \A k \in 1 .. 4 : SameDigit(m, n, k)
  BY <1>2
<1> QED
  BY <1>1, <1>6, <1>7, FourDigits

\* Texts that are put together of parts of the same lengths.
LEMMA Parts ==
  ASSUME NEW s, NEW t, NEW p, NEW q, NEW k, NEW l, SmallOf(s, k), SmallOf(p, k),
         SmallOf(t, l), SmallOf(q, l), s \o t = p \o q
  PROVE  s = p /\ t = q
<1> DEFINE A == 1 .. 255
           w == s \o t
<1>1. s \in Seq(A) /\ t \in Seq(A) /\ p \in Seq(A) /\ q \in Seq(A)
      /\ Len(s) = k /\ Len(p) = k /\ Len(t) = l /\ Len(q) = l
  BY DEF SmallOf
<1> HIDE DEF A, w
<1>2. Joined(s, t, w) /\ Joined(p, q, w)
  BY <1>1, Joining DEF w
<1>3. \A j \in 1 .. Len(s) : s[j] = p[j]
  BY <1>1, <1>2 DEF Joined
<1>4. \A j \in 1 .. Len(t) : t[j] = q[j]
  BY <1>1, <1>2 DEF Joined
<1> QED
  BY <1>1, <1>3, <1>4, SameValues

Piece(s, p, n) == SmallOf(s, n) /\ SmallOf(p, n)
\* Two texts of this length, which are the same when their parts are.
Peels(s, t, p, q, w, x, n) == Piece(w, x, n) /\ (w = x => s = p /\ t = q)

LEMMA Pieces ==
  ASSUME NEW s, NEW t, NEW p, NEW q, NEW w, NEW x, NEW k \in Nat, NEW l \in Nat,
         Piece(s, p, k), Piece(t, q, l), w = s \o t, x = p \o q
  PROVE  Peels(s, t, p, q, w, x, k + l)
<1>1. SmallOf(w, k + l) /\ SmallOf(x, k + l)
  BY SmallTogether DEF Piece
<1>2. w = x => s = p /\ t = q
  BY Parts DEF Piece
<1> QED
  BY <1>1, <1>2 DEF Piece, Peels

\* Two UUIDs never look the same: UuidToString writes every number with all of its digits,
\* so that each has its place in the string.
THEOREM UuidsToldApart ==
  ASSUME NEW u \in Uuids, NEW v \in Uuids, UuidToString(u) = UuidToString(v)
  PROVE  u = v
<1> DEFINE a(x) == Hex(x.Data1, 8)
           b(x) == Hex(x.Data2, 4)
           c(x) == Hex(x.Data3, 4)
           byte(x, k) == Hex(x.Data4[k], 2)
           s1(x) == a(x) \o Dash
           s2(x) == s1(x) \o b(x)
           s3(x) == s2(x) \o Dash
           s4(x) == s3(x) \o c(x)
           s5(x) == s4(x) \o Dash
           s6(x) == s5(x) \o byte(x, 1)
           s7(x) == s6(x) \o byte(x, 2)
           s8(x) == s7(x) \o Dash
           s9(x) == s8(x) \o byte(x, 3)
           s10(x) == s9(x) \o byte(x, 4)
           s11(x) == s10(x) \o byte(x, 5)
           s12(x) == s11(x) \o byte(x, 6)
           s13(x) == s12(x) \o byte(x, 7)
           s14(x) == s13(x) \o byte(x, 8)
<1>1. /\ Piece(a(u), a(v), 8) /\ Piece(b(u), b(v), 4) /\ Piece(c(u), c(v), 4)
      /\ Piece(Dash, Dash, 1)
  BY UuidNumbers, HexOf, DashSmall DEF Piece
<1>2. /\ Piece(byte(u, 1), byte(v, 1), 2) /\ Piece(byte(u, 2), byte(v, 2), 2)
      /\ Piece(byte(u, 3), byte(v, 3), 2) /\ Piece(byte(u, 4), byte(v, 4), 2)
      /\ Piece(byte(u, 5), byte(v, 5), 2) /\ Piece(byte(u, 6), byte(v, 6), 2)
      /\ Piece(byte(u, 7), byte(v, 7), 2) /\ Piece(byte(u, 8), byte(v, 8), 2)
  <2>1. \A k \in 1 .. 8 : Piece(byte(u, k), byte(v, k), 2)
    BY UuidNumbers, HexOf DEF Piece
  <2> HIDE DEF byte
  <2> QED
    BY <2>1
<1> HIDE DEF a, b, c, byte
<1>3. /\ Piece(s1(u), s1(v), 9)
      /\ s1(u) = s1(v) => a(u) = a(v)
  <2>1. Peels(a(u), Dash, a(v), Dash, s1(u), s1(v), 8 + 1)
    BY <1>1, Pieces
  <2> QED
    BY <2>1 DEF Peels
<1> HIDE DEF s1
<1>4. /\ Piece(s2(u), s2(v), 13)
      /\ s2(u) = s2(v) => s1(u) = s1(v) /\ b(u) = b(v)
  <2>1. Peels(s1(u), b(u), s1(v), b(v), s2(u), s2(v), 9 + 4)
    BY <1>1, <1>3, Pieces
  <2> QED
    BY <2>1 DEF Peels
<1> HIDE DEF s2
<1>5. /\ Piece(s3(u), s3(v), 14)
      /\ s3(u) = s3(v) => s2(u) = s2(v)
  <2>1. Peels(s2(u), Dash, s2(v), Dash, s3(u), s3(v), 13 + 1)
    BY <1>1, <1>4, Pieces
  <2> QED
    BY <2>1 DEF Peels
<1> HIDE DEF s3
<1>6. /\ Piece(s4(u), s4(v), 18)
      /\ s4(u) = s4(v) => s3(u) = s3(v) /\ c(u) = c(v)
  <2>1. Peels(s3(u), c(u), s3(v), c(v), s4(u), s4(v), 14 + 4)
    BY <1>1, <1>5, Pieces
  <2> QED
    BY <2>1 DEF Peels
<1> HIDE DEF s4
<1>7. /\ Piece(s5(u), s5(v), 19)
      /\ s5(u) = s5(v) => s4(u) = s4(v)
  <2>1. Peels(s4(u), Dash, s4(v), Dash, s5(u), s5(v), 18 + 1)
    BY <1>1, <1>6, Pieces
  <2> QED
    BY <2>1 DEF Peels
<1> HIDE DEF s5
<1>8. /\ Piece(s6(u), s6(v), 21)
      /\ s6(u) = s6(v) => s5(u) = s5(v) /\ byte(u, 1) = byte(v, 1)
  <2>1. Peels(s5(u), byte(u, 1), s5(v), byte(v, 1), s6(u), s6(v), 19 + 2)
    BY <1>2, <1>7, Pieces
  <2> QED
    BY <2>1 DEF Peels
<1> HIDE DEF s6
<1>9. /\ Piece(s7(u), s7(v), 23)
      /\ s7(u) = s7(v) => s6(u) = s6(v) /\ byte(u, 2) = byte(v, 2)
  <2>1. Peels(s6(u), byte(u, 2), s6(v), byte(v, 2), s7(u), s7(v), 21 + 2)
    BY <1>2, <1>8, Pieces
  <2> QED
    BY <2>1 DEF Peels
<1> HIDE DEF s7
<1>10. /\ Piece(s8(u), s8(v), 24)
       /\ s8(u) = s8(v) => s7(u) = s7(v)
  <2>1. Peels(s7(u), Dash, s7(v), Dash, s8(u), s8(v), 23 + 1)
    BY <1>1, <1>9, Pieces
  <2> QED
    BY <2>1 DEF Peels
<1> HIDE DEF s8
<1>11. /\ Piece(s9(u), s9(v), 26)
       /\ s9(u) = s9(v) => s8(u) = s8(v) /\ byte(u, 3) = byte(v, 3)
  <2>1. Peels(s8(u), byte(u, 3), s8(v), byte(v, 3), s9(u), s9(v), 24 + 2)
    BY <1>2, <1>10, Pieces
  <2> QED
    BY <2>1 DEF Peels
<1> HIDE DEF s9
<1>12. /\ Piece(s10(u), s10(v), 28)
       /\ s10(u) = s10(v) => s9(u) = s9(v) /\ byte(u, 4) = byte(v, 4)
  <2>1. Peels(s9(u), byte(u, 4), s9(v), byte(v, 4), s10(u), s10(v), 26 + 2)
    BY <1>2, <1>11, Pieces
  <2> QED
    BY <2>1 DEF Peels
<1> HIDE DEF s10
<1>13. /\ Piece(s11(u), s11(v), 30)
       /\ s11(u) = s11(v) => s10(u) = s10(v) /\ byte(u, 5) = byte(v, 5)
  <2>1. Peels(s10(u), byte(u, 5), s10(v), byte(v, 5), s11(u), s11(v), 28 + 2)
    BY <1>2, <1>12, Pieces
  <2> QED
    BY <2>1 DEF Peels
<1> HIDE DEF s11
<1>14. /\ Piece(s12(u), s12(v), 32)
       /\ s12(u) = s12(v) => s11(u) = s11(v) /\ byte(u, 6) = byte(v, 6)
  <2>1. Peels(s11(u), byte(u, 6), s11(v), byte(v, 6), s12(u), s12(v), 30 + 2)
    BY <1>2, <1>13, Pieces
  <2> QED
    BY <2>1 DEF Peels
<1> HIDE DEF s12
<1>15. /\ Piece(s13(u), s13(v), 34)
       /\ s13(u) = s13(v) => s12(u) = s12(v) /\ byte(u, 7) = byte(v, 7)
  <2>1. Peels(s12(u), byte(u, 7), s12(v), byte(v, 7), s13(u), s13(v), 32 + 2)
    BY <1>2, <1>14, Pieces
  <2> QED
    BY <2>1 DEF Peels
<1> HIDE DEF s13
<1>16. /\ Piece(s14(u), s14(v), 36)
       /\ s14(u) = s14(v) => s13(u) = s13(v) /\ byte(u, 8) = byte(v, 8)
  <2>1. Peels(s13(u), byte(u, 8), s13(v), byte(v, 8), s14(u), s14(v), 34 + 2)
    BY <1>2, <1>15, Pieces
  <2> QED
    BY <2>1 DEF Peels
<1> HIDE DEF s14
<1>17. UuidToString(u) = s14(u) /\ UuidToString(v) = s14(v)
  BY Zenon DEF UuidToString, a, b, c, byte, s1, s2, s3, s4, s5, s6, s7, s8, s9, s10, s11, s12, s13, s14
<1>18. /\ a(u) = a(v) /\ b(u) = b(v) /\ c(u) = c(v)
       /\ \A k \in 1 .. 8 : byte(u, k) = byte(v, k)
  <2>1. /\ a(u) = a(v) /\ b(u) = b(v) /\ c(u) = c(v)
        /\ byte(u, 1) = byte(v, 1) /\ byte(u, 2) = byte(v, 2) /\ byte(u, 3) = byte(v, 3)
        /\ byte(u, 4) = byte(v, 4) /\ byte(u, 5) = byte(v, 5) /\ byte(u, 6) = byte(v, 6)
        /\ byte(u, 7) = byte(v, 7) /\ byte(u, 8) = byte(v, 8)
    BY <1>3, <1>4, <1>5, <1>6, <1>7, <1>8, <1>9, <1>10, <1>11, <1>12, <1>13, <1>14, <1>15, <1>16, <1>17
  <2> QED
    BY <2>1
<1> DEFINE B == 0 .. 255
<1>19. \A x \in Uuids : x \in [Data1 : Long, Data2 : Word, Data3 : Word, Data4 : [1 .. 8 -> B]]
  BY UuidsAssumption DEF UUID
<1> HIDE DEF B
<1>20. /\ u.Data1 \in Long /\ v.Data1 \in Long /\ u.Data2 \in Word /\ v.Data2 \in Word
      /\ u.Data3 \in Word /\ v.Data3 \in Word
      /\ u.Data4 \in [1 .. 8 -> B] /\ v.Data4 \in [1 .. 8 -> B]
  BY <1>19
<1>21. u.Data1 = v.Data1 /\ u.Data2 = v.Data2 /\ u.Data3 = v.Data3
  BY <1>18, <1>20, LongToldApart, WordToldApart DEF a, b, c
<1>22. ASSUME NEW k \in 1 .. 8 PROVE u.Data4[k] = v.Data4[k]
  <2>1. u.Data4[k] \in B /\ v.Data4[k] \in B
    BY <1>20
  <2>2. Hex(u.Data4[k], 2) = Hex(v.Data4[k], 2)
    BY <1>18 DEF byte
  <2> QED
    BY <2>1, <2>2, ByteToldApart DEF B
<1>23. u.Data4 = v.Data4
  BY <1>20, <1>22
<1> QED
  BY <1>19, <1>21, <1>23

------------------------------------------------------------------------------
(* The response to a login.                                                 *)

\* The type of the body, by the envelope.
Kind(m) == Payload[m.calls[Len(m.calls) - 1].args[2]]

LEMMA KindIs ==
  ASSUME NEW S, NEW body \in Seq(S), NEW to, NEW kind \in Range(Payload), NEW says
  PROVE  Kind(Message(to, kind, body, says)) = kind /\ Message(to, kind, body, says).says = says
<1> DEFINE m == Message(to, kind, body, says)
           n == Len(body)
<1>1. /\ m.says = says /\ Len(m.calls) = n + 2 /\ EnvelopeIs(m.calls, n, kind)
  <2>1. kind \in Range(Payload) /\ body \in Seq(S)
    OBVIOUS
  <2>2. m.says = says
    BY DEF Message
  <2>4. Len(m.calls) = n + 2
    <3>1. m.calls = body \o Sealed(kind, n)
      BY DEF Message
    <3>2. PICK x, y : Sealed(kind, n) = <<x, y>>
      BY DEF Sealed
    <3> HIDE DEF m
    <3> QED
      BY <2>1, <3>1, <3>2
  <2>3. EnvelopeIs(m.calls, n, kind)
    BY <2>1, MessageCalls
  <2> QED
    BY <2>2, <2>4, <2>3
<1>2. n \in Nat
  OBVIOUS
<1> HIDE DEF m, n
<1>3. Len(m.calls) - 1 = n + 1
  BY <1>1, <1>2
<1>4. PICK t \in DOMAIN Payload :
        Payload[t] = kind /\ m.calls[n + 1] = Create("MessageEnvelope", <<Now, t, n>>)
  BY <1>1 DEF EnvelopeIs
<1>5. m.calls[n + 1].args[2] = t
  BY <1>4 DEF Create
<1>6. Kind(m) = kind
  BY <1>3, <1>4, <1>5 DEF Kind
<1> QED
  BY <1>1, <1>6 DEF m

LEMMA Kinds == \A kind \in DOMAIN Handler : kind \in Range(Payload)
BY PayloadNumbers DEF Handled

LEMMA LoginRequestKind ==
  ASSUME NEW userid, NEW password
  PROVE  Kind(SendLoginRequest(userid, password)) = "C2S_LoginRequest"
<1> DEFINE c1 == String(userid)
           c2 == String(password)
           c3 == Create("C2S_LoginRequest", <<1, 2>>)
           body == <<c1, c2, c3>>
           S == {c1, c2, c3}
           says == <<userid, password>>
           kind == "C2S_LoginRequest"
<1>1. SendLoginRequest(userid, password) = Message("server", kind, body, says)
  BY DEF SendLoginRequest
<1>2. kind \in Range(Payload)
  BY Kinds DEF Handler
<1> HIDE DEF c1, c2, c3, says, kind
<1>3. body \in Seq(S)
  OBVIOUS
<1> HIDE DEF body, S
<1>4. Kind(Message("server", kind, body, says)) = kind
  BY <1>2, <1>3, KindIs
<1> QED
  BY <1>1, <1>4 DEF kind

LEMMA SignUpRequestKind ==
  ASSUME NEW userid, NEW password, NEW nickname
  PROVE  Kind(SendSignUpRequest(userid, password, nickname)) = "C2S_SignUpRequest"
<1> DEFINE c1 == String(userid)
           c2 == String(password)
           c3 == String(nickname)
           c4 == Create("C2S_SignUpRequest", <<1, 2, 3>>)
           body == <<c1, c2, c3, c4>>
           S == {c1, c2, c3, c4}
           says == <<userid, password, nickname>>
           kind == "C2S_SignUpRequest"
<1>1. SendSignUpRequest(userid, password, nickname) = Message("server", kind, body, says)
  BY DEF SendSignUpRequest
<1>2. kind \in Range(Payload)
  BY Kinds DEF Handler
<1> HIDE DEF c1, c2, c3, c4, says, kind
<1>3. body \in Seq(S)
  OBVIOUS
<1> HIDE DEF body, S
<1>4. Kind(Message("server", kind, body, says)) = kind
  BY <1>2, <1>3, KindIs
<1> QED
  BY <1>1, <1>4 DEF kind

LEMMA ListRequestKind ==
  Kind(SendPlayerListRequest) = "C2S_PlayerListRequest"
<1> DEFINE c1 == Create("C2S_PlayerListRequest", <<>>)
           body == <<c1>>
           S == {c1}
           says == <<>>
           kind == "C2S_PlayerListRequest"
<1>1. SendPlayerListRequest = Message("server", kind, body, says)
  BY DEF SendPlayerListRequest
<1>2. kind \in Range(Payload)
  BY Kinds DEF Handler
<1> HIDE DEF c1, says, kind
<1>3. body \in Seq(S)
  OBVIOUS
<1> HIDE DEF body, S
<1>4. Kind(Message("server", kind, body, says)) = kind
  BY <1>2, <1>3, KindIs
<1> QED
  BY <1>1, <1>4 DEF kind

LEMMA ReadyRequestKind ==
  ASSUME NEW token, NEW ready
  PROVE  Kind(SendPlayerReadyRequest(token, ready)) = "C2S_GameReadyRequest"
<1> DEFINE c1 == String(token)
           c2 == Create("C2S_GameReadyRequest", <<1, ready>>)
           body == <<c1, c2>>
           S == {c1, c2}
           says == <<token, Number(ready, "ubyte")>>
           kind == "C2S_GameReadyRequest"
<1>1. SendPlayerReadyRequest(token, ready) = Message("server", kind, body, says)
  BY DEF SendPlayerReadyRequest
<1>2. kind \in Range(Payload)
  BY Kinds DEF Handler
<1> HIDE DEF c1, c2, says, kind
<1>3. body \in Seq(S)
  OBVIOUS
<1> HIDE DEF body, S
<1>4. Kind(Message("server", kind, body, says)) = kind
  BY <1>2, <1>3, KindIs
<1> QED
  BY <1>1, <1>4 DEF kind

LEMMA SignUpResponseKind ==
  ASSUME NEW status
  PROVE  Kind(ProcessSignUpRequest(status)) = "S2C_SignUpResponse"
<1> DEFINE c1 == Create("S2C_SignUpResponse", <<EnumValue(SignUpStatus, status)>>)
           body == <<c1>>
           S == {c1}
           says == <<Number(EnumValue(SignUpStatus, status), "ubyte")>>
           kind == "S2C_SignUpResponse"
<1>1. ProcessSignUpRequest(status) = Message("client", kind, body, says)
  BY DEF ProcessSignUpRequest
<1>2. kind \in Range(Payload)
  BY Kinds DEF Handler
<1> HIDE DEF c1, says, kind
<1>3. body \in Seq(S)
  OBVIOUS
<1> HIDE DEF body, S
<1>4. Kind(Message("client", kind, body, says)) = kind
  BY <1>2, <1>3, KindIs
<1> QED
  BY <1>1, <1>4 DEF kind

LEMMA ChangeStateKind ==
  ASSUME NEW player
  PROVE  Kind(BroadcastPlayerChangeState(player)) = "S2C_PlayerChangeState"
<1> DEFINE c1 == String(player.user_id)
           c2 == Create("S2C_PlayerChangeState", <<1, StateNumber(player)>>)
           body == <<c1, c2>>
           S == {c1, c2}
           says == <<player.user_id, Number(StateNumber(player), "ubyte")>>
           kind == "S2C_PlayerChangeState"
<1>1. BroadcastPlayerChangeState(player) = Message("client", kind, body, says)
  BY DEF BroadcastPlayerChangeState
<1>2. kind \in Range(Payload)
  BY Kinds DEF Handler
<1> HIDE DEF c1, c2, says, kind
<1>3. body \in Seq(S)
  OBVIOUS
<1> HIDE DEF body, S
<1>4. Kind(Message("client", kind, body, says)) = kind
  BY <1>2, <1>3, KindIs
<1> QED
  BY <1>1, <1>4 DEF kind

LEMMA CountdownKind ==
  ASSUME NEW start, NEW remaining
  PROVE  Kind(BroadcastCountdownStartGame(start, remaining)) = "S2C_CountdownStartGame"
<1> DEFINE c1 == Create("S2C_CountdownStartGame", <<start, remaining>>)
           body == <<c1>>
           S == {c1}
           says == <<Number(start, "ubyte"), Number(remaining, "uint")>>
           kind == "S2C_CountdownStartGame"
<1>1. BroadcastCountdownStartGame(start, remaining) = Message("client", kind, body, says)
  BY DEF BroadcastCountdownStartGame
<1>2. kind \in Range(Payload)
  BY Kinds DEF Handler
<1> HIDE DEF c1, says, kind
<1>3. body \in Seq(S)
  OBVIOUS
<1> HIDE DEF body, S
<1>4. Kind(Message("client", kind, body, says)) = kind
  BY <1>2, <1>3, KindIs
<1> QED
  BY <1>1, <1>4 DEF kind

LEMMA StartGameKind ==
  ASSUME NEW address, NEW port
  PROVE  Kind(BroadcastStartGame(address, port)) = "S2C_StartGame"
<1> DEFINE c1 == String(address)
           c2 == Create("S2C_StartGame", <<1, port>>)
           body == <<c1, c2>>
           S == {c1, c2}
           says == <<address, Number(port, "ushort")>>
           kind == "S2C_StartGame"
<1>1. BroadcastStartGame(address, port) = Message("client", kind, body, says)
  BY DEF BroadcastStartGame
<1>2. kind \in Range(Payload)
  BY Kinds DEF Handler
<1> HIDE DEF c1, c2, says, kind
<1>3. body \in Seq(S)
  OBVIOUS
<1> HIDE DEF body, S
<1>4. Kind(Message("client", kind, body, says)) = kind
  BY <1>2, <1>3, KindIs
<1> QED
  BY <1>1, <1>4 DEF kind

LEMMA InOutKind ==
  ASSUME NEW player, RightPlayer(player), NEW join
  PROVE  Kind(BroadcastPlayerInOut(player, join)) = "S2C_PlayerInOutLobby"
<1> DEFINE players == <<player>>
           c == Create("S2C_PlayerInOutLobby", <<3, join>>)
           rest == <<c>>
           says == Append(Says(player), Number(join, "ubyte"))
           body == CreatePlayers(players) \o rest
           kind == "S2C_PlayerInOutLobby"
<1>1. BroadcastPlayerInOut(player, join) = Message("client", kind, body, says)
  BY DEF BroadcastPlayerInOut
<1>2. kind \in Range(Payload)
  BY Kinds DEF Handler
<1> HIDE DEF c, says, kind
<1>3. /\ rest \in Seq({c}) /\ players \in Seq({player})
      /\ \A i \in 1 .. Len(players) : RightPlayer(players[i])
  OBVIOUS
<1> HIDE DEF rest, players
<1>4. \E S : body \in Seq(S)
  BY <1>2, <1>3, PlayersMessage
<1> HIDE DEF body
<1>5. PICK S : body \in Seq(S)
  BY <1>4
<1>6. Kind(Message("client", kind, body, says)) = kind
  BY <1>2, <1>5, KindIs
<1> QED
  BY <1>1, <1>6 DEF kind

LEMMA PlayerListKind ==
  ASSUME NEW players \in Seq(Players)
  PROVE  Kind(ProcessPlayerListRequest(players)) = "S2C_PlayerListResponse"
<1> DEFINE n == Len(players)
           c1 == Vector([k \in 1 .. n |-> 3 * k])
           c2 == Create("S2C_PlayerListResponse", <<3 * n + 1>>)
           rest == <<c1, c2>>
           says == SaysPlayers(players)
           body == CreatePlayers(players) \o rest
           kind == "S2C_PlayerListResponse"
<1>1. ProcessPlayerListRequest(players) = Message("client", kind, body, says)
  BY DEF ProcessPlayerListRequest
<1>2. kind \in Range(Payload)
  BY Kinds DEF Handler
<1> HIDE DEF c1, c2, says, kind
<1>3. rest \in Seq({c1, c2})
  OBVIOUS
<1> HIDE DEF rest
<1>4. \A i \in 1 .. Len(players) : RightPlayer(players[i])
  <2>1. \A i \in 1 .. Len(players) : players[i] \in Players
    OBVIOUS
  <2> QED
    BY <2>1, PlayersAreRight
<1>5. \E S : body \in Seq(S)
  BY <1>2, <1>3, <1>4, PlayersMessage
<1> HIDE DEF body
<1>6. PICK S : body \in Seq(S)
  BY <1>5
<1>7. Kind(Message("client", kind, body, says)) = kind
  BY <1>2, <1>6, KindIs
<1> QED
  BY <1>1, <1>7 DEF kind

LEMMA LoginResponseIs ==
  ASSUME NEW status, NEW nickname, NEW token
  PROVE  ProcessLoginRequest(status, nickname, token).says
           = <<Number(EnumValue(LoginStatus, status), "ubyte"), nickname, token>>
BY DEF ProcessLoginRequest, Message

\* What a login answers, by its status.
LoginAnswer(status, token, says) ==
  /\ status \in Range(LoginStatus)
  /\ status = "Success" => token \in SessionTokens
  /\ status # "Success" => token = Dash
  /\ says[1] = Number(EnumValue(LoginStatus, status), "ubyte") /\ says[3] = token

\* Only the response to a login is of its kind.
KindTold(m) ==
  Kind(m) = "S2C_LoginResponse" => \E status, token : LoginAnswer(status, token, m.says)

LEMMA RequestsTold == \A m \in Requests : KindTold(m)
<1>1. ASSUME NEW u \in Texts, NEW p \in Texts PROVE KindTold(SendLoginRequest(u, p))
  BY LoginRequestKind DEF KindTold
<1>2. ASSUME NEW u \in Texts, NEW p \in Texts, NEW n \in Texts
      PROVE  KindTold(SendSignUpRequest(u, p, n))
  BY SignUpRequestKind DEF KindTold
<1>3. KindTold(SendPlayerListRequest)
  BY ListRequestKind DEF KindTold
<1>4. ASSUME NEW t \in SessionTokens, NEW r \in Flag PROVE KindTold(SendPlayerReadyRequest(t, r))
  BY ReadyRequestKind DEF KindTold
<1> QED
  BY <1>1, <1>2, <1>3, <1>4 DEF Requests

LEMMA BroadcastsTold == \A m \in Broadcasts : KindTold(m)
<1>1. ASSUME NEW p \in Players, NEW j \in Flag PROVE KindTold(BroadcastPlayerInOut(p, j))
  BY PlayersAreRight, InOutKind DEF KindTold
<1>2. ASSUME NEW p \in Players PROVE KindTold(BroadcastPlayerChangeState(p))
  BY ChangeStateKind DEF KindTold
<1>3. ASSUME NEW s \in Flag, NEW n \in Numbers PROVE KindTold(BroadcastCountdownStartGame(s, n))
  BY CountdownKind DEF KindTold
<1>4. ASSUME NEW a \in Texts, NEW n \in Numbers PROVE KindTold(BroadcastStartGame(a, n))
  BY StartGameKind DEF KindTold
<1> QED
  BY <1>1, <1>2, <1>3, <1>4 DEF Broadcasts

LEMMA ResponsesTold == \A m \in Responses : KindTold(m)
<1>1. ASSUME NEW s \in Range(SignUpStatus) PROVE KindTold(ProcessSignUpRequest(s))
  BY SignUpResponseKind DEF KindTold
<1>2. ASSUME NEW n \in Texts, NEW t \in SessionTokens
      PROVE  KindTold(ProcessLoginRequest("Success", n, t))
  <2>1. "Success" \in Range(LoginStatus)
    BY DEF LoginStatus, Range
  <2>2. LoginAnswer("Success", t, ProcessLoginRequest("Success", n, t).says)
    BY <2>1, LoginResponseIs DEF LoginAnswer
  <2> QED
    BY <2>2 DEF KindTold
<1>3. ASSUME NEW s \in Range(LoginStatus) \ {"Success"}
      PROVE  KindTold(ProcessLoginRequest(s, <<>>, Dash))
  <2>1. LoginAnswer(s, Dash, ProcessLoginRequest(s, <<>>, Dash).says)
    BY LoginResponseIs DEF LoginAnswer
  <2> QED
    BY <2>1 DEF KindTold
<1>4. ASSUME NEW l \in UNION {[1 .. n -> Players] : n \in 0 .. MaxPlayers}
      PROVE  KindTold(ProcessPlayerListRequest(l))
  <2>1. PICK n \in 0 .. MaxPlayers : l \in [1 .. n -> Players]
    OBVIOUS
  <2>2. l \in Seq(Players)
    BY <2>1, SizeAssumption
  <2>3. Kind(ProcessPlayerListRequest(l)) = "S2C_PlayerListResponse"
    BY <2>2, PlayerListKind
  <2> QED
    BY <2>3 DEF KindTold
<1> QED
  BY <1>1, <1>2, <1>3, <1>4 DEF Responses

LEMMA MessagesTold == \A m \in Requests \cup Responses \cup Broadcasts : KindTold(m)
BY RequestsTold, BroadcastsTold, ResponsesTold

LEMMA StatusCode ==
  ASSUME NEW s \in Range(LoginStatus)
  PROVE  LET code == EnumValue(LoginStatus, s)
         IN  code \in 0 .. 3 /\ (s = "Success" <=> code = 0)
<1> DEFINE i == CHOOSE i \in DOMAIN LoginStatus : LoginStatus[i] = s
<1>1. DOMAIN LoginStatus = 1 .. 4 /\ LoginStatus[1] = "Success"
      /\ \A j \in 2 .. 4 : LoginStatus[j] # "Success"
  BY DEF LoginStatus
<1>2. i \in DOMAIN LoginStatus /\ LoginStatus[i] = s
  BY DEF Range
<1>3. EnumValue(LoginStatus, s) = i - 1
  BY DEF EnumValue
<1> HIDE DEF i
<1>4. i \in 1 .. 4 /\ (s = "Success" <=> i = 1)
  BY <1>1, <1>2
<1> QED
  BY <1>3, <1>4

LEMMA CodeName ==
  ASSUME NEW code \in 0 .. 3
  PROVE  /\ Number(code, "ubyte")[1] = code
         /\ EnumName(ErrorCode, code) = "Success" <=> code = 0
<1>1. Number(code, "ubyte")[1] = code
  <2>1. Number(code, "ubyte") = LittleEndian(code, 1)
    BY DEF Number, Width
  <2>2. code \in Int /\ 1 \in Nat /\ 1 >= 1
    OBVIOUS
  <2>3. LittleEndian(code, 1)[1] = code % 256
    BY <2>2, LittleEndianByte
  <2> QED
    BY <2>1, <2>3
<1>2. DOMAIN ErrorCode = 1 .. 8 /\ ErrorCode[1] = "Success"
      /\ \A j \in 2 .. 4 : ErrorCode[j] # "Success"
  BY DEF ErrorCode
<1>3. EnumName(ErrorCode, code) = ErrorCode[code + 1]
  <2>1. code + 1 \in 1 .. 8
    OBVIOUS
  <2> QED
    BY <1>2, <2>1 DEF EnumName
<1> QED
  BY <1>1, <1>2, <1>3

LEMMA TokensNotDash ==
  /\ \A t \in SessionTokens : t # Dash
  /\ \A t \in SessionTokens : t # <<>> => \E u \in Uuids : t = UuidToString(u)
<1>1. ASSUME NEW t \in SessionTokens, t # <<>>
      PROVE  \E u \in Uuids : t = UuidToString(u)
  BY <1>1 DEF SessionTokens
<1>2. ASSUME NEW t \in SessionTokens PROVE t # Dash
  <2>1. Len(Dash) = 1 /\ Len(<<>>) = 0
    BY DEF Dash
  <2>2. CASE t = <<>>
    BY <2>1, <2>2
  <2>3. CASE t # <<>>
    <3>1. PICK u \in Uuids : t = UuidToString(u)
      BY <1>1, <2>3
    <3>2. Len(t) = 36
      BY <3>1, TokenSmall DEF SmallOf
    <3> QED
      BY <2>1, <3>2
  <2> QED
    BY <2>2, <2>3
<1> QED
  BY <1>1, <1>2

LEMMA OneUuid ==
  ASSUME NEW u \in Uuids, NEW token, token = UuidToString(u)
  PROVE  Cardinality({v \in Uuids : UuidToString(v) = token}) = 1
<1>1. {v \in Uuids : UuidToString(v) = token} = {u}
  BY UuidsToldApart
<1> QED
  BY <1>1, FS_Singleton

LEMMA AnswerToldApart ==
  ASSUME NEW status, NEW token, NEW says, LoginAnswer(status, token, says)
  PROVE  /\ EnumName(ErrorCode, says[1][1]) = "Success" <=> says[3] # Dash
         /\ says[3] \notin {<<>>, Dash} =>
              Cardinality({u \in Uuids : UuidToString(u) = says[3]}) = 1
<1> DEFINE code == EnumValue(LoginStatus, status)
<1>1. /\ status \in Range(LoginStatus) /\ says[1] = Number(code, "ubyte") /\ says[3] = token
      /\ status = "Success" => token \in SessionTokens
      /\ status # "Success" => token = Dash
  BY DEF LoginAnswer
<1>2. code \in 0 .. 3 /\ (status = "Success" <=> code = 0)
  BY <1>1, StatusCode
<1> HIDE DEF code
<1>3. says[1][1] = code /\ (EnumName(ErrorCode, code) = "Success" <=> code = 0)
  BY <1>1, <1>2, CodeName
<1>4. EnumName(ErrorCode, says[1][1]) = "Success" <=> says[3] # Dash
  BY <1>1, <1>2, <1>3, TokensNotDash
<1>5. ASSUME token \notin {<<>>, Dash}
      PROVE  Cardinality({u \in Uuids : UuidToString(u) = token}) = 1
  <2>1. token \in SessionTokens /\ token # <<>>
    BY <1>1, <1>5
  <2>2. PICK u \in Uuids : token = UuidToString(u)
    BY <2>1, TokensNotDash
  <2> QED
    BY <2>2, OneUuid
<1> QED
  BY <1>1, <1>4, <1>5

LEMMA TableIsKind ==
  ASSUME SenderInv, ReadInv, whole, last = "read"
  PROVE  Table = Kind(message)
<1> DEFINE calls == message.calls
           n == Len(calls) - 2
<1>1. Delivered(buf, calls, results, n)
  BY WhatArrived
<1>2. BodyType(buf, Root(buf)) = calls[n + 1].args[2]
  BY <1>1 DEF Delivered
<1>3. n \in 1 .. Len(calls) - 1
  BY DEF SenderInv, RightMessage, RightCalls
<1>4. n + 1 = Len(calls) - 1
  BY <1>3
<1> QED
  BY <1>2, <1>4 DEF Table, Kind

\* What a client takes from the answer to a login is enough to tell success from
\* failure, and one session from another.
THEOREM LoginsToldApart == Spec => []LoginToldApart
<1> DEFINE Told == KindTold(message)
<1>1. Init => Told
  BY MessagesTold DEF Init
<1>2. Told /\ [Next]_vars => Told'
  BY SideStays DEF KindTold, Kind, LoginAnswer, vars
<1>3. SenderInv /\ ReadInv /\ Told => LoginToldApart
  <2> SUFFICES ASSUME SenderInv, ReadInv, KindTold(message), whole, last = "read",
                      Table = "S2C_LoginResponse"
               PROVE  /\ EnumName(ErrorCode, values[1][1]) = "Success" <=> values[3] # Dash
                      /\ values[3] \notin {<<>>, Dash} =>
                           Cardinality({u \in Uuids : UuidToString(u) = values[3]}) = 1
    BY DEF LoginToldApart
  <2>1. values = message.says
    BY DEF ReadInv
  <2>2. Kind(message) = "S2C_LoginResponse"
    BY TableIsKind
  <2>3. PICK status, token : LoginAnswer(status, token, message.says)
    BY <2>2 DEF KindTold
  <2> QED
    BY <2>1, <2>3, AnswerToldApart
<1> HIDE DEF Told
<1> QED
  BY <1>1, <1>2, <1>3, SenderAlways, ReadAlways, PTL DEF Spec
===============================================================================
