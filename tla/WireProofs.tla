------------------------------ MODULE WireProofs ------------------------------
(***************************************************************************)
(* Proofs of the safety properties of Wire, for any senders, messages and  *)
(* sizes: messages are received as they were sent as long as no two sends  *)
(* overlap and none is cut short, and unconditionally where neither can    *)
(* happen.                                                                 *)
(***************************************************************************)
EXTENDS Wire, SequenceTheorems, TLAPS

\* Division by 256 and its remainder.
LEMMA Byte256 ==
  ASSUME NEW n \in Nat
  PROVE  n \div 256 \in Nat /\ n % 256 \in Byte /\ n = 256 * (n \div 256) + (n % 256)
BY SMT DEF Byte

LEMMA SizeBound == MaxSize \in Nat /\ MaxSize < 256 * (256 * (256 * 256))
BY SMT DEF MaxSize

\* Four bytes hold the size of a message, and the receiver reads the size that
\* the sender wrote.
LEMMA HeaderBytes ==
  ASSUME NEW n \in 0 .. MaxSize
  PROVE  /\ Htonl(n) \in Seq(Byte) /\ Len(Htonl(n)) = HeaderSize
         /\ Ntohl(Htonl(n)) = n
<1> DEFINE a == n \div 256
           b == a \div 256
           c == b \div 256
<1>1. n \in Nat /\ n < 256 * (256 * (256 * 256))
  BY SizeBound
<1>3. a \in Nat /\ n % 256 \in Byte /\ n = 256 * a + (n % 256)
  BY <1>1, Byte256
<1>2. c \in Byte
  BY <1>1, SMT DEF Byte
<1>4. Htonl(n) = <<c, b % 256, a % 256, n % 256>>
  BY DEF Htonl
<1> HIDE DEF c
<1>5. b \in Nat /\ a % 256 \in Byte /\ a = 256 * b + (a % 256)
  BY <1>3, Byte256
<1> HIDE DEF a
<1>6. b % 256 \in Byte /\ b = 256 * c + (b % 256)
  BY <1>5, Byte256 DEF c
<1> HIDE DEF b
<1>7. Ntohl(<<c, b % 256, a % 256, n % 256>>) = n
  BY <1>2, <1>3, <1>5, <1>6, SMT DEF Ntohl, Byte
<1> QED
  BY <1>2, <1>3, <1>4, <1>5, <1>6, <1>7 DEF HeaderSize, Htonl

\* What a sender is to send is a sequence of bytes, and the place of each in
\* the packet is known.
LEMMA OutputBytes ==
  ASSUME TypeOK, NEW w \in Callers
  PROVE  Output(w) \in Seq(Byte)
<1>1. CASE at[w] = "size"
  <2>1. msg[w] \in Bodies \cup {<<>>}
    BY DEF TypeOK
  <2>2. Len(msg[w]) \in 0 .. MaxSize
    BY <2>1, BodyAssumption, SizeBound, EmptySeq
  <2> QED
    BY <1>1, <2>2, HeaderBytes DEF Output
<1>2. CASE at[w] # "size"
  <2>1. msg[w] \in Bodies \cup {<<>>}
    BY DEF TypeOK
  <2> QED
    BY <1>2, <2>1, BodyAssumption, EmptySeq DEF Output
<1> QED
  BY <1>1, <1>2

LEMMA PacketBytes ==
  ASSUME NEW b \in Bodies
  PROVE  /\ b \in Seq(Byte) /\ Len(b) \in 1 .. MaxSize /\ Len(b) \in Nat
         /\ Htonl(Len(b)) \in Seq(Byte) /\ Len(Htonl(Len(b))) = 4
         /\ Ntohl(Htonl(Len(b))) = Len(b)
         /\ \A p \in 1 .. 4 : Packet(b)[p] = Htonl(Len(b))[p]
         /\ \A p \in 1 .. Len(b) : Packet(b)[4 + p] = b[p]
<1>1. b \in Seq(Byte) /\ Len(b) \in 1 .. MaxSize /\ Len(b) \in Nat /\ Len(b) \in 0 .. MaxSize
  BY BodyAssumption, SizeBound
<1>2. Htonl(Len(b)) \in Seq(Byte) /\ Len(Htonl(Len(b))) = 4 /\ Ntohl(Htonl(Len(b))) = Len(b)
  BY <1>1, HeaderBytes DEF HeaderSize
<1>3. \A p \in 1 .. 4 + Len(b) : Packet(b)[p] =
        IF p <= 4 THEN Htonl(Len(b))[p] ELSE b[p - 4]
  <2> DEFINE h == Htonl(Len(b))
  <2>1. h \in Seq(Byte) /\ Len(h) = 4
    BY <1>2
  <2> HIDE DEF h
  <2>2. \A p \in 1 .. Len(h) + Len(b) :
          (h \o b)[p] = IF p <= Len(h) THEN h[p] ELSE b[p - Len(h)]
    BY <1>1, <2>1, ConcatProperties
  <2> QED
    BY <2>1, <2>2 DEF Packet, h
<1> QED
  BY <1>1, <1>2, <1>3

\* IInv holds in the initial state.
LEMMA InitIInv == Init => IInv
<1> SUFFICES ASSUME Init PROVE IInv
  OBVIOUS
<1>1. stream = <<>> /\ received = <<>> /\ sent = <<>> /\ from = <<0>>
  BY DEF Init
<1>2. Len(stream) = 0 /\ Len(received) = 0 /\ Len(sent) = 0
      /\ stream \in Seq(Byte) /\ received \in Seq(Seq(Byte)) /\ sent \in Seq(Bodies)
  BY <1>1, EmptySeq
<1>3. from \in Seq(Nat) /\ Len(from) = 1 /\ from[1] = 0
  BY <1>1
<1>4. TypeOK
  <2>1. /\ at \in [Callers -> {"idle", "size", "data"}]
        /\ msg \in [Callers -> Bodies \cup {<<>>}]
        /\ done \in [Callers -> Nat]
    BY DEF Init
  <2>2. /\ taken \in 0 .. Len(stream) /\ want \in Nat
        /\ got \in 0 .. Need /\ got <= taken
    BY <1>2 DEF Init, Need, HeaderSize
  <2>3. dir \in {"down", "up"} /\ open \in BOOLEAN /\ garbled \in BOOLEAN
        /\ reader \in {"size", "data", "ended"}
    BY DEF Init
  <2> QED
    BY <1>2, <1>3, <2>1, <2>2, <2>3 DEF TypeOK
<1>5. Idle
  BY DEF Init, Idle, Busy
<1>6. Layout
  BY <1>2, <1>3 DEF Layout, Last, HeaderSize
<1>7. SenderPlace
  BY <1>2, <1>3 DEF Init, SenderPlace, Last, Busy
<1>8. ReceiverPlace
  BY <1>2, <1>3 DEF Init, ReceiverPlace, Last
<1>9. ReceivedAsSent /\ OnlyLargeRefused
  BY <1>2 DEF Init, ReceivedAsSent, OnlyLargeRefused
<1> QED
  BY <1>4, <1>5, <1>6, <1>7, <1>8, <1>9 DEF IInv

\* What the invariant says of the numbers involved.
LEMMA Numbers ==
  ASSUME TypeOK
  PROVE  /\ Len(stream) \in Nat /\ taken \in Nat /\ taken <= Len(stream)
         /\ Len(sent) \in Nat /\ Len(received) \in Nat
         /\ got \in Nat /\ got <= taken /\ got <= Need /\ want \in Nat
         /\ \A m \in 1 .. Len(sent) + 1 : from[m] \in Nat
         /\ \A m \in 1 .. Len(sent) : sent[m] \in Bodies
         /\ \A m \in 1 .. Len(sent) : Len(sent[m]) \in Nat \ {0}
<1>1. Len(stream) \in Nat /\ Len(sent) \in Nat /\ Len(received) \in Nat
  BY DEF TypeOK
<1>2. want \in Nat /\ Need \in Nat
  BY DEF TypeOK, Need, HeaderSize
<1>3. /\ taken \in Nat /\ taken <= Len(stream)
      /\ got \in Nat /\ got <= taken /\ got <= Need
  BY <1>1, <1>2 DEF TypeOK
<1>4. \A m \in 1 .. Len(sent) + 1 : from[m] \in Nat
  BY <1>1 DEF TypeOK
<1>5. \A m \in 1 .. Len(sent) : sent[m] \in Bodies
  BY DEF TypeOK
<1>6. \A m \in 1 .. Len(sent) : Len(sent[m]) \in Nat \ {0}
  BY <1>5, PacketBytes, SizeBound
<1> QED
  BY <1>1, <1>2, <1>3, <1>4, <1>5, <1>6

\* A step that only starts a message keeps IInv.
LEMMA BeginIInv ==
  ASSUME IInv, NEW w \in Senders, NEW b \in Bodies, Begin(w, b)
  PROVE  IInv'
<1> USE DEF HeaderSize, Last
<1>n. PICK n \in Nat : n = Len(sent)
  BY Numbers DEF IInv
<1>0. TypeOK /\ n \in Nat /\ Len(sent) = n
  BY <1>n DEF IInv
<1>1. w \in Callers
  BY DEF Senders, Callers
<1>2. /\ at' = [at EXCEPT ![w] = "size"] /\ msg' = [msg EXCEPT ![w] = b]
      /\ sent' = Append(sent, b)
      /\ from' = Append(from, from[Len(from)] + HeaderSize + Len(b))
      /\ ~Busy(w) /\ open
      /\ garbled' = (garbled \/ \E v \in Senders : Busy(v))
      /\ UNCHANGED <<dir, open, stream, done, taken, reader, want, got, received>>
  BY DEF Begin, receiver
<1>3. /\ Len(b) \in Nat \ {0} /\ Len(Htonl(Len(b))) = 4
  BY PacketBytes, SizeBound
<1>4. /\ sent' \in Seq(Bodies) /\ Len(sent') = n + 1
      /\ \A i \in 1 .. n : sent'[i] = sent[i]
      /\ sent'[n + 1] = b
  BY <1>0, <1>2 DEF TypeOK
<1>5. /\ from' \in Seq(Nat) /\ Len(from') = n + 2
      /\ \A i \in 1 .. n + 1 : from'[i] = from[i] /\ from[i] \in Nat
      /\ from'[n + 2] = from[n + 1] + 4 + Len(b)
  <2>1. from \in Seq(Nat) /\ Len(from) = n + 1
    BY <1>0 DEF TypeOK
  <2>2. from[n + 1] \in Nat
    BY <1>0, <2>1
  <2> QED
    BY <1>0, <1>2, <1>3, <2>1, <2>2
<1>6. TypeOK'
  <2>1. /\ at' \in [Callers -> {"idle", "size", "data"}]
        /\ msg' \in [Callers -> Bodies \cup {<<>>}]
    BY <1>0, <1>1, <1>2 DEF TypeOK
  <2>2. garbled' \in BOOLEAN /\ Need' = Need
    BY <1>2 DEF Need
  <2>3. /\ Len(from') = Len(sent') + 1
        /\ UNCHANGED <<dir, open, stream, taken, done, reader, want, got, received>>
    BY <1>0, <1>2, <1>4, <1>5 DEF receiver
  <2> QED
    BY <1>0, <1>4, <1>5, <2>1, <2>2, <2>3, Zenon DEF TypeOK
<1>7. Idle'
  BY <1>0, <1>1, <1>2 DEF IInv, Idle, Busy, Senders, TypeOK
<1>8. ASSUME ~garbled' PROVE (Layout /\ SenderPlace /\ ReceiverPlace)'
  <2>1. /\ ~garbled /\ \A v \in Callers : ~Busy(v)
        /\ Layout /\ SenderPlace /\ ReceiverPlace /\ ReceivedAsSent
    BY <1>2, <1>8 DEF IInv, Idle
  <2>3. Len(stream) = from[n + 1] /\ stream' = stream /\ Len(stream) \in Nat
    BY <1>0, <1>2, <2>1, Numbers DEF SenderPlace
  <2>2. \A m \in 1 .. n : /\ from[m + 1] = from[m] + 4 + Len(sent[m])
                           /\ from[m] <= Len(stream)
    BY <1>0, <2>1 DEF Layout
  <2>4. Layout'
    <3>1. from'[1] = 0
      BY <1>0, <1>5, <2>1 DEF Layout
    <3>2. ASSUME NEW m \in 1 .. n + 1
          PROVE  from'[m + 1] = from'[m] + 4 + Len(sent'[m])
      <4>1. CASE m = n + 1
        BY <1>0, <1>4, <1>5, <4>1
      <4>2. CASE m \in 1 .. n
        <5>1. from[m + 1] = from[m] + 4 + Len(sent[m])
          BY <2>2, <4>2
        <5>2. m \in 1 .. n + 1 /\ m + 1 \in 1 .. n + 1
          BY <1>0, <4>2
        <5>3. from'[m] = from[m] /\ from'[m + 1] = from[m + 1]
          BY <1>5, <5>2
        <5>4. sent'[m] = sent[m]
          BY <1>4, <4>2
        <5> QED
          BY <5>1, <5>3, <5>4
      <4> QED
        BY <4>1, <4>2
    <3>3. ASSUME NEW m \in 1 .. n + 1 PROVE from'[m] <= Len(stream')
      <4>1. from'[m] = from[m] /\ Len(stream') = Len(stream)
        BY <1>5, <2>3
      <4>2. m \in 1 .. n \/ m = n + 1
        BY <1>0
      <4>3. from[m] <= Len(stream)
        BY <2>2, <2>3, <4>2
      <4> QED
        BY <4>1, <4>3, Zenon
    <3>4. Len(stream') <= from'[n + 2]
      BY <1>0, <1>3, <1>5, <2>3
    <3>5. ASSUME NEW m \in 1 .. n + 1, NEW p \in 1 .. 4 + Len(sent'[m]),
                 from'[m] + p <= Len(stream')
          PROVE  stream'[from'[m] + p] = Packet(sent'[m])[p]
      <4>1. m \in 1 .. n
        BY <1>0, <1>3, <1>4, <1>5, <2>3, <3>5
      <4> QED
        <5>1. from'[m] = from[m] /\ sent'[m] = sent[m] /\ from[m] \in Nat
          BY <1>4, <1>5, <4>1
        <5>2. \A q \in 1 .. 4 + Len(sent[m]) :
                from[m] + q <= Len(stream) => stream[from[m] + q] = Packet(sent[m])[q]
          BY <1>0, <2>1, <4>1 DEF Layout
        <5> QED
          BY <2>3, <3>5, <5>1, <5>2
    <3>6. Len(sent') = n + 1
      BY <1>4
    <3>7. /\ \A m \in 1 .. Len(sent') : from'[m + 1] = from'[m] + 4 + Len(sent'[m])
          /\ \A m \in 1 .. Len(sent') : from'[m] <= Len(stream')
      BY <3>2, <3>3, <3>6, Zenon
    <3>8. Len(sent') + 1 = n + 2
      BY <1>0, <3>6
    <3>9. Len(stream') <= from'[Len(sent') + 1]
      BY <3>4, <3>8, Zenon
    <3>10. \A m \in 1 .. Len(sent') : \A p \in 1 .. 4 + Len(sent'[m]) :
             from'[m] + p <= Len(stream') => stream'[from'[m] + p] = Packet(sent'[m])[p]
      BY <3>5, <3>6, Zenon
    <3> QED
      BY <3>1, <3>7, <3>9, <3>10, Zenon DEF Layout
  <2>5. SenderPlace'
    <3>1. \A v \in Callers : Busy(v)' => v = w
      BY <1>0, <1>1, <1>2, <2>1 DEF Busy, TypeOK
    <3>2. at'[w] = "size" /\ msg'[w] = b /\ done'[w] = 0 /\ Busy(w)'
      BY <1>0, <1>1, <1>2 DEF TypeOK, IInv, Idle, Busy
    <3>3. Output(w)' = Htonl(Len(b))
      BY <3>2 DEF Output
    <3>4. Len(sent') = n + 1 /\ sent'[n + 1] = b /\ Len(stream') = from'[n + 1]
      BY <1>0, <1>4, <1>5, <2>3
    <3> QED
      <4>1. Last' > 0 /\ msg'[w] = sent'[Last'] /\ Len(stream') = from'[Last']
        BY <1>0, <3>2, <3>4
      <4>2. done'[w] < Len(Output(w))'
        <5>1. Len(Htonl(Len(b))) = 4 /\ done'[w] = 0
          BY <1>3, <3>2
        <5>2. Len(Output(w)') = 4
          BY <3>3, <5>1
        <5> QED
          BY <5>1, <5>2
      <4>3. Len(stream') = from'[Last'] + done'[w] + (IF at'[w] = "size" THEN 0 ELSE HeaderSize)
        BY <1>0, <1>5, <3>2, <3>4
      <4> QED
        BY <1>1, <3>1, <3>2, <4>1, <4>2, <4>3 DEF SenderPlace
  <2>6. ReceiverPlace'
    <3>1. Len(received) \in Nat /\ Len(received) <= n
      BY <1>0, <2>1, Numbers DEF ReceivedAsSent
    <3>2. PICK m \in 1 .. n + 1 : m = Len(received) + 1
      BY <3>1
    <3>3. from'[m] = from[m] /\ (m <= n => sent'[m] = sent[m])
      BY <1>4, <1>5
    <3> QED
      <4>1. Len(received') + 1 = m /\ Last' = n + 1
        BY <1>2, <1>4, <3>2
      <4>2. /\ reader = "size" => taken = from[m] + got
            /\ reader = "data" => m <= n /\ want = Len(sent[m]) /\ taken = from[m] + 4 + got
        BY <1>0, <2>1, <3>2 DEF ReceiverPlace
      <4>3. /\ reader' = "size" => taken' = from'[m] + got'
            /\ reader' = "data" => /\ m <= n /\ want' = Len(sent'[m])
                                  /\ taken' = from'[m] + 4 + got'
        BY <1>2, <3>3, <4>2
      <4>4. m <= n => m <= n + 1
        BY <1>0, <3>2
      <4> QED
        BY <4>1, <4>3, <4>4 DEF ReceiverPlace
  <2> QED
    BY <2>4, <2>5, <2>6
<1>9. ReceivedAsSent' /\ OnlyLargeRefused'
  <2>1. Len(received) \in Nat /\ received' = received /\ (~garbled' => ~garbled)
    BY <1>0, <1>2, Numbers
  <2>2. ReceivedAsSent /\ OnlyLargeRefused
    BY DEF IInv
  <2>3. ReceivedAsSent'
    BY <1>0, <1>4, <2>1, <2>2 DEF ReceivedAsSent
  <2>4. OnlyLargeRefused'
    BY <1>0, <1>2, <1>4, <2>1, <2>2 DEF OnlyLargeRefused
  <2> QED
    BY <2>3, <2>4
<1> QED
  BY <1>6, <1>7, <1>8, <1>9 DEF IInv

\* What there is after a part of o has been put after s.
LEMMA AppendPart ==
  ASSUME NEW s \in Seq(Byte), NEW o \in Seq(Byte), NEW d \in Nat, NEW n \in Nat,
         d + n <= Len(o)
  PROVE  \E t \in Seq(Byte) :
           /\ t = s \o SubSeq(o, d + 1, d + n)
           /\ Len(t) = Len(s) + n
           /\ \A i \in 1 .. Len(s) : t[i] = s[i]
           /\ \A j \in 1 .. n : t[Len(s) + j] = o[d + j]
<1> DEFINE r == SubSeq(o, d + 1, d + n)
<1>1. PICK t : t = s \o SubSeq(o, d + 1, d + n)
  OBVIOUS
<1>5. t = s \o r
  BY <1>1
<1>2. /\ r \in Seq(Byte) /\ Len(r) = n
      /\ \A j \in 1 .. n : r[j] = o[d + j]
  <2>1. \A i \in d + 1 .. d + n : o[i] \in Byte
    BY ElementOfSeq
  <2>2. d + 1 \in Int /\ d + n \in Int
    OBVIOUS
  <2>3. /\ r \in Seq(Byte)
        /\ Len(r) = IF d + 1 <= d + n THEN (d + n) - (d + 1) + 1 ELSE 0
        /\ \A j \in 1 .. (d + n) - (d + 1) + 1 : r[j] = o[(d + 1) + j - 1]
    BY <2>1, <2>2, SubSeqProperties
  <2> HIDE DEF r
  <2>4. Len(r) = n
    BY <2>3
  <2>5. ASSUME NEW j \in 1 .. n PROVE r[j] = o[d + j]
    <3>1. j \in 1 .. (d + n) - (d + 1) + 1 /\ (d + 1) + j - 1 = d + j
      OBVIOUS
    <3> QED
      BY <2>3, <3>1
  <2> QED
    BY <2>3, <2>4, <2>5
<1> HIDE DEF r
<1>3. /\ t \in Seq(Byte) /\ Len(t) = Len(s) + n
      /\ \A i \in 1 .. Len(s) + n : t[i] = IF i <= Len(s) THEN s[i] ELSE r[i - Len(s)]
  <2>1. /\ s \o r \in Seq(Byte) /\ Len(s \o r) = Len(s) + Len(r)
        /\ \A i \in 1 .. Len(s) + Len(r) :
             (s \o r)[i] = IF i <= Len(s) THEN s[i] ELSE r[i - Len(s)]
    BY <1>2, ConcatProperties, Zenon
  <2> QED
    BY <1>5, <1>2, <2>1, Zenon
<1>4. \A j \in 1 .. n : t[Len(s) + j] = o[d + j]
  <2> SUFFICES ASSUME NEW j \in 1 .. n PROVE t[Len(s) + j] = o[d + j]
    OBVIOUS
  <2>1. /\ Len(s) + j \in 1 .. Len(s) + n
        /\ ~(Len(s) + j <= Len(s))
        /\ (Len(s) + j) - Len(s) = j
    OBVIOUS
  <2> QED
    BY <1>2, <1>3, <2>1
<1>6. t \in Seq(Byte)
  BY <1>3
<1> WITNESS t \in Seq(Byte)
<1> QED
  BY <1>1, <1>3, <1>4

\* The stream after a send: what was in it, then the bytes that were accepted.
LEMMA SentBytes ==
  ASSUME TypeOK, NEW w \in Callers, NEW n \in Nat, Accept(w, n)
  PROVE  /\ stream' \in Seq(Byte)
         /\ done[w] + n <= Len(Output(w))
         /\ Len(stream') = Len(stream) + n
         /\ \A i \in 1 .. Len(stream) : stream'[i] = stream[i]
         /\ \A j \in 1 .. n : stream'[Len(stream) + j] = Output(w)[done[w] + j]
<1>1. Output(w) \in Seq(Byte) /\ stream \in Seq(Byte) /\ done[w] \in Nat
  BY OutputBytes DEF TypeOK
<1>2. /\ done[w] + n <= Len(Output(w))
      /\ stream' = stream \o SubSeq(Output(w), done[w] + 1, done[w] + n)
  BY DEF Accept
<1>3. PICK o \in Seq(Byte), d \in Nat : o = Output(w) /\ d = done[w]
  BY <1>1, Zenon
<1>6. d + n <= Len(o)
  BY <1>2, <1>3, Zenon
<1>4. PICK t \in Seq(Byte) :
        /\ t = stream \o SubSeq(o, d + 1, d + n)
        /\ Len(t) = Len(stream) + n
        /\ \A i \in 1 .. Len(stream) : t[i] = stream[i]
        /\ \A j \in 1 .. n : t[Len(stream) + j] = o[d + j]
  <2>1. d + n <= Len(o) /\ stream \in Seq(Byte)
    BY <1>1, <1>6, Zenon
  <2> QED
    BY <2>1, AppendPart, ZenonT(30)
<1>5. stream' = t
  BY <1>2, <1>3, <1>4, Zenon
<1> QED
  BY <1>2, <1>3, <1>4, <1>5, Zenon

\* A byte that is j beyond s, which is d into a part that begins c after f, is
\* d + j + c after f.
LEMMA PlaceOfByte ==
  ASSUME NEW f \in Nat, NEW d \in Nat, NEW c \in Nat, NEW p \in Nat, NEW j \in Nat,
         NEW s \in Nat, s = f + d + c, f + p = s + j
  PROVE  p = d + j + c
OBVIOUS

\* A step that sends leaves the layout of the stream as it was.
LEMMA SendLayout ==
  ASSUME IInv, ~garbled, NEW w \in Callers, Busy(w), NEW n \in Nat,
         Accept(w, n), UNCHANGED <<sent, from>>
  PROVE  Layout' /\ Len(sent) \in Nat \ {0} /\ Len(Output(w)) \in Nat
<1> USE DEF HeaderSize, Last
<1>n. PICK k \in Nat : k = Len(sent)
  BY Numbers DEF IInv
<1>s. PICK s \in Nat : s = Len(stream)
  BY Numbers DEF IInv
<1>0. /\ TypeOK /\ k \in Nat \ {0} /\ Len(sent) = k /\ Len(stream) = s
      /\ sent' = sent /\ from' = from
  BY <1>n, <1>s DEF IInv, SenderPlace
<1>1. /\ msg[w] = sent[k] /\ done[w] < Len(Output(w)) /\ done[w] \in Nat
      /\ s = from[k] + done[w] + (IF at[w] = "size" THEN 0 ELSE 4)
      /\ sent[k] \in Bodies /\ from[k] \in Nat /\ Len(sent[k]) \in Nat
  BY <1>0, Numbers DEF IInv, SenderPlace, TypeOK
<1>2. /\ Len(stream') = s + n /\ done[w] + n <= Len(Output(w))
      /\ \A i \in 1 .. s : stream'[i] = stream[i]
      /\ \A j \in 1 .. n : stream'[s + j] = Output(w)[done[w] + j]
  BY <1>0, SentBytes
<1>3. /\ from[1] = 0
      /\ \A m \in 1 .. k : from[m + 1] = from[m] + 4 + Len(sent[m])
      /\ \A m \in 1 .. k : from[m] <= s
      /\ \A m \in 1 .. k : \A p \in 1 .. 4 + Len(sent[m]) :
           from[m] + p <= s => stream[from[m] + p] = Packet(sent[m])[p]
  BY <1>0 DEF IInv, Layout
<1>4. /\ \A m \in 1 .. k + 1 : from[m] \in Nat
      /\ \A m \in 1 .. k : Len(sent[m]) \in Nat
  BY <1>0, Numbers
<1>5. /\ Len(Output(w)) = IF at[w] = "size" THEN 4 ELSE Len(sent[k])
      /\ \A j \in 1 .. Len(Output(w)) :
           Output(w)[j] = Packet(sent[k])[IF at[w] = "size" THEN j ELSE 4 + j]
  <2>1. Output(w) = IF at[w] = "size" THEN Htonl(Len(sent[k])) ELSE sent[k]
    BY <1>1, Zenon DEF Output
  <2>2. /\ Len(Htonl(Len(sent[k]))) = 4
        /\ \A p \in 1 .. 4 : Packet(sent[k])[p] = Htonl(Len(sent[k]))[p]
        /\ \A p \in 1 .. Len(sent[k]) : Packet(sent[k])[4 + p] = sent[k][p]
    BY <1>1, PacketBytes
  <2>3. CASE at[w] = "size"
    BY <2>1, <2>2, <2>3
  <2>4. CASE at[w] # "size"
    BY <2>1, <2>2, <2>4
  <2> QED
    BY <2>3, <2>4
<1>6. \A m \in 1 .. k : from[m] <= s + n
  BY <1>3, <1>4, <1>s
<1>7. s + n <= from[k + 1]
  <2>1. from[k + 1] = from[k] + 4 + Len(sent[k]) /\ done[w] + n <= Len(Output(w))
    BY <1>0, <1>2, <1>3
  <2>2. from[k] \in Nat /\ done[w] \in Nat /\ Len(sent[k]) \in Nat
    BY <1>1
  <2>0. k + 1 \in 1 .. k + 1
    BY <1>0
  <2>c. PICK f \in Nat, d \in Nat, l \in Nat, g \in Nat :
          f = from[k] /\ d = done[w] /\ l = Len(sent[k]) /\ g = from[k + 1]
    BY <1>4, <2>2, <2>0
  <2>d. f \in Nat /\ d \in Nat /\ l \in Nat
    BY <2>c
  <2>3. CASE at[w] = "size"
    <3>1. s = from[k] + done[w] + 0 /\ Len(Output(w)) = 4
      BY <1>1, <1>5, <2>3
    <3>2. s = f + d + 0 /\ g = f + 4 + l /\ d + n <= 4
      BY <2>1, <2>c, <3>1, Zenon
    <3>3. s + n <= g
      BY <2>d, <3>2
    <3> QED
      BY <2>c, <3>3, Zenon
  <2>4. CASE at[w] # "size"
    <3>1. s = from[k] + done[w] + 4 /\ Len(Output(w)) = Len(sent[k])
      BY <1>1, <1>5, <2>4
    <3>2. s = f + d + 4 /\ g = f + 4 + l /\ d + n <= l
      BY <2>1, <2>c, <3>1, Zenon
    <3>3. s + n <= g
      BY <2>d, <3>2
    <3> QED
      BY <2>c, <3>3, Zenon
  <2> QED
    BY <2>3, <2>4
<1>8. ASSUME NEW m \in 1 .. k, NEW p \in 1 .. 4 + Len(sent[m]), from[m] + p <= s + n
      PROVE  stream'[from[m] + p] = Packet(sent[m])[p]
  <2>0. from[m] \in Nat /\ Len(sent[m]) \in Nat
    BY <1>0, <1>4
  <2>1. CASE from[m] + p <= s
    <3>1. from[m] + p \in 1 .. s
      BY <2>0, <2>1
    <3>2. stream[from[m] + p] = Packet(sent[m])[p]
      BY <1>3, <2>1
    <3> QED
      BY <1>2, <3>1, <3>2
  <2>2. CASE ~(from[m] + p <= s)
    <3>1. m = k
      <4>1. SUFFICES ASSUME m \in 1 .. k - 1 PROVE FALSE
        BY <1>0
      <4>2. m + 1 \in 1 .. k
        BY <1>0, <4>1
      <4>3. from[m + 1] <= s
        BY <1>3, <4>2
      <4>4. from[m + 1] = from[m] + 4 + Len(sent[m])
        BY <1>3
      <4>5. PICK f \in Nat, l \in Nat : f = from[m] /\ l = Len(sent[m])
        BY <2>0
      <4>6. f + 4 + l <= s /\ ~(f + p <= s) /\ p \in 1 .. 4 + l
        BY <2>2, <4>3, <4>4, <4>5, Zenon
      <4> QED
        BY <1>s, <4>6
    <3>2. PICK j \in 1 .. n : from[k] + p = s + j
      <4>1. PICK f \in Nat : f = from[k]
        BY <1>1
      <4>2. f + p <= s + n /\ ~(f + p <= s) /\ p \in Nat
        BY <1>8, <2>0, <2>2, <3>1, <4>1
      <4>3. (f + p) - s \in 1 .. n /\ s + ((f + p) - s) = f + p
        BY <1>s, <4>2
      <4> QED
        BY <4>1, <4>3
    <3>3. p = done[w] + j + (IF at[w] = "size" THEN 0 ELSE 4)
      <4>1. /\ from[k] \in Nat /\ done[w] \in Nat /\ from[k] + p = s + j
            /\ s = from[k] + done[w] + (IF at[w] = "size" THEN 0 ELSE 4)
        BY <1>1, <3>2
      <4>2. p \in Nat /\ j \in Nat
        BY <2>0
      <4>3. PICK c \in Nat : c = IF at[w] = "size" THEN 0 ELSE 4
        OBVIOUS
      <4>4. s = from[k] + done[w] + c
        BY <4>1, <4>3, Zenon
      <4>5. p = done[w] + j + c
        <5>1. from[k] \in Nat /\ done[w] \in Nat /\ from[k] + p = s + j
          BY <4>1
        <5>2. PICK f \in Nat, d \in Nat : f = from[k] /\ d = done[w]
          BY <5>1
        <5>3. s = f + d + c /\ f + p = s + j
          BY <4>4, <5>1, <5>2, Zenon
        <5>4. p = d + j + c
          BY <1>s, <4>2, <5>3, PlaceOfByte
        <5> QED
          BY <5>2, <5>4, Zenon
      <4> QED
        BY <4>3, <4>5, Zenon
    <3>4. done[w] + j \in 1 .. Len(Output(w))
      <4>1. done[w] \in Nat /\ done[w] + n <= Len(Output(w)) /\ Len(Output(w)) \in Nat
        BY <1>1, <1>2, <1>5
      <4> QED
        BY <4>1
    <3>5. Output(w)[done[w] + j] = Packet(sent[k])[p]
      <4>1. CASE at[w] = "size"
        BY <1>1, <1>5, <3>3, <3>4, <4>1
      <4>2. CASE at[w] # "size"
        <5>1. p = 4 + (done[w] + j)
          BY <1>1, <3>3, <4>2
        <5> QED
          BY <1>5, <3>4, <4>2, <5>1
      <4> QED
        BY <4>1, <4>2
    <3> QED
      BY <1>2, <3>1, <3>2, <3>5
  <2> QED
    BY <2>1, <2>2
<1>9. /\ from'[1] = 0
      /\ \A m \in 1 .. k : from'[m + 1] = from'[m] + 4 + Len(sent'[m])
      /\ \A m \in 1 .. k : from'[m] <= Len(stream')
      /\ Len(stream') <= from'[k + 1]
  BY <1>0, <1>2, <1>3, <1>6, <1>7
<1>10. \A m \in 1 .. k : \A p \in 1 .. 4 + Len(sent'[m]) :
         from'[m] + p <= Len(stream') => stream'[from'[m] + p] = Packet(sent'[m])[p]
  <2> SUFFICES ASSUME NEW m \in 1 .. k, NEW p \in 1 .. 4 + Len(sent'[m]),
                      from'[m] + p <= Len(stream')
               PROVE  stream'[from'[m] + p] = Packet(sent'[m])[p]
    OBVIOUS
  <2>1. from[m] + p <= s + n /\ p \in 1 .. 4 + Len(sent[m])
    BY <1>0, <1>2
  <2> QED
    BY <1>0, <1>8, <2>1
<1>11. Layout'
  BY <1>0, <1>9, <1>10 DEF Layout
<1> QED
  BY <1>0, <1>1, <1>5, <1>11

\* What the receiver knows does not change while it does nothing and the stream
\* only grows.
LEMMA ReceiverUnmoved ==
  ASSUME IInv, UNCHANGED <<dir, receiver, sent, from>>, open' => open, ~garbled' => ~garbled
  PROVE  /\ ~garbled' => ReceiverPlace'
         /\ ReceivedAsSent'
         /\ OnlyLargeRefused'
<1>1. /\ taken' = taken /\ reader' = reader /\ want' = want /\ got' = got
      /\ received' = received /\ sent' = sent /\ from' = from /\ dir' = dir
  BY DEF receiver
<1>2. (~garbled => ReceiverPlace) /\ ReceivedAsSent /\ OnlyLargeRefused
  BY DEF IInv
<1>3. ASSUME ~garbled' PROVE ReceiverPlace'
  BY <1>1, <1>2, <1>3 DEF ReceiverPlace, Last
<1>4. ReceivedAsSent'
  BY <1>1, <1>2 DEF ReceivedAsSent
<1>5. OnlyLargeRefused'
  BY <1>1, <1>2 DEF OnlyLargeRefused
<1> QED
  BY <1>3, <1>4, <1>5

LEMMA GoOnTypes ==
  ASSUME TypeOK, Idle, NEW w \in Senders, Busy(w), GoOn(w), dir' = dir
  PROVE  /\ at' \in [Callers -> {"idle", "size", "data"}]
         /\ msg' \in [Callers -> Bodies \cup {<<>>}]
         /\ done' \in [Callers -> Nat]
         /\ Idle'
<1>1. w \in Callers
  BY DEF Senders, Callers
<1>2. /\ at' = [at EXCEPT ![w] = IF at[w] = "size" THEN "data" ELSE "idle"]
      /\ msg' = [msg EXCEPT ![w] = IF at[w] = "size" THEN msg[w] ELSE <<>>]
      /\ done' = [done EXCEPT ![w] = 0]
  BY DEF GoOn
<1>3. /\ at' \in [Callers -> {"idle", "size", "data"}]
      /\ msg' \in [Callers -> Bodies \cup {<<>>}]
      /\ done' \in [Callers -> Nat]
  BY <1>1, <1>2 DEF TypeOK
<1>4. Senders' = Senders
  BY DEF Senders
<1>5. ASSUME NEW v \in Callers
      PROVE  IF Busy(v)' THEN v \in Senders' ELSE done'[v] = 0
  <2>1. CASE v = w
    BY <1>1, <1>2, <1>4, <2>1 DEF TypeOK
  <2>2. CASE v # w
    BY <1>1, <1>2, <1>4, <2>2 DEF Idle, Busy, TypeOK
  <2> QED
    BY <2>1, <2>2
<1> QED
  BY <1>3, <1>5 DEF Idle

LEMMA SendSomeIInv ==
  ASSUME IInv, NEW w \in Senders, NEW n \in Nat, SendSome(w, n)
  PROVE  IInv'
<1> USE DEF HeaderSize, Last
<1>0. TypeOK /\ Idle /\ w \in Callers
  BY DEF IInv, Senders, Callers
<1>1. /\ Busy(w) /\ open /\ Accept(w, n)
      /\ UNCHANGED <<dir, open, sent, from, garbled, receiver>>
      /\ UNCHANGED <<taken, reader, want, got, received>>
  BY DEF SendSome, receiver
<1>2. IF SentAll(w, done[w] + n)
        THEN GoOn(w)
        ELSE done' = [done EXCEPT ![w] = @ + n] /\ UNCHANGED <<at, msg>>
  BY DEF SendSome
<1>3. /\ stream' \in Seq(Byte) /\ Len(stream') = Len(stream) + n
      /\ done[w] + n <= Len(Output(w))
  BY <1>0, <1>1, SentBytes
<1>4. /\ at' \in [Callers -> {"idle", "size", "data"}]
      /\ msg' \in [Callers -> Bodies \cup {<<>>}]
      /\ done' \in [Callers -> Nat]
      /\ Idle'
  <2>1. CASE SentAll(w, done[w] + n)
    BY <1>0, <1>1, <1>2, <2>1, GoOnTypes
  <2>2. CASE ~SentAll(w, done[w] + n)
    <3>1. done' = [done EXCEPT ![w] = done[w] + n] /\ at' = at /\ msg' = msg
      BY <1>2, <2>2
    <3>2. done' \in [Callers -> Nat]
      BY <1>0, <3>1 DEF TypeOK
    <3>3. Idle'
      BY <1>0, <1>1, <3>1 DEF Idle, Busy, Senders, TypeOK
    <3> QED
      BY <1>0, <3>1, <3>2, <3>3 DEF TypeOK
  <2> QED
    BY <2>1, <2>2
<1>5. TypeOK'
  <2>1. taken' \in 0 .. Len(stream')
    BY <1>0, <1>1, <1>3, Numbers
  <2>2. Need' = Need
    BY <1>1 DEF Need
  <2> QED
    BY <1>0, <1>1, <1>3, <1>4, <2>1, <2>2 DEF TypeOK
<1>6. ASSUME ~garbled' PROVE SenderPlace'
  <2>1. ~garbled /\ SenderPlace
    BY <1>1, <1>6 DEF IInv
  <2>2. PICK k \in Nat \ {0} : k = Len(sent)
    BY <1>0, <1>1, <2>1, SendLayout
  <2>3. /\ msg[w] = sent[k] /\ done[w] \in Nat /\ Len(sent') = k
        /\ \A v \in Callers : Busy(v) => v = w
        /\ sent[k] \in Bodies /\ Len(sent[k]) \in Nat \ {0}
        /\ from[k] \in Nat /\ from'[k] = from[k] /\ sent'[k] = sent[k]
        /\ Len(stream) \in Nat
    BY <1>0, <1>1, <2>1, <2>2, Numbers DEF SenderPlace, TypeOK
  <2>4. Len(stream) = from[k] + done[w] + (IF at[w] = "size" THEN 0 ELSE 4)
    BY <1>0, <1>1, <2>1, <2>2 DEF SenderPlace
  <2>5. Len(Output(w)) = IF at[w] = "size" THEN 4 ELSE Len(sent[k])
    BY <2>3, PacketBytes DEF Output
  <2>6. \A v \in Callers : Busy(v)' => v = w
    BY <1>0, <1>2, <2>3 DEF Busy, GoOn, TypeOK
  <2>7. from[k + 1] = from[k] + 4 + Len(sent[k])
    BY <2>1, <2>2 DEF IInv, Layout
  <2>8. CASE ~SentAll(w, done[w] + n)
    <3>1. done' = [done EXCEPT ![w] = done[w] + n] /\ at' = at /\ msg' = msg
      BY <1>2, <2>8
    <3>2. done'[w] = done[w] + n
      BY <1>0, <3>1 DEF TypeOK
    <3>3. Output(w)' = Output(w)
      BY <3>1 DEF Output
    <3>4. done'[w] < Len(Output(w))'
      <4>1. done[w] + n < Len(Output(w))
        BY <2>3, <2>5, <2>8 DEF SentAll
      <4> QED
        BY <3>2, <3>3, <4>1
    <3>5. Len(stream') = from'[k] + done'[w] + (IF at'[w] = "size" THEN 0 ELSE 4)
      <4>1. CASE at[w] = "size"
        BY <1>3, <2>3, <2>4, <3>1, <3>2, <4>1
      <4>2. CASE at[w] # "size"
        BY <1>3, <2>3, <2>4, <3>1, <3>2, <4>2
      <4> QED
        BY <4>1, <4>2
    <3>6. Busy(w)' /\ msg'[w] = sent'[k]
      BY <1>1, <2>3, <3>1 DEF Busy
    <3> QED
      BY <1>0, <2>2, <2>3, <2>6, <3>4, <3>5, <3>6 DEF SenderPlace
  <2>9. CASE SentAll(w, done[w] + n) /\ at[w] = "size"
    <3>1. done'[w] = 0 /\ at'[w] = "data" /\ msg'[w] = sent'[k]
      BY <1>0, <1>2, <2>3, <2>9 DEF GoOn, TypeOK
    <3>2. Output(w)' = sent[k]
      BY <2>3, <3>1 DEF Output
    <3>3. done[w] + n = 4
      BY <1>3, <2>3, <2>5, <2>9 DEF SentAll
    <3>4. Len(stream') = from'[k] + 4
      BY <1>3, <2>3, <2>4, <2>9, <3>3
    <3>5. Len(stream') = from'[k] + done'[w] + (IF at'[w] = "size" THEN 0 ELSE 4)
      BY <2>3, <3>1, <3>4
    <3>6. done'[w] < Len(Output(w))'
      <4>1. 0 < Len(sent[k])
        BY <2>3
      <4> QED
        BY <3>1, <3>2, <4>1
    <3>7. Busy(w)'
      BY <3>1 DEF Busy
    <3> QED
      BY <1>0, <2>2, <2>3, <2>6, <3>1, <3>5, <3>6, <3>7 DEF SenderPlace
  <2>10. CASE SentAll(w, done[w] + n) /\ at[w] # "size"
    <3>1. at'[w] = "idle"
      BY <1>0, <1>2, <2>10 DEF GoOn, TypeOK
    <3>2. \A v \in Callers : ~Busy(v)'
      BY <2>6, <3>1 DEF Busy
    <3>3. done[w] + n = Len(sent[k])
      BY <1>3, <2>3, <2>5, <2>10 DEF SentAll
    <3>4. Len(stream) = from[k] + done[w] + 4
      BY <2>4, <2>10
    <3>5. Len(stream') = from[k + 1]
      <4>1. from[k] \in Nat /\ done[w] \in Nat /\ Len(sent[k]) \in Nat
        BY <2>3
      <4>2. Len(stream') = Len(stream) + n
        BY <1>3
      <4> QED
        BY <2>7, <3>3, <3>4, <4>1, <4>2
    <3>6. from'[k + 1] = from[k + 1]
      BY <1>1
    <3> QED
      BY <2>3, <3>2, <3>5, <3>6 DEF SenderPlace
  <2> QED
    BY <2>8, <2>9, <2>10
<1>7. ASSUME ~garbled' PROVE Layout'
  BY <1>0, <1>1, <1>7, SendLayout
<1> QED
  BY <1>1, <1>4, <1>5, <1>6, <1>7, ReceiverUnmoved DEF IInv

LEMMA ShortSendIInv == ASSUME IInv, ShortSend PROVE IInv'
<1>1. /\ dir = "up" /\ Busy(Game) /\ GoOn(Game) /\ garbled' = TRUE
      /\ UNCHANGED <<dir, open, stream, sent, from, receiver>>
      /\ UNCHANGED <<taken, reader, want, got, received>>
  BY DEF ShortSend, receiver
<1>2. TypeOK /\ Idle /\ Game \in Senders /\ Need' = Need
  BY <1>1 DEF IInv, Senders, Need
<1>3. /\ at' \in [Callers -> {"idle", "size", "data"}]
      /\ msg' \in [Callers -> Bodies \cup {<<>>}]
      /\ done' \in [Callers -> Nat]
      /\ Idle'
  BY <1>1, <1>2, GoOnTypes
<1>4. TypeOK'
  BY <1>1, <1>2, <1>3 DEF TypeOK
<1> QED
  BY <1>1, <1>3, <1>4, ReceiverUnmoved DEF IInv

LEMMA SendFailsIInv == ASSUME IInv, NEW w \in Senders, SendFails(w) PROVE IInv'
<1>1. /\ Busy(w) /\ ~open
      /\ at' = [at EXCEPT ![w] = "idle"]
      /\ msg' = [msg EXCEPT ![w] = <<>>]
      /\ done' = [done EXCEPT ![w] = 0]
      /\ UNCHANGED <<dir, open, stream, sent, from, garbled, receiver>>
      /\ UNCHANGED <<taken, reader, want, got, received>>
  BY DEF SendFails, receiver
<1>2. TypeOK /\ Idle /\ w \in Callers /\ Need' = Need /\ Senders' = Senders
  BY <1>1 DEF IInv, Senders, Callers, Need
<1>3. TypeOK'
  BY <1>1, <1>2 DEF TypeOK
<1>4. Idle'
  BY <1>1, <1>2 DEF Idle, Busy, TypeOK
<1>5. ASSUME ~garbled' PROVE Layout' /\ SenderPlace'
  <2>1. Layout /\ SenderPlace
    BY <1>1, <1>5 DEF IInv
  <2>2. Layout'
    BY <1>1, <2>1 DEF Layout, Last
  <2>3. \A v \in Callers : Busy(v) => v = w
    BY <1>1, <1>2, <2>1 DEF SenderPlace
  <2>4. \A v \in Callers : ~Busy(v)'
    BY <1>1, <1>2, <2>3 DEF Busy, TypeOK
  <2> QED
    BY <1>1, <2>2, <2>4 DEF SenderPlace
<1> QED
  BY <1>1, <1>3, <1>4, <1>5, ReceiverUnmoved DEF IInv

LEMMA CloseIInv == ASSUME IInv, Close PROVE IInv'
<1>1. /\ open /\ open' = FALSE
      /\ UNCHANGED <<dir, stream, senders, receiver>>
      /\ UNCHANGED <<at, msg, done, sent, from, garbled>>
      /\ UNCHANGED <<taken, reader, want, got, received>>
  BY DEF Close, senders, receiver
<1>2. TypeOK'
  BY <1>1 DEF IInv, TypeOK, Need
<1>3. Idle'
  BY <1>1 DEF IInv, Idle, Busy, Senders
<1>4. ASSUME ~garbled' PROVE Layout' /\ SenderPlace'
  <2>1. Layout /\ SenderPlace
    BY <1>1, <1>4 DEF IInv
  <2>2. Layout'
    BY <1>1, <2>1 DEF Layout, Last
  <2>3. \A v \in Callers : Busy(v)' = Busy(v) /\ Output(v)' = Output(v)
    BY <1>1 DEF Busy, Output
  <2> QED
    BY <1>1, <2>1, <2>2, <2>3 DEF SenderPlace, Last
<1> QED
  BY <1>1, <1>2, <1>3, <1>4, ReceiverUnmoved DEF IInv

\* What the senders know does not change while the receiver works.
LEMMA SenderUnmoved ==
  ASSUME IInv, UNCHANGED <<dir, open, stream, senders>>
  PROVE  Idle' /\ (~garbled' => Layout' /\ SenderPlace')
<1>1. /\ dir' = dir /\ open' = open /\ stream' = stream /\ at' = at /\ msg' = msg
      /\ done' = done /\ sent' = sent /\ from' = from /\ garbled' = garbled
  BY DEF senders
<1>2. \A v \in Callers : Busy(v)' = Busy(v) /\ Output(v)' = Output(v)
  BY <1>1 DEF Busy, Output
<1>3. Idle'
  BY <1>1, <1>2 DEF IInv, Idle, Senders
<1>4. ASSUME ~garbled PROVE Layout' /\ SenderPlace'
  <2>1. Layout /\ SenderPlace
    BY <1>4 DEF IInv
  <2>2. Layout'
    BY <1>1, <2>1 DEF Layout, Last
  <2> QED
    BY <1>1, <1>2, <2>1, <2>2 DEF SenderPlace, Last
<1> QED
  BY <1>1, <1>3, <1>4

LEMMA RecvSomeIInv == ASSUME IInv, NEW n \in Nat, RecvSome(n) PROVE IInv'
<1>1. /\ reader # "ended" /\ got + n <= Need /\ taken + n <= Len(stream)
      /\ got' = got + n /\ taken' = taken + n
      /\ UNCHANGED <<dir, open, stream, senders>>
      /\ UNCHANGED <<at, msg, done, sent, from, garbled, reader, want, received>>
  BY DEF RecvSome, senders
<1>2. TypeOK /\ Need' = Need
  BY <1>1 DEF IInv, Need
<1>3. got \in Nat /\ taken \in Nat /\ got <= taken /\ Len(stream) \in Nat
  BY <1>2, Numbers
<1>4. TypeOK'
  <2>1. got' \in 0 .. Need' /\ got' <= taken' /\ taken' \in 0 .. Len(stream')
    BY <1>1, <1>2, <1>3 DEF TypeOK
  <2> QED
    BY <1>1, <1>2, <2>1 DEF TypeOK
<1>5. ASSUME ~garbled PROVE ReceiverPlace'
  <2>1. ReceiverPlace
    BY <1>5 DEF IInv
  <2>2. PICK m : m = Len(received) + 1
    OBVIOUS
  <2>3. m \in 1 .. Len(sent) + 1 /\ from[m] \in Nat
    BY <1>2, <1>5, <2>2, Numbers DEF IInv, ReceivedAsSent
  <2>4. /\ reader = "size" => taken = from[m] + got
        /\ reader = "data" => /\ m <= Last /\ want = Len(sent[m])
                              /\ taken = from[m] + HeaderSize + got
    BY <2>1, <2>2 DEF ReceiverPlace
  <2>5. /\ reader = "size" => taken' = from[m] + got'
        /\ reader = "data" => taken' = from[m] + HeaderSize + got'
    <3>1. PICK f \in Nat, g \in Nat, t \in Nat : f = from[m] /\ g = got /\ t = taken
      BY <1>3, <2>3
    <3>2. t = f + g => t + n = f + (g + n)
      BY <3>1
    <3>3. t = f + 4 + g => t + n = f + 4 + (g + n)
      BY <3>1
    <3> QED
      BY <1>1, <2>4, <3>1, <3>2, <3>3, Zenon DEF HeaderSize
  <2> QED
    BY <1>1, <2>2, <2>4, <2>5 DEF ReceiverPlace, Last
<1>6. ReceivedAsSent' /\ OnlyLargeRefused'
  BY <1>1 DEF IInv, ReceivedAsSent, OnlyLargeRefused
<1> QED
  BY <1>1, <1>4, <1>5, <1>6, SenderUnmoved DEF IInv

LEMMA RecvFailsIInv == ASSUME IInv, RecvFails PROVE IInv'
<1>1. /\ ~open /\ reader' = "ended" /\ want' = 0 /\ got' = 0
      /\ UNCHANGED <<dir, open, stream, senders, taken, received>>
      /\ UNCHANGED <<at, msg, done, sent, from, garbled>>
  BY DEF RecvFails, senders
<1>2. TypeOK'
  <2>1. want' \in Nat /\ Need' = 0 /\ got' \in 0 .. Need' /\ got' <= taken'
    BY <1>1, Numbers DEF IInv, Need
  <2> QED
    BY <1>1, <2>1 DEF IInv, TypeOK
<1>3. ReceiverPlace' /\ OnlyLargeRefused'
  BY <1>1 DEF ReceiverPlace, OnlyLargeRefused
<1>4. ReceivedAsSent'
  BY <1>1 DEF IInv, ReceivedAsSent
<1> QED
  BY <1>1, <1>2, <1>3, <1>4, SenderUnmoved DEF IInv

\* The place in the stream of a byte of the body that is in the buffer.
LEMMA PlaceInBuffer ==
  ASSUME NEW f \in Nat, NEW g \in Nat, NEW t \in Nat, NEW l \in Nat, NEW i \in Nat,
         1 <= i, i <= g, t = f + 4 + g, t <= l
  PROVE  4 + i \in 1 .. 4 + g /\ f + (4 + i) <= l /\ (t - g) + i = f + (4 + i)
OBVIOUS

LEMMA NtohlNat ==
  ASSUME NEW h, h[1] \in Byte, h[2] \in Byte, h[3] \in Byte, h[4] \in Byte
  PROVE  Ntohl(h) \in Nat
<1>1. PICK a \in Byte, b \in Byte, c \in Byte, d \in Byte :
        a = h[1] /\ b = h[2] /\ c = h[3] /\ d = h[4]
  OBVIOUS
<1>2. 256 * (256 * (256 * a + b) + c) + d \in Nat
  BY DEF Byte
<1> QED
  BY <1>1, <1>2, Zenon DEF Ntohl

\* What the receiver has in its buffer, as a sequence.
LEMMA ReceivedBytes ==
  ASSUME TypeOK
  PROVE  /\ Received \in Seq(Byte) /\ Len(Received) = got
         /\ \A i \in 1 .. got : Received[i] = stream[(taken - got) + i]
<1>1. /\ stream \in Seq(Byte) /\ Len(stream) \in Nat /\ got \in Nat /\ taken \in Nat
      /\ got <= taken /\ taken <= Len(stream)
  BY Numbers DEF TypeOK
<1>2. PICK d \in Nat : d = taken - got
  BY <1>1
<1>3. /\ d + 1 \in Int /\ d + got = taken /\ got \in Nat /\ d + got \in Int
      /\ Received = SubSeq(stream, d + 1, d + got)
  BY <1>1, <1>2 DEF Received
<1>4. \A i \in d + 1 .. d + got : stream[i] \in Byte
  <2> SUFFICES ASSUME NEW i \in d + 1 .. d + got PROVE stream[i] \in Byte
    OBVIOUS
  <2>1. i \in 1 .. Len(stream)
    BY <1>1, <1>2, <1>3
  <2> QED
    BY <1>1, <2>1, ElementOfSeq
<1>5. /\ Received \in Seq(Byte)
      /\ Len(Received) = IF d + 1 <= d + got THEN (d + got) - (d + 1) + 1 ELSE 0
      /\ \A i \in 1 .. (d + got) - (d + 1) + 1 : Received[i] = stream[(d + 1) + i - 1]
  <2>1. /\ SubSeq(stream, d + 1, d + got) \in Seq(Byte)
        /\ Len(SubSeq(stream, d + 1, d + got)) =
             IF d + 1 <= d + got THEN (d + got) - (d + 1) + 1 ELSE 0
        /\ \A i \in 1 .. (d + got) - (d + 1) + 1 :
             SubSeq(stream, d + 1, d + got)[i] = stream[(d + 1) + i - 1]
    BY <1>3, <1>4, SubSeqProperties
  <2> QED
    BY <1>3, <2>1, Zenon
<1>6. Len(Received) = got
  BY <1>1, <1>2, <1>5
<1>7. ASSUME NEW i \in 1 .. got PROVE Received[i] = stream[d + i]
  <2>1. i \in 1 .. (d + got) - (d + 1) + 1 /\ (d + 1) + i - 1 = d + i
    BY <1>1, <1>2
  <2> QED
    BY <1>5, <2>1
<1> QED
  BY <1>2, <1>5, <1>6, <1>7

\* The receiver has read the size that the sender of the message wrote.
LEMMA SizeAsSent ==
  ASSUME IInv, ~garbled, reader = "size", got = HeaderSize, NEW m, m = Len(received) + 1
  PROVE  /\ m \in 1 .. Len(sent) /\ taken = from[m] + 4
         /\ Ntohl(Received) = Len(sent[m])
<1> USE DEF HeaderSize, Last
<1>0. TypeOK /\ got = 4
  BY DEF IInv
<1>1. Len(received) \in Nat /\ Len(received) <= Len(sent) /\ Len(sent) \in Nat
      /\ Len(stream) \in Nat /\ taken \in Nat /\ taken <= Len(stream)
  BY <1>0, Numbers DEF IInv, ReceivedAsSent
<1>2. m \in 1 .. Len(sent) + 1 /\ taken = from[m] + 4 /\ from[m] \in Nat
  BY <1>0, <1>1, Numbers DEF IInv, ReceiverPlace
<1>3. m \in 1 .. Len(sent)
  <2>1. SUFFICES ASSUME m = Len(sent) + 1 PROVE FALSE
    BY <1>1, <1>2
  <2>2. Len(stream) <= from[m]
    BY <2>1 DEF IInv, Layout
  <2> QED
    BY <1>1, <1>2, <2>2
<1>4. PICK b \in Bodies : b = sent[m]
  BY <1>0, <1>3, Numbers
<1>5. /\ Len(b) \in Nat /\ Htonl(Len(b)) \in Seq(Byte) /\ Len(Htonl(Len(b))) = 4
      /\ Ntohl(Htonl(Len(b))) = Len(b)
      /\ \A p \in 1 .. 4 : Packet(b)[p] = Htonl(Len(b))[p]
  BY PacketBytes
<1>6. /\ Received \in Seq(Byte) /\ Len(Received) = 4
      /\ \A i \in 1 .. 4 : Received[i] = stream[(taken - 4) + i]
  BY <1>0, ReceivedBytes
<1>7. ASSUME NEW i \in 1 .. 4 PROVE Received[i] = Htonl(Len(b))[i]
  <2>1. i \in 1 .. 4 + Len(sent[m]) /\ from[m] + i <= Len(stream) /\ (taken - 4) + i = from[m] + i
    <3>1. Len(sent[m]) \in Nat /\ i \in Nat /\ 1 <= i /\ i <= 4
      BY <1>4, <1>5
    <3>2. from[m] \in Nat /\ taken = from[m] + 4 /\ Len(stream) \in Nat /\ taken <= Len(stream)
      BY <1>1, <1>2
    <3> QED
      BY <3>1, <3>2
  <2>2. stream[from[m] + i] = Packet(sent[m])[i]
    BY <1>3, <2>1 DEF IInv, Layout
  <2> QED
    BY <1>4, <1>5, <1>6, <2>1, <2>2
<1>8. Received = Htonl(Len(b))
  BY <1>5, <1>6, <1>7, SeqEqual
<1> QED
  BY <1>2, <1>3, <1>4, <1>5, <1>8

LEMMA ReadSizeIInv == ASSUME IInv, ReadSize PROVE IInv'
<1>1. /\ reader = "size" /\ got = HeaderSize
      /\ want' = Ntohl(Received)
      /\ reader' = IF Refused(want') THEN "ended" ELSE "data"
      /\ got' = 0
      /\ UNCHANGED <<dir, open, stream, senders, taken, received>>
      /\ UNCHANGED <<at, msg, done, sent, from, garbled>>
  BY DEF ReadSize, senders
<1>2. TypeOK /\ taken \in Nat /\ reader' \in {"ended", "data"}
  BY <1>1, Numbers DEF IInv
<1>3. want' \in Nat
  <2>1. Received \in Seq(Byte) /\ Len(Received) = 4
    BY <1>1, <1>2, ReceivedBytes DEF HeaderSize
  <2>2. PICK r \in Seq(Byte) : r = Received /\ Len(r) = 4
    BY <2>1
  <2>3. r[1] \in Byte /\ r[2] \in Byte /\ r[3] \in Byte /\ r[4] \in Byte
    BY <2>2, ElementOfSeq
  <2>4. Ntohl(r) \in Nat
    BY <2>3, NtohlNat, Zenon
  <2> QED
    BY <1>1, <2>2, <2>4
<1>4. TypeOK'
  <2>1. Need' = want' /\ got' \in 0 .. Need' /\ got' <= taken'
    BY <1>1, <1>2, <1>3 DEF Need
  <2> QED
    BY <1>1, <1>2, <1>3, <2>1 DEF TypeOK
<1>5. ReceivedAsSent'
  BY <1>1 DEF IInv, ReceivedAsSent
<1>6. ASSUME ~garbled'
      PROVE  ReceiverPlace' /\ OnlyLargeRefused'
  <2>1. PICK m : m = Len(received) + 1
    OBVIOUS
  <2>2. /\ m \in 1 .. Len(sent) /\ taken = from[m] + 4
        /\ want' = Len(sent[m]) /\ Len(sent[m]) \in Nat \ {0}
    BY <1>1, <1>2, <1>6, <2>1, SizeAsSent, Numbers
  <2>3. from[m] \in Nat /\ Len(sent) \in Nat /\ Len(received) \in Nat
    BY <1>2, <2>2, Numbers
  <2>4. ReceiverPlace'
    BY <1>1, <1>2, <2>1, <2>2, <2>3 DEF ReceiverPlace, Last, HeaderSize
  <2>5. OnlyLargeRefused'
    <3>1. SUFFICES ASSUME reader' = "ended"
                   PROVE  dir = "down" /\ Len(received) < Len(sent) /\ Len(sent[m]) > ReadChunk
      BY <1>1, <2>1 DEF OnlyLargeRefused
    <3>2. Refused(want')
      BY <1>1, <3>1
    <3> QED
      BY <2>1, <2>2, <2>3, <3>2 DEF Refused
  <2> QED
    BY <2>4, <2>5
<1>7. OnlyLargeRefused'
  BY <1>6 DEF OnlyLargeRefused
<1> QED
  BY <1>1, <1>4, <1>5, <1>6, <1>7, SenderUnmoved DEF IInv

LEMMA DeliverIInv == ASSUME IInv, Deliver PROVE IInv'
<1>1. /\ reader = "data" /\ got = want
      /\ received' = Append(received, Received)
      /\ reader' = "size" /\ want' = 0 /\ got' = 0
      /\ UNCHANGED <<dir, open, stream, senders, taken>>
      /\ UNCHANGED <<at, msg, done, sent, from, garbled>>
  BY DEF Deliver, senders
<1>2. /\ TypeOK /\ taken \in Nat /\ received \in Seq(Seq(Byte))
      /\ Len(received) \in Nat /\ Len(sent) \in Nat /\ Len(stream) \in Nat
      /\ taken <= Len(stream)
  BY Numbers DEF IInv, TypeOK
<1>3. /\ Received \in Seq(Byte) /\ Len(Received) = got
      /\ \A i \in 1 .. got : Received[i] = stream[(taken - got) + i]
  BY <1>2, ReceivedBytes
<1>4. PICK r \in Seq(Byte) : r = Received
  BY <1>3
<1>5. /\ received' \in Seq(Seq(Byte)) /\ Len(received') = Len(received) + 1
      /\ \A i \in 1 .. Len(received) : received'[i] = received[i]
      /\ received'[Len(received) + 1] = r
  BY <1>1, <1>2, <1>4, AppendProperties
<1>6. TypeOK'
  <2>1. want' \in Nat /\ Need' = 4 /\ got' \in 0 .. Need' /\ got' <= taken'
    BY <1>1, <1>2 DEF Need, HeaderSize
  <2> QED
    BY <1>1, <1>2, <1>5, <2>1 DEF TypeOK
<1>7. ASSUME ~garbled'
      PROVE  ReceiverPlace' /\ ReceivedAsSent'
  <2>1. PICK m \in Nat : m = Len(received) + 1
    BY <1>2
  <2>2. /\ m <= Len(sent) /\ got = Len(sent[m]) /\ taken = from[m] + 4 + got
    BY <1>1, <1>7, <2>1 DEF IInv, ReceiverPlace, Last, HeaderSize
  <2>3. m \in 1 .. Len(sent)
    BY <1>2, <2>1, <2>2
  <2>4. sent[m] \in Bodies /\ from[m] \in Nat /\ got \in Nat
    BY <1>2, <2>3, Numbers
  <2>5. sent[m] \in Seq(Byte) /\ \A p \in 1 .. Len(sent[m]) : Packet(sent[m])[4 + p] = sent[m][p]
    BY <2>4, PacketBytes
  <2>6. ASSUME NEW i \in 1 .. got PROVE r[i] = sent[m][i]
    <3>1. 4 + i \in 1 .. 4 + Len(sent[m]) /\ from[m] + (4 + i) <= Len(stream)
          /\ (taken - got) + i = from[m] + (4 + i)
      <4>1. got \in Nat /\ from[m] \in Nat /\ i \in Nat /\ 1 <= i /\ i <= got
        BY <2>4
      <4>2. taken = from[m] + 4 + got /\ taken <= Len(stream) /\ Len(stream) \in Nat
        BY <1>2, <2>2
      <4>3. Len(sent[m]) = got
        BY <2>2
      <4>4. /\ 4 + i \in 1 .. 4 + got
            /\ from[m] + (4 + i) <= Len(stream)
            /\ (taken - got) + i = from[m] + (4 + i)
        <5>1. PICK f \in Nat, g \in Nat, t \in Nat, l \in Nat :
                f = from[m] /\ g = got /\ t = taken /\ l = Len(stream)
          BY <1>2, <4>1, <4>2
        <5>2. i \in Nat /\ 1 <= i /\ i <= g /\ t = f + 4 + g /\ t <= l
          BY <4>1, <4>2, <5>1, Zenon
        <5>3. 4 + i \in 1 .. 4 + g /\ f + (4 + i) <= l /\ (t - g) + i = f + (4 + i)
          BY <5>2, PlaceInBuffer, SMT
        <5> QED
          BY <5>1, <5>3, Zenon
      <4> QED
        BY <4>3, <4>4, Zenon
    <3>2. stream[from[m] + (4 + i)] = Packet(sent[m])[4 + i]
      BY <1>1, <1>7, <2>3, <3>1 DEF IInv, Layout, Last, HeaderSize
    <3>3. r[i] = stream[(taken - got) + i]
      BY <1>3, <1>4
    <3> QED
      BY <2>2, <2>5, <3>1, <3>2, <3>3
  <2>7. r = sent[m]
    BY <1>3, <1>4, <2>2, <2>5, <2>6, SeqEqual
  <2>8. ReceivedAsSent'
    <3>1. Len(received') <= Len(sent') /\ Len(received') = m /\ sent' = sent
      BY <1>1, <1>5, <2>1, <2>2
    <3>2. ASSUME NEW i \in 1 .. m PROVE received'[i] = sent[i]
      <4>1. CASE i = m
        BY <1>5, <2>1, <2>7, <4>1
      <4>2. CASE i # m
        <5>1. i \in 1 .. Len(received)
          BY <1>2, <2>1, <4>2
        <5>2. received[i] = sent[i]
          BY <1>1, <1>7, <5>1 DEF IInv, ReceivedAsSent
        <5> QED
          BY <1>5, <5>1, <5>2
      <4> QED
        BY <4>1, <4>2
    <3> QED
      BY <3>1, <3>2 DEF ReceivedAsSent
  <2>9. from[m + 1] = from[m] + 4 + Len(sent[m])
    BY <1>1, <1>7, <2>3 DEF IInv, Layout, Last, HeaderSize
  <2>10. ReceiverPlace'
    <3>1. taken = from[m + 1] /\ taken = from[m + 1] + 0
      BY <1>2, <2>2, <2>9
    <3>2. Len(received') + 1 = m + 1
      BY <1>5, <2>1
    <3> QED
      BY <1>1, <3>1, <3>2 DEF ReceiverPlace
  <2> QED
    BY <2>8, <2>10
<1>8. ReceivedAsSent' /\ OnlyLargeRefused'
  BY <1>1, <1>7 DEF ReceivedAsSent, OnlyLargeRefused
<1> QED
  BY <1>1, <1>6, <1>7, <1>8, SenderUnmoved DEF IInv

\* IInv is inductive.
LEMMA NextIInv == ASSUME IInv, [Next]_vars PROVE IInv'
<1>1. CASE UNCHANGED vars
  <2>1. /\ UNCHANGED <<dir, open, stream, senders>>
        /\ UNCHANGED <<dir, receiver, sent, from>> /\ open' = open /\ garbled' = garbled
    BY <1>1 DEF vars, senders
  <2>2. TypeOK'
    BY <1>1 DEF vars, senders, receiver, IInv, TypeOK, Need
  <2> QED
    BY <2>1, <2>2, SenderUnmoved, ReceiverUnmoved DEF IInv
<1>2. ASSUME NEW w \in Senders, NEW n \in 1 .. Room, SendSome(w, n) PROVE IInv'
  BY <1>2, SendSomeIInv
<1>3. ASSUME NEW n \in 1 .. Room, RecvSome(n) PROVE IInv'
  BY <1>3, RecvSomeIInv
<1> QED
  BY <1>1, <1>2, <1>3, BeginIInv, SendFailsIInv, ShortSendIInv, CloseIInv,
     ReadSizeIInv, DeliverIInv, RecvFailsIInv
     DEF Next, Sender, Receiver

LEMMA Invariant == Spec => []IInv
<1>1. IInv /\ [Next]_vars => IInv'
  BY NextIInv
<1> QED
  BY InitIInv, <1>1, PTL DEF Spec

\* Every variable keeps its type; a receiver has never more bytes than it asked
\* for, nor more than were sent.
THEOREM TypeCorrect == Spec => []TypeOK
<1>1. IInv => TypeOK
  BY DEF IInv
<1> QED
  BY <1>1, Invariant, PTL

\* Messages are received whole and in the order in which they were sent, as long
\* as no two sends overlap and none is cut short.
THEOREM MessagesReceivedAsSent == Spec => []ReceivedAsSent
<1>1. IInv => ReceivedAsSent
  BY DEF IInv
<1> QED
  BY <1>1, Invariant, PTL

\* As long as that holds, the receiver leaves an open connection only because of
\* a message that is larger than the client takes.
THEOREM OnlyLargeGivenUp == Spec => []OnlyLargeRefused
<1>1. IInv => OnlyLargeRefused
  BY DEF IInv
<1> QED
  BY <1>1, Invariant, PTL
===============================================================================
