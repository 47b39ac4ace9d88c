--------------------------- MODULE ServerMainProofs ---------------------------
(***************************************************************************)
(* What holds of the process for all configurations, handlers and accounts: *)
(* the state of socket and Winsock follows from where main is.  The steps  *)
(* of the handlers are those of UserStore, so what is proved of its        *)
(* specification holds of the whole process.                               *)
(***************************************************************************)
EXTENDS ServerMain, UserStoreProofs

\* The listening socket and Winsock in each phase, and no handler before the
\* last but one.
Has(handle, state, starts) ==
  ListenSocket = handle /\ sock = state /\ winsock = starts
MInv ==
  /\ phase \in Phases
  /\ phase \in {"parse", "driver", "winsock"} => Has("invalid", "none", 0)
  /\ phase = "socket" => Has("invalid", "none", 1)
  /\ phase = "bind" => Has("handle", "open", 1)
  /\ phase = "listen" => Has("handle", "bound", 1) \/ Has("handle", "none", 0)
  /\ phase = "serve" => Has("handle", "listening", 1)
  /\ phase \in {"close", "destroy", "exit"} => Has("invalid", "none", 0)
  /\ phase # "serve" => \A h \in Handlers : pc[h] = "closed"

LEMMA InitMInv == MainInit => MInv
BY DEF MainInit, Init, MInv, Has, Phases

\* A step of main leaves the handlers alone, and a handler's the rest.
LEMMA MainMInv == ASSUME MInv, Main, UNCHANGED vars PROVE MInv'
<1>0. UNCHANGED pc
  BY DEF vars
<1>1. CASE ParseLine
  BY <1>0, <1>1 DEF ParseLine, MInv, Has
<1>2. CASE TakeSettings
  BY <1>0, <1>2 DEF TakeSettings, MInv, Has, Phases
<1>3. CASE GetDriver
  BY <1>0, <1>3 DEF GetDriver, MInv, Has, Phases
<1>4. CASE WSAStartup
  BY <1>0, <1>4 DEF WSAStartup, MInv, Has, Phases
<1>5. CASE Socket
  BY <1>0, <1>5 DEF Socket, WSACleanup, MInv, Has, Phases
<1>6. CASE Bind
  BY <1>0, <1>6 DEF Bind, WSACleanup, MInv, Has, Phases
<1>7. CASE Listen
  BY <1>0, <1>7 DEF Listen, Close, WSACleanup, MInv, Has, Phases
<1>8. CASE CloseInMain
  BY <1>0, <1>8 DEF CloseInMain, Close, WSACleanup, MInv, Has, Phases
<1>9. CASE Destroy
  BY <1>0, <1>9 DEF Destroy, Close, WSACleanup, MInv, Has, Phases
<1> QED
  BY <1>1, <1>2, <1>3, <1>4, <1>5, <1>6, <1>7, <1>8, <1>9 DEF Main

\* A handler works only in a process that serves.
LEMMA ServeWhileServing ==
  ASSUME MInv, NEW h \in Handlers, Serve(h) PROVE phase = "serve"
<1>1. SUFFICES ASSUME pc[h] = "closed" PROVE phase = "serve"
  BY DEF MInv
<1>2. ~CloseClient(h) /\ ~Handler(h) /\ \A r \in Requests : ~Receive(h, r)
  BY <1>1 DEF CloseClient, Handler, CheckUserId, CheckNickname, Insert, Login, Throw,
              Respond, Receive, Statements
<1> QED
  BY <1>2 DEF Serve, Accept

LEMMA NextMInv == ASSUME MInv, [MainNext]_allvars PROVE MInv'
<1>1. CASE UNCHANGED <<vars, mvars>>
  BY <1>1 DEF vars, mvars, MInv, Has
<1>2. CASE Main /\ UNCHANGED vars
  BY <1>2, MainMInv
<1>3. ASSUME NEW h \in Handlers, Serve(h), UNCHANGED mvars PROVE MInv'
  BY <1>3, ServeWhileServing DEF mvars, MInv, Has
<1> QED
  BY <1>1, <1>2, <1>3 DEF MainNext, allvars, Refuse, Terminated

LEMMA AlwaysMInv == MainSpec => []MInv
BY InitMInv, NextMInv, PTL DEF MainSpec

\* Clients are served only from a socket that is bound and listening, whichever
\* call fails and whatever the configuration holds.
THEOREM AlwaysServesListening == MainSpec => []ServesListening
<1>1. MInv => ServesListening
  BY DEF MInv, Has, ServesListening, Working
<1> QED
  BY AlwaysMInv, <1>1, PTL

\* Every path to the end of the process releases what it has taken, and a closed
\* handle is used only when Winsock is down.
THEOREM AlwaysSocketReleased == MainSpec => []SocketReleased
<1>1. MInv => SocketReleased
  BY DEF MInv, Has, SocketReleased, Phases
<1> QED
  BY AlwaysMInv, <1>1, PTL

\* The process is a user store: to the accounts its steps are those of the
\* handlers or nothing.
THEOREM MainImplementsUserStore == MainSpec => Spec
<1>1. MainInit => Init
  BY DEF MainInit
<1>2. ASSUME [MainNext]_allvars PROVE [Next]_vars
  BY <1>2 DEF MainNext, allvars, Serve, Accept, Next, Refuse, Terminated
<1> QED
  BY <1>1, <1>2, PTL DEF MainSpec, Spec

\* So in the whole process sign-ups and logins are as if one at a time, and who
\* has been told that an account is made can log in with it.
THEOREM MainLinearizable == MainSpec => Linearizable /\ AnsweredCanLogin
BY MainImplementsUserStore, Implements, LoginWorks
------------------------------------------------------------------------------
(* The parser.  It goes through the lines once and remembers no more than    *)
(* whether it is in the section and what the last line said of each key;    *)
(* ParsesAsWritten looks at the file as a whole.                            *)

\* Before line next the parser is in the section if that line belongs to it, and
\* has for a key what the last of the lines before it assigns.
Passed(k) == {i \in Assigning(file, k) : i < next}
Remembered(k) ==
  IF Passed(k) = {} THEN <<k>> \notin DOMAIN pairs
  ELSE <<k>> \in DOMAIN pairs
       /\ \E i \in Passed(k) : pairs[<<k>>] = Value(file[i]) /\ \A j \in Passed(k) : j <= i
PInv ==
  phase = "parse" =>
    /\ file \in Files /\ next \in 1 .. Len(file) + 1
    /\ inSection \in BOOLEAN /\ (inSection <=> Belongs(file, next))
    /\ \A k \in Keys : Remembered(k)

LEMMA TagIsHeader == IsHeader(Tag)
BY DEF IsHeader, IsSkipped, Tag

LEMMA FileIsSeq ==
  ASSUME NEW f \in Files PROVE Len(f) \in Nat /\ DOMAIN f = 1 .. Len(f)
BY FilesAssumption

\* Whether a line belongs to the section follows from the line before it.
LEMMA BelongsNext ==
  ASSUME NEW f, NEW n \in Nat \ {0}
  PROVE  Belongs(f, n + 1) <=> IF IsHeader(f[n]) THEN f[n] = Tag ELSE Belongs(f, n)
<1>1. CASE f[n] = Tag
  <2>1. n \in 1 .. (n + 1) - 1 /\ \A k \in n + 1 .. (n + 1) - 1 : ~IsHeader(f[k])
    OBVIOUS
  <2> QED
    BY <1>1, <2>1, TagIsHeader DEF Belongs
<1>2. CASE f[n] # Tag /\ IsHeader(f[n])
  <2>1. ASSUME NEW j \in 1 .. (n + 1) - 1, f[j] = Tag,
               \A k \in j + 1 .. (n + 1) - 1 : ~IsHeader(f[k])
        PROVE  FALSE
    <3>1. j < n
      BY <1>2, <2>1
    <3>2. n \in j + 1 .. (n + 1) - 1
      BY <3>1
    <3> QED
      BY <1>2, <2>1, <3>2
  <2> QED
    BY <1>2, <2>1 DEF Belongs
<1>3. CASE ~IsHeader(f[n])
  <2>0. f[n] # Tag
    BY <1>3, TagIsHeader
  <2>1. ASSUME NEW j \in 1 .. n - 1
        PROVE  (\A k \in j + 1 .. (n + 1) - 1 : ~IsHeader(f[k]))
                 <=> (\A k \in j + 1 .. n - 1 : ~IsHeader(f[k]))
    <3>1. \A k \in j + 1 .. (n + 1) - 1 : k = n \/ k \in j + 1 .. n - 1
      OBVIOUS
    <3>2. \A k \in j + 1 .. n - 1 : k \in j + 1 .. (n + 1) - 1
      OBVIOUS
    <3> QED
      BY <1>3, <3>1, <3>2, Zenon
  <2>2. \A j \in 1 .. (n + 1) - 1 : j = n \/ j \in 1 .. n - 1
    OBVIOUS
  <2>3. \A j \in 1 .. n - 1 : j \in 1 .. (n + 1) - 1
    OBVIOUS
  <2> QED
    BY <1>3, <2>0, <2>1, <2>2, <2>3, Zenon DEF Belongs
<1> QED
  BY <1>1, <1>2, <1>3, TagIsHeader

LEMMA InitPInv == MainInit => PInv
<1> SUFFICES ASSUME MainInit PROVE PInv
  OBVIOUS
<1>1. file \in Files /\ next = 1 /\ inSection = FALSE /\ pairs = << >>
  BY DEF MainInit
<1>2. next \in 1 .. Len(file) + 1
  BY <1>1, FileIsSeq
<1>3. ~Belongs(file, next)
  BY <1>1 DEF Belongs
<1>4. ASSUME NEW k \in Keys PROVE Remembered(k)
  <2>1. Passed(k) = {}
    BY <1>1, FileIsSeq DEF Passed, Assigning
  <2> QED
    BY <1>1, <2>1 DEF Remembered
<1> QED
  BY <1>1, <1>2, <1>3, <1>4 DEF PInv

LEMMA ParseLinePInv == ASSUME PInv, ParseLine PROVE PInv'
<1> DEFINE l == file[next]
<1>1. /\ phase = "parse" /\ next <= Len(file) /\ file' = file /\ next' = next + 1
      /\ inSection' = IF IsHeader(l) THEN l = Tag ELSE inSection
      /\ pairs' = IF inSection /\ IsPair(l) THEN Put(Key(l), Value(l)) ELSE pairs
  BY DEF ParseLine
<1>2. /\ file \in Files /\ next \in 1 .. Len(file) + 1
      /\ inSection \in BOOLEAN /\ (inSection <=> Belongs(file, next))
      /\ \A k \in Keys : Remembered(k)
  BY <1>1 DEF PInv
<1>3. /\ Len(file) \in Nat /\ DOMAIN file = 1 .. Len(file)
      /\ next \in Nat \ {0} /\ next \in DOMAIN file /\ next' \in 1 .. Len(file') + 1
  BY <1>1, <1>2, FileIsSeq
<1>4. inSection' \in BOOLEAN /\ (inSection' <=> Belongs(file, next + 1))
  BY <1>1, <1>2, <1>3, BelongsNext
<1>5. ASSUME NEW k \in Keys PROVE Remembered(k)'
  <2>1. next \in Assigning(file, k) <=> inSection /\ IsPair(l) /\ Key(l) = <<k>>
    BY <1>2, <1>3 DEF Assigning
  <2>2. Assigning(file, k) \subseteq Nat
    BY <1>3 DEF Assigning
  <2>3. Passed(k)' = {i \in Assigning(file, k) : i < next + 1}
    BY <1>1 DEF Passed
  <2>4. Remembered(k)
    BY <1>2
  <2>5. CASE next \in Assigning(file, k)
    <3>1. pairs' = Put(<<k>>, Value(l))
      BY <1>1, <2>1, <2>5
    <3>2. <<k>> \in DOMAIN pairs' /\ pairs'[<<k>>] = Value(file[next])
      BY <3>1 DEF Put
    <3>3. next \in Passed(k)' /\ \A j \in Passed(k)' : j <= next
      BY <1>3, <2>2, <2>3, <2>5
    <3>4. Passed(k)' # {}
      BY <3>3
    <3> HIDE DEF l
    <3> QED
      BY <1>1, <3>2, <3>3, <3>4, Zenon DEF Remembered
  <2>6. CASE next \notin Assigning(file, k)
    <3>1. Passed(k)' = Passed(k)
      BY <1>3, <2>2, <2>3, <2>6 DEF Passed
    <3>2. (<<k>> \in DOMAIN pairs' <=> <<k>> \in DOMAIN pairs)
      <4>1. CASE inSection /\ IsPair(l)
        BY <1>1, <2>1, <2>6, <4>1 DEF Put
      <4> QED
        BY <1>1, <4>1
    <3>3. <<k>> \in DOMAIN pairs => pairs'[<<k>>] = pairs[<<k>>]
      <4>1. CASE inSection /\ IsPair(l)
        BY <1>1, <2>1, <2>6, <4>1 DEF Put
      <4> QED
        BY <1>1, <4>1
    <3> QED
      BY <1>1, <2>4, <3>1, <3>2, <3>3, Zenon DEF Remembered
  <2> QED
    BY <2>5, <2>6
<1> HIDE DEF l
<1>6. phase' = "parse"
  BY DEF ParseLine
<1> QED
  BY <1>1, <1>2, <1>3, <1>4, <1>5 DEF PInv

\* No other step begins with a file to be parsed.
LEMMA NextPInv == ASSUME PInv, [MainNext]_allvars PROVE PInv'
<1>1. CASE UNCHANGED mvars
  BY <1>1 DEF mvars, PInv, Remembered, Passed
<1>2. CASE ParseLine
  BY <1>2, ParseLinePInv
<1>3. ASSUME Main, ~ParseLine PROVE PInv'
  <2>1. phase' # "parse"
    BY <1>3 DEF Main, TakeSettings, GetDriver, WSAStartup, Socket, Bind, Listen,
                CloseInMain, Destroy
  <2> QED
    BY <2>1 DEF PInv
<1> QED
  BY <1>1, <1>2, <1>3 DEF MainNext, allvars, Refuse, Terminated

\* What the database is given is what the file says: of every key the last value
\* within the section, whatever lines and sections the file has.
THEOREM ParsesEveryFile == MainSpec => ParsesAsWritten
<1> DEFINE AsWritten ==
      phase' = "driver" /\ phase # "driver" =>
        \A k \in Keys :
          IF Assigning(file, k) = {} THEN settings'[k] = <<>>
          ELSE \E i \in Assigning(file, k) :
                 /\ settings'[k] = Value(file[i])
                 /\ \A j \in Assigning(file, k) : j <= i
<1>1. ASSUME PInv, [MainNext]_allvars PROVE [AsWritten]_mvars
  <2>1. SUFFICES ASSUME Main, phase' = "driver", phase # "driver", NEW k \in Keys
                 PROVE  IF Assigning(file, k) = {} THEN settings'[k] = <<>>
                        ELSE \E i \in Assigning(file, k) :
                               /\ settings'[k] = Value(file[i])
                               /\ \A j \in Assigning(file, k) : j <= i
    BY <1>1 DEF MainNext, allvars, mvars, Refuse, Terminated
  <2>2. TakeSettings
    BY <2>1 DEF Main, ParseLine, GetDriver, WSAStartup, Socket, Bind, Listen,
                CloseInMain, Destroy
  <2>3. /\ phase = "parse" /\ next > Len(file)
        /\ settings'[k] = IF <<k>> \in DOMAIN pairs THEN pairs[<<k>>] ELSE <<>>
    BY <2>1, <2>2 DEF TakeSettings
  <2>4. file \in Files /\ next \in 1 .. Len(file) + 1 /\ Remembered(k)
    BY <1>1, <2>3 DEF PInv
  <2>5. Passed(k) = Assigning(file, k)
    BY <2>3, <2>4, FileIsSeq DEF Passed, Assigning
  <2> QED
    BY <2>3, <2>4, <2>5, Zenon DEF Remembered
<1>2. MainSpec => []PInv
  BY InitPInv, NextPInv, PTL DEF MainSpec
<1> QED
  BY <1>1, <1>2, PTL DEF MainSpec, ParsesAsWritten
===============================================================================
