------------------------------ MODULE ServerMain ------------------------------
(***************************************************************************)
(* The server's process from main to its end: it reads the section of the  *)
(* database from its configuration, sets up Winsock and the listening      *)
(* socket, and gives every client that it accepts a handler, which works   *)
(* on the accounts (UserStore).  Each call of the system may fail.         *)
(*                                                                         *)
(* A line of the configuration is a sequence of marks and words; a word is *)
(* whatever has no blank and no mark in it.                                *)
(***************************************************************************)
EXTENDS UserStore, Integers, Sequences

CONSTANTS
  Files,  \* what config.ini may hold; no lines if there is no such file
  Right   \* the settings with which the database lets a handler connect

Keys == {"Host", "Port", "User", "Password", "Schema"}
ASSUME RightAssumption == DOMAIN Right = Keys
ASSUME FilesAssumption == Files \subseteq Seq(Seq(STRING))

VARIABLES
  phase,         \* what main does next, see Phases
  file,          \* ParseSection: the lines, the next one, bInSection, KeyValueMap
  next,
  inSection,
  pairs,
  settings,      \* DBUrl (Host and Port), DBUser, DBPass and Schema
  ListenSocket,  \* "invalid" or a handle
  sock,          \* what the handle stands for: "none" once it is closed
  winsock        \* how often Winsock has been started and not cleaned up

mvars == <<phase, file, next, inSection, pairs, settings, ListenSocket, sock, winsock>>

Phases == {"parse", "driver", "winsock", "socket", "bind", "listen", "serve",
           "close", "destroy", "exit"}

MainInit ==
  /\ Init
  /\ phase = "parse"
  /\ file \in Files /\ next = 1 /\ inSection = FALSE /\ pairs = << >>
  /\ settings = [k \in Keys |-> <<>>]
  /\ ListenSocket = "invalid" /\ sock = "none" /\ winsock = 0

------------------------------------------------------------------------------
(* IniParser::ParseSection.                                                 *)

Tag == <<"[", "Database", "]">>

\* trim
Trimmed(s) ==
  LET solid(i) == s[i] # " "
      inside == {i \in DOMAIN s : /\ \E j \in 1 .. i : solid(j)
                                  /\ \E j \in i .. Len(s) : solid(j)}
  IN  IF inside = {} THEN <<>>
      ELSE SubSeq(s, CHOOSE i \in inside : \A j \in inside : i <= j,
                     CHOOSE i \in inside : \A j \in inside : i >= j)

\* Comments are not trimmed, nor are headers: "[Database] " is none.
IsSkipped(l) == l = <<>> \/ Head(l) \in {"#", ";"}
IsHeader(l) == ~IsSkipped(l) /\ Head(l) = "[" /\ l[Len(l)] = "]"
IsPair(l) == ~IsSkipped(l) /\ ~IsHeader(l) /\ \E i \in DOMAIN l : l[i] = "="

\* The first one: a value may contain another.
Equals(l) == CHOOSE i \in DOMAIN l : l[i] = "=" /\ \A j \in 1 .. i - 1 : l[j] # "="
Key(l) == Trimmed(SubSeq(l, 1, Equals(l) - 1))
Value(l) == Trimmed(SubSeq(l, Equals(l) + 1, Len(l)))

Put(key, value) == [k \in DOMAIN pairs \cup {key} |-> IF k = key THEN value ELSE pairs[k]]

\* The section does not end where another one begins.
BadParseLine ==
  /\ phase = "parse" /\ next <= Len(file)
  /\ LET l == file[next]
     IN  /\ inSection' = (inSection \/ l = Tag)
         /\ pairs' = IF inSection /\ IsPair(l) THEN Put(Key(l), Value(l)) ELSE pairs
  /\ next' = next + 1
  /\ UNCHANGED <<phase, file, settings, ListenSocket, sock, winsock>>
ParseLine ==
  /\ phase = "parse" /\ next <= Len(file)
  /\ LET l == file[next]
     IN  /\ inSection' = IF IsHeader(l) THEN l = Tag ELSE inSection
         /\ pairs' = IF inSection /\ IsPair(l) THEN Put(Key(l), Value(l)) ELSE pairs
  /\ next' = next + 1
  /\ UNCHANGED <<phase, file, settings, ListenSocket, sock, winsock>>

\* DatabaseManager::Initialize: a key that is not there is the empty string,
\* which nobody notices before the first connection.
TakeSettings ==
  /\ phase = "parse" /\ next > Len(file)
  /\ settings' = [k \in Keys |-> IF <<k>> \in DOMAIN pairs THEN pairs[<<k>>] ELSE <<>>]
  /\ file' = <<>> /\ next' = 1 /\ inSection' = FALSE /\ pairs' = << >>
  /\ phase' = "driver"
  /\ UNCHANGED <<ListenSocket, sock, winsock>>

------------------------------------------------------------------------------
(* Server::Initialize.                                                      *)

Parsed == UNCHANGED <<file, next, inSection, pairs, settings>>

\* WSACleanup: without a start that it answers to, it does nothing.  The last
\* one closes what sockets are left.
WSACleanup ==
  /\ winsock' = IF winsock > 0 THEN winsock - 1 ELSE 0
  /\ sock' = "none"

\* get_driver_instance
GetDriver ==
  /\ phase = "driver"
  /\ phase' \in {"winsock", "destroy"}
  /\ Parsed /\ UNCHANGED <<ListenSocket, sock, winsock>>

WSAStartup ==
  /\ phase = "winsock"
  /\ \/ phase' = "socket" /\ winsock' = winsock + 1
     \/ phase' = "destroy" /\ UNCHANGED winsock
  /\ Parsed /\ UNCHANGED <<ListenSocket, sock>>

Socket ==
  /\ phase = "socket"
  /\ \/ phase' = "bind" /\ ListenSocket' = "handle" /\ sock' = "open" /\ UNCHANGED winsock
     \/ phase' = "destroy" /\ ListenSocket' = "invalid" /\ WSACleanup
  /\ Parsed

\* When the port is taken, Initialize closes the socket and returns 1: main
\* takes it for true and calls Run, with the handle of a closed socket.
Bind ==
  /\ phase = "bind" /\ phase' = "listen"
  /\ \/ sock' = "bound" /\ UNCHANGED winsock
     \/ WSACleanup
  /\ Parsed /\ UNCHANGED ListenSocket

------------------------------------------------------------------------------
(* Server::Run and Server::Close.                                           *)

\* Winsock is not cleaned up.
BadClose == ListenSocket' = "invalid" /\ sock' = "none" /\ UNCHANGED winsock
Close == ListenSocket' = "invalid" /\ WSACleanup

\* Run goes on to accept although listen has failed.
BadListen ==
  /\ phase = "listen" /\ phase' = "serve"
  /\ \/ winsock > 0 /\ sock = "bound" /\ sock' = "listening"
     \/ UNCHANGED sock
  /\ Parsed /\ UNCHANGED <<ListenSocket, winsock>>
Listen ==
  /\ phase = "listen"
  /\ \/ /\ winsock > 0 /\ sock = "bound"
        /\ phase' = "serve" /\ sock' = "listening" /\ UNCHANGED <<ListenSocket, winsock>>
     \/ phase' = "close" /\ Close
  /\ Parsed

\* main, after Run, and the destructor.
CloseInMain == phase = "close" /\ phase' = "destroy" /\ Close /\ Parsed
Destroy == phase = "destroy" /\ phase' = "exit" /\ Close /\ Parsed

\* accept, and HandleClient in a thread of its own.  The database may refuse it
\* a connection, and does so whenever the settings are wrong: the client is let
\* go.  An accept that fails is tried again.
Accept(h) == phase = "serve" /\ settings = Right /\ GetConnection(h)
Refuse == phase = "serve" /\ UNCHANGED <<vars, mvars>>

Serve(h) ==
  \/ Accept(h) \/ CloseClient(h) \/ Handler(h)
  \/ \E r \in Requests : Receive(h, r)

Main ==
  \/ ParseLine \/ TakeSettings \/ GetDriver \/ WSAStartup \/ Socket \/ Bind
  \/ Listen \/ CloseInMain \/ Destroy

Terminated == phase = "exit" /\ UNCHANGED <<vars, mvars>>

MainNext ==
  \/ Main /\ UNCHANGED vars
  \/ \E h \in Handlers : Serve(h) /\ UNCHANGED mvars
  \/ Refuse
  \/ Terminated

allvars == <<vars, mvars>>
MainSpec == MainInit /\ [][MainNext]_allvars

\* Handlers run.
LiveMainSpec == MainSpec /\ \A h \in Handlers : WF_allvars(Handler(h) /\ UNCHANGED mvars)

------------------------------------------------------------------------------
(* Properties.                                                              *)

\* Line i of f belongs to the section: the last header before it is the tag.
Belongs(f, i) ==
  \E j \in 1 .. i - 1 : f[j] = Tag /\ \A k \in j + 1 .. i - 1 : ~IsHeader(f[k])
Assigning(f, k) == {i \in DOMAIN f : Belongs(f, i) /\ IsPair(f[i]) /\ Key(f[i]) = <<k>>}

\* The setting of a key is the value in the last line that assigns it within
\* the section, wherever the section is opened, left and opened again, and
\* empty if there is none (IniParser.cpp:31, 45).
ParsesAsWritten ==
  [][phase' = "driver" /\ phase # "driver" =>
       \A k \in Keys :
         IF Assigning(file, k) = {} THEN settings'[k] = <<>>
         ELSE \E i \in Assigning(file, k) :
                /\ settings'[k] = Value(file[i])
                /\ \A j \in Assigning(file, k) : j <= i]_mvars

\* Clients are served only from a socket that is bound and listening, although
\* Initialize reports a bind that failed as a success (server.cpp:64).
Working == \E h \in Handlers : pc[h] # "closed"
ServesListening ==
  phase = "serve" \/ Working =>
    phase = "serve" /\ ListenSocket = "handle" /\ sock = "listening" /\ winsock = 1

\* On whatever path the process ends, Winsock is cleaned up and no socket is
\* left; a handle whose socket is closed is used again, by listen and by a
\* second closesocket, only when Winsock is down and refuses it
\* (server.cpp:64, 74, 91).
SocketReleased ==
  /\ phase = "exit" => winsock = 0 /\ sock = "none"
  /\ ListenSocket = "handle" /\ sock = "none" => winsock = 0
===============================================================================
