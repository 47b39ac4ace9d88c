# Specifications of the lobby and login system

This directory holds TLA+ specifications of the login server
(`src/TCPLoginServer`) and of the network side of the game client
(`src/Source/ServerTest`), their TLC configurations and TLAPS proofs. Players
sign up and log in over TCP, see who else is in the lobby, say that they are
ready, and when at least two are present and all are ready the server counts
down and sends them to the dedicated game server. The repository has no
written specification; what the code promises is taken from its comments, its
names and the protocol schema (`src/Protocols/LoginProtocol.fbs`).

Contents: 1 the system, 2 modules and code, 3 runs, 4 bounds, 5 fairness,
6 assumptions, 7 proofs, 8 what is not covered, 9 plan.

## 1. The system

### Components, their state and operations

| Component | Source | State | Operations |
|---|---|---|---|
| Session table | `server.cpp`, `server.h`, `PlayerSession.h` | `PlayerSessionMap` (token to session), `TokenByPlayerIdMap`, `TokenBySocketMap`, guarded by `SessionMutex` (`std::shared_mutex`) | login, player list, ready request, cleanup, `BroadcastPacket` |
| Countdown | `server.cpp` 389-458, 610-689 | `bIsCountdownRunning` (atomic), `CountdownThread` (an unguarded `shared_ptr<std::thread>`), `Remaining` of each thread | `IsCanStartCountdown`, `StartCountdown`, `StopCountdown`, the thread's body |
| User store | `DB/DatabaseManager.*`, `DB/DBQueryStatus.h` | table `users` in MySQL, a connection per thread | `GetConnection`, `SignUp`, `Login` |
| Wire framing | `server.cpp` 478-571, `LoginClientSubsystem.cpp` 177-329 | the bytes in transit on a socket, counters local to each loop | `SendAll`, `RecvAll`, `SendFlatBufferMessage`, `ReceiveFlatBufferMessage`; `RecvLoop`, `RecvAllBlocking` |
| Messages | `Protocols/LoginProtocol.fbs`, `LoginProtocol_generated.h`, `Process*`, `Broadcast*`, `Send*Request` on both sides | the builder of one message | build, verify and read one message |
| FlatBuffers | `Libraries/flatbuffers`: `flatbuffer_builder.h`, `vector_downward.h`, `verifier.h`, `table.h`, `vector.h`, `string.h`, `buffer.h`, `base.h` | one block of memory, filled from both ends, offsets of the table under way | create strings, vectors and tables; verify; access |
| Server lifecycle | `main.cpp`, `server.cpp` 18-125 | `ListenSocket` | `Initialize`, `Run`, `Close` |
| Configuration | `Utils/IniParser.*`, `DatabaseManager::Initialize` | the lines read, the section they are in, the pairs found | `ParseSection` |
| Session tokens | `Utils/UuidHelper.h` | none | `GenerateSessionToken`, `UuidToString` |
| Schemas as data | `Libraries/flatbuffers/reflection_generated.h` | the builder of one schema | create, verify, read, look up by key |
| Client connection | `LoginClientSubsystem.*` 20-329 | `Socket` (plain pointer), `bRunRecv` (atomic), `LoginRecvThread`, `NetworkTimerHandle`, `RecvPackets` (single-producer queue) | `ConnectToServer`, `DisconnectFromServer`, `NetworkPolling`, `RecvLoop` |
| Player controller | `MyPlayerController.*` | none | travels to the game server |

The console program in `src/TCPLoginClientTest` sends raw text to port 8881;
it speaks neither the protocol nor the port (29825) of the server. The
FlatBuffers headers are vendored whole; the messages of this program run
through eight of them, and those are modelled as far as they do. A ninth,
`reflection_generated.h`, has schemas themselves as FlatBuffers. Server and
client do not use it, but it runs through the same builder and verifier as
their messages and asks more of them, so it is modelled too. The engine's
content and the build files are not the program's own logic.

### Interaction

- `main` reads the database's section of the configuration, opens the listening
  socket and runs; whichever call fails, it closes what it has opened.
- `Run` accepts sockets and starts one detached `HandleClient` thread for
  each. A handler takes a database connection, then loops: receive a message,
  verify it, call the handler of its kind. It ends when the client has gone,
  with `CleanUpClientSession` and `closesocket`.
- Handlers share the three maps under `SessionMutex`: login inserts and cleanup
  erases in exclusive mode; the list, the broadcasts, the ready request and the
  scan of `IsCanStartCountdown` use shared mode.
- `BroadcastPacket` sends to every session's socket while it holds the shared
  lock. It is called by handlers and by countdown threads.
- A ready request writes `CurrentState` (under the shared lock), broadcasts it
  and then starts or stops the countdown. Starting spawns a detached thread,
  which ticks, broadcasts and tests `bIsCountdownRunning`.
- A message is a FlatBuffer with its length before it: two calls of
  `SendFlatBufferMessage`'s loop. No lock is held per socket, so the response of
  a handler and the broadcasts of other threads may meet on one socket.
- Each end verifies a whole message before it looks inside, and then reads it
  through accessors that check nothing. The server gives up a client whose
  message does not pass; the client passes over it.
- On the client a worker thread receives and fills `RecvPackets`; the game
  thread polls it every 100 ms. An empty packet is the worker's last word and
  makes the game thread disconnect.

### What is hard, and what correctness means

| Component | Hard behaviour | Properties |
|---|---|---|
| Session table | inserts, erasures and broadcasts of several handlers cross; a token looked up under one lock is used under another; joins and leaves are announced outside the section that makes them true; a nested shared lock | indices and table agree; no session outlives its handler; a broadcast visits open sockets only; no phantom player is left on a client's screen; logins and cleanups complete |
| Countdown | a decision is stale when it is carried out; a stopped thread and the next countdown share one flag; an unguarded `shared_ptr` | the flag is never set without an owner; one countdown at a time, shown without gaps; the game starts at zero; the last ready request leads to a start; a countdown ends |
| User store | three statements per sign-up without a transaction around them; a statement that fails after it took effect | sign-ups and logins take effect one at a time; an account that was confirmed can log in; every request is answered |
| Wire framing | `send` and `recv` take or return parts; several threads send on one socket; the client does not look at how much it has sent | messages are received whole, in order, and all of them, as long as sends neither overlap nor are cut short; only too large a message ends an open connection |
| Messages | two programs agree on some twenty functions that build, and as many that read; memory grows while a message is built in it; tables share vtables; what overlapping sends leave behind may still pass the verifier | what was put in is read out; no assertion of the library fails; whatever bytes arrive, what passes the verifier is read within its bounds |
| Start and end | each call may fail, at least one failure is reported as a success, and three places close the socket; what a line of the configuration means hangs on the lines before it | clients are served from a listening socket only; every path gives everything back; a setting is the last value its section gives it |
| Session tokens | formatted digit by digit; the failure of a login has a token too, and the failure of `UuidCreate` an empty one | a login that succeeds is told from one that fails and from all others |
| Schemas as data | vectors are sorted while they are written and searched by another comparison; strings are shared; a builder is cleared in the middle of its work | what was written is read, every key is found, a used builder is as good as a new one |
| Client connection | the socket is destroyed while the worker is in a call on it; the end of the worker is a packet in a queue that outlives it | one producer; markers belong to the current connection; packets are handed over in order and once; a close is noticed |

`PROJECT.json` lists the hazards that server and client meet one by one, with the line
at which they bite.

## 2. Modules and code

| Module | What it is |
|---|---|
| `LobbySessions` | the session table, its lock, the handlers and broadcasts |
| `Countdown` | the countdown decisions and threads |
| `LobbyServer` | the two composed: the countdown on the real table, under the real lock, with what reaches the clients |
| `LoginClient` | the client's connection, worker and polling |
| `Delivery` | abstract: what `LoginClient` promises the game |
| `UserStore` | sign-up and login, statement by statement |
| `UserRegistry` | abstract: what `UserStore` promises its callers |
| `Wire` | one direction of a connection, byte by byte |
| `FlatBuffers` | the accessors and the verifier as functions of a message's bytes |
| `Protocol` | the schema, and the verifier of each of its tables |
| `Reader` | a receiver: verify, dispatch, read field by field; for any bytes |
| `Reflection` | the tables of a schema as data, with their layouts and keys |
| `SchemaReading` | their verifiers and accessors, and the search in sorted vectors |
| `Builder` | the calls of `FlatBufferBuilder`, on bytes |
| `SessionTokens` | a UUID as the characters of a token |
| `Messages` | every message of both sides built, sent, perhaps garbled, and received: `Builder` and `Reader` composed |
| `SchemaFiles` | the writing and reading of schemas as buffers, beside those of messages |
| `ServerMain` | the process: configuration, start-up, listening socket, and `UserStore` while it serves |
| `*Proofs` | theorems about the module of that name |
| `MC*` | what TLC runs: the module, with symmetry sets where they are used |

`LobbySessions` and `Countdown` both extend over `ProcessGameReadyRequest`.
Each has the other as an environment that is hardly constrained: in
`LobbySessions` a scan may be skipped, a stop may be announced, and a countdown
thread may broadcast at any time; in `Countdown` sessions appear and vanish at
any time at which no scan holds the lock. `LobbyServer` is the two as one
program, and implements both: `SessionsRefined` and `CountdownRefined` are
theorems, so that what is safe in the parts is safe in the whole, under the
restriction that connections log in once. In `LobbyServer`, as in `Countdown`, a
client sends the token it was given, while `LobbySessions` lets a ready request
carry anyone's. Liveness does not carry over in this way; the deadlock of
`sessions_nested_lock` stops the countdown's handlers too.

`LobbySessions`, `Countdown` and `LoginClient` take messages for whole and for
what their kind says. `Wire` and `Messages` show when that is so: while sends on
a socket do not overlap and the client's are not cut short. `Reader` is the
link between the two: its receiver takes any sequence of bytes, and `Messages`
hands it those that were built or garbled.

In all modules a definition whose name begins with `Bad` is the definition
after it with a plausible mistake. No specification uses these; they are there
to show that the properties notice such a mistake.

### LobbySessions

A thread is a connection's handler (`Conns`, named by its socket handle, which
can be used again after it is closed) or a countdown thread (`Timers`). `pc`
is the place a thread is at, `job` what it is broadcasting with the handler's
locals, `todo` the loop of `BroadcastPacket`.

| Code | Actions |
|---|---|
| `Run`, `HandleClient` start | `Accept` |
| `ProcessLoginRequest` up to the broadcast of the join | `LoginRequest` |
| its exclusive section | `Enqueue`, `Insert` |
| `BroadcastPacket` | `BroadcastLock`, `Send` per session, `BroadcastDone` |
| `ProcessPlayerListRequest` | `ListRequest` (under the lock), `ListResponse` (after it) |
| `ProcessGameReadyRequest` | `ReadyRequest`, or `UnknownToken`; then `SkipScan`, or `BeginScan` and `EndScan`; then `Return` or `AnnounceStop` |
| `CleanUpClientSession` | `Lookup` (shared), `Enqueue`, `Erase` (exclusive), then the broadcast of the leave |
| `closesocket` | `Close` |
| the countdown threads | `TimerBroadcast` |

An exclusive section is one step because what it touches is read only under
the mutex. The mutex is an SRW lock, as in the Microsoft library the project
is built with: shared requests wait while the lock is held and an exclusive
one is queued (`CanShare`), and recursion is not recognised.

`view` is not state of the server. It records, for each client, the players it
has been told are in the lobby, so that properties can speak about the order in
which joins, leaves and lists reach a client.

### Countdown

Every access to `bIsCountdownRunning`, every member call on `CountdownThread`
and every session visited by the scan is a step of its own. `handle` is the
thread object `CountdownThread` refers to, `joinable` says which thread objects
have been neither joined nor detached, and `held` which thread a handler has in
hand: the one it has just made, or the one it waits for in `join()`.

| Code | Actions |
|---|---|
| `IsCanStartCountdown` | `CheckFlag`, `CountPlayers`, `ScanOne` per session, `ScanDone` |
| what its caller does if it returns false | `ConsiderStop` |
| `StartCountdown` | `CompareExchange`; `TestOld` and `DetachOld`; `Create`, after which the new thread runs, and `Assign`, which replaces `CountdownThread`; `Detach` |
| `StopCountdown` | `ReadFlag`, `ClearFlag`, `TestJoinable`, `CallJoin`, `JoinReturns`, `ResetHandle`, `BroadcastStop` |
| the countdown thread | `Loop`, `BroadcastTick`, `Sleep`, `Final`, `BroadcastStartGame`, `FlagReset` |

A call on the wrong thread object sets
`crashed` (`std::terminate` or undefined behaviour), after which nothing runs.
The unguarded `shared_ptr` could also be torn by a data race; each of its member
calls is taken for atomic, so that what is shown to go wrong goes wrong even in
the kindest build. `shown` is the last countdown message broadcast.

`steady` is not state of the server either: it is true until the first request
that takes readiness back. The flag admits one countdown at a time, and what
is shown is in order, as long as it is.

### LobbyServer

The variables are those of both modules, with `step` for the `pc` of `Countdown`: a
handler or countdown thread is at `pc` in the session table and at `step` in the
countdown. `C` is the instance of `Countdown` whose players are the connections,
whose `state` is read from the real maps (`State`) and whose scans are those of the
tokens that a handler has still to count (`unread`).

| Code | Actions |
|---|---|
| all that the countdown has no part in | `SessionStep`, `InsertStep`, `EraseStep`, `BroadcastStep`, `SendStep` |
| `ProcessGameReadyRequest` up to the broadcast | `ReadyStep` |
| `IsCanStartCountdown` | `CheckFlagStep`, `CountPlayers` (under the lock), `ScanOne` per session, `ScanDone` (the lock goes) |
| `StartCountdown`, `StopCountdown` | `DecideStep`: the actions of `Countdown`, one at a time |
| the end of `StopCountdown` | `StopStep`: begins a broadcast to the table |
| the countdown thread | `TimerStep`; `TimerSays` begins a broadcast, and the thread goes on when it is over |

`said`, `told` and `crossed` are history: the countdown message a thread is
broadcasting; the last one that each client has been sent, or that was announced
before it was in the table; and whether a broadcast about the countdown has ever
begun while another was on its way. `ClientsFollow` says with them that, until that
happens, each client in the table has been sent all that was announced, in order,
or is one message behind with the broadcast on its way to it; and that it does not
happen before someone takes readiness back.

### LoginClient and Delivery

The worker reads the plain pointer `Socket` once per step (`Loop`,
`CheckSocket`, `CallSocket`); a call on the socket starts in one step and
returns in another (`WaitReturns`, `Received`, `ReceiveFails`). If the game
thread destroys the object in between (`CallOnFreed`) the call may fail or the
process may crash. `DisconnectFromServer` is five steps: `Disconnect`,
`StopPolling`, the three of `CloseSocket`, and `Join`. Packets are numbered per
connection; number 0 is the empty packet.

`Delivery` has four actions (connect, send, deliver, disconnect). It is
implemented under `up <- Socket`: setting the pointer to null is the abstract
disconnection.

### UserStore and UserRegistry

Each SQL statement is an atomic step of a handler: `CheckUserId`,
`CheckNickname`, `Insert`, `Login`. `Throw` is a statement that fails; an
insert may have been done when its connection breaks. The nickname check is
translated as it stands: it compares the nickname with the userids
(`DatabaseManager.cpp:87`), whatever the comments around it say (see 3).

In `UserRegistry` a request takes effect in one step between call and answer.
The refinement maps a handler between two statements to a pending request and
takes the row's insertion, or the read that decides the answer, as the moment
of effect. `UserRegistry` promises nothing of nicknames: it may refuse any sign-up
for its nickname, and lets two accounts have one. What it does promise is about
userids and passwords.

### ServerMain

`phase` is what `main` does next. `ParseLine` takes one line of the
configuration, `TakeSettings` is the end of `DatabaseManager::Initialize`; each of
`GetDriver`, `WSAStartup`, `Socket`, `Bind` and `Listen` is a call that succeeds or
fails, with what the code does then; `CloseInMain` and `Destroy` are the second
and third time that the socket is closed. `sock` is what the handle
`ListenSocket` stands for: `Bind` may leave a handle whose socket is closed, with
Winsock cleaned up, because `Initialize` then returns 1, which `main` takes for
true; only `listen`'s refusal keeps that server from serving. While the process
serves, the actions of `UserStore` are its steps (`Serve`), and a handler gets its
connection only if the settings are the right ones.

The console says that the server listens on port 8881 (`server.cpp:99`); it binds
29825 (`server.cpp:57`). Ports are not in the model.

### Wire

One direction of one connection: from the server, whose handlers and countdown
threads (`Threads`) all send on it, or from the client's game thread (`Game`).

| Code | Actions |
|---|---|
| `SendFlatBufferMessage` | `Begin`, and `GoOn` from the length to the body |
| the loop of `SendAll` | `SendSome` (any part `send` accepts), `SendFails` |
| the client's `Send`, once for each piece | `SendSome`, or `ShortSend` when the rest is forgotten |
| the loops of `RecvAll`, `RecvAllBlocking` | `RecvSome`, `RecvFails` |
| `ReceiveFlatBufferMessage`, `RecvLoop` | `ReadSize` (with the client's limit), `Deliver` |
| `closesocket`, `Close` on either side | `Close` |

`sent`, `from` and `garbled` are history: what was sent, where it belongs in the
stream, and whether sends have overlapped or been cut short.

### FlatBuffers, Protocol, Reader

`FlatBuffers` has, for each accessor, what it returns and which bytes it
reads, and the tests of the verifier. `Protocol` has the schema as data, with the
order in which each `Create` function adds fields, and from it `Verify` of each
table. A default is what the accessor returns for a field that is not there; an
assertion or a dereferenced null pointer is a state of its own.

`Reader` reads one field per step. `touched` is the set of places read by the
step, so that reading outside the message is something an invariant can
see. The server's `HandleClient`, `ProcessPacket` and handlers and the client's
`NetworkPolling`, `ProcessPacket` and handlers are the same steps, with their
own tables (`Handled`) and their own answer to a message that does not pass.

### Builder, Messages

`Builder` has the state of a `FlatBufferBuilder` as a record: the bytes of
the buffer, the size of the memory, the offsets of the fields of the table
under way, the vtables written so far, and `asserts`, which becomes false when an
assertion of the library fails; among them that the buffer and the scratch pad do
not meet, and that the buffer stays below the largest size (`EnsureSpace`). `Messages` describes each message of `server.cpp` and
`LoginClientSubsystem.cpp` by the calls that build it, in their order, and makes
one call per step; what the receiver is then to read is stated with it.
`Garbled` puts another message, or its length alone, into one at any place.

`Responses` has every status of the database: `SignUpStatus` and `LoginStatus` are
cast to `ErrorCode` by number (`server.cpp:215`), so that the client reads
`Login_Fail_UserNotFound` where the server meant a userid that exists; only
`Success` is the same name in all three. Tokens are those of `SessionTokens`: the
UUIDs of the instance as `UuidToString` writes them, or the empty one.

The bytes these definitions build were compared with those that the headers in
`src/` build when compiled (login request and response, a list of three
players, countdown, start of the game, list request, join): they are the same.

### Reflection, SchemaReading, SchemaFiles

`Reflection` has the ten tables of `reflection_generated.h` as `Protocol` has those of the
messages, with defaults other than 0, alignments up to 8, deprecated fields and
keys; `SchemaReading` has the functions that verify, read and search (`Get`,
`LookupByKey`). Tables of a schema hold one another, so that these are recursive;
they have a module of their own, which `Messages` does not reach.
`SchemaFiles` writes a schema in the order the `Create...Direct` functions do, one
call of the builder per step: strings made one by one, shared, or a vector of
them at once; with or without the size before it, the options `ForceDefaults` and
`DedupVtables`; and, with the builder cleared, reset or released after the end or
in the middle, once more (`Reuse`). A behaviour of `SchemaFiles` is one of
`Messages` or writes one schema, so that both are one run.

## 3. Runs

Runs that pass:

| Run | Instance | What it shows |
|---|---|---|
| `sessions_tables` | 3 connections, 2 accounts, 3 tokens, 1 countdown thread; ready requests; symmetry | `SocketIndexExact`, `PlayerIndexComplete`, `SessionHasHandler`, `BroadcastTargetsOpen`, `NoPhantomPlayers`: what holds while connections log in once, accounts are not shared and no list is requested |
| `sessions_any_client` | 2 connections, 2 accounts, 2 tokens; logging in again, sharing accounts, lists | `PlayerIndexSound`, `CleanupFindsSession` hold whatever clients do; `HandlersComplete` |
| `countdown` | 2 players, 2 threads, 3 seconds; players join, leave, and take readiness back | `FlagOwned`, `CountdownEnds`, `AllReadyStarts` whatever they do; until someone takes readiness back `AtMostOneCountdown` and `ShownDescends`: 2, 1, 0 and the game, each once and in order |
| `lobby` | 2 connections, 2 accounts, 3 tokens, 1 countdown thread, 2 seconds; symmetry | `CountdownSpec` (implements `Countdown`), `ClientsFollow`, `ServerTypeOK` |
| `client_session` | 3 connections, 3 packets each; bad sizes | `SingleProducer`, `MarkersTrue`, `DeliversInOrder` (implements `Delivery`), `CloseNoticed`, `Delivered` when the game disconnects only as it ends |
| `accounts` | the process with 259 configurations, each call of start-up failing or not; then 2 handlers, 2 names, 2 passwords; statements fail | `ParsesAsWritten`, `ServesListening`, `SocketReleased`; `Linearizable` (implements `UserRegistry`), `AnsweredCanLogin`, `RequestAnswered` |
| `wire` | 2 server threads or the game thread; 3 messages of 1 to 3 bytes in a connection that holds 3; sends that overlap or are short | `ReceivedAsSent`, `OnlyLargeRefused` while sends do neither, `Arrives` |
| `messages` | every message, strings of 0, 1, 3 and 4 bytes, up to 3 players, 2 UUIDs; other messages' bytes in it at any place; 168 ways to write a schema | `ReadAsBuilt`, `AssertsHold`, `LoginToldApart`; `ReadsInBounds` whatever has happened to it; `SchemaReadAsWritten`, `LookupFindsAll` |

Runs in which TLC finds what the code says of itself violated:

| Run | Violated | What happens |
|---|---|---|
| `sessions_nested_lock` | `ReadyReachesCheck` | `ProcessGameReadyRequest` holds the shared lock when `BroadcastPacket` asks for it again; with an exclusive request queued in between both wait for ever |
| `countdown_early_game` | `StartsAtZero` | a countdown is stopped and started again while the first thread is about to test the flag: it takes this for its own normal end and starts the game |
| `client_stale_marker` | `MarkersTrue` | after a disconnection by the game the worker's empty packet stays in the queue; the first poll of the next connection takes it and disconnects |
| `wire_two_senders` | `OnlySentReceived` | two threads send to one client at once; the length of one message is followed by the length of the other, and the client receives a message nobody has sent |

`PROJECT.json` quotes, under `findings`, the comment each of the four contradicts.

More facts are within a change of one line of these runs, and are not
kept as runs of their own:

- With `"relogin"` in `Env`, `SessionHasHandler` and `SocketIndexExact` do not
  hold: a second login on one connection overwrites `TokenBySocketMap`
  (`server.cpp:275`), cleanup never finds the first session, and its closed
  socket stays a broadcast target. The client in `src/` logs in once on a
  connection.
- With `"list"` in `Env`, `NoPhantomPlayers` does not hold: a list is collected
  under the lock, a leave is broadcast, and then the list is sent
  (`server.cpp:312`).
- In `countdown`, `crashed` becomes true: a `joinable` test is stale when `join`, `detach`, the assignment or `reset`
  runs (`server.cpp:679`), which is `std::terminate` or an exception that nobody
  catches.
- In `countdown`, `OneThread` by itself does not hold: a stop clears the flag while its
  thread, which is detached, goes on; another handler finds the flag clear and
  starts a countdown beside it, and the first thread resets the flag of the second
  (`server.cpp:665`). That `StartCountdown` returns if a countdown is running (the
  comment at `server.cpp:642`) is then not so. `countdown_early_game` begins in the
  same way, with a flag that is set again before the first thread has ended.
- A nickname that another account has is let through to the insert, in `accounts` and
  without any crossing: the query (`DatabaseManager.cpp:87`) looks for it among
  the userids, while the comments at 85, 94 and 101 speak of a check that the
  nickname is not taken. Conversely a nickname that is someone's userid is
  refused although no one has it. `UserRegistry` leaves the answer open, so that
  `Linearizable` says nothing in favour of either.

## 4. Bounds

No definition of the modules is replaced in a configuration; all bounds are
the sizes of constant sets, three numbers and one constraint, and `countdown` has a
view. These two keep a run within its time:

- `Uncrossed` of `lobby`: nothing is explored beyond the first two announcements
  that cross. `ClientsFollow` claims nothing there; that the server implements
  `Countdown` beyond it is left to the theorem.
- `Seen`, the view of `countdown`, cuts nothing off: it takes states for one that differ
  in nothing that a later step or a property of the run looks at, such as the
  seconds left of a thread past its loop, or what was shown last once
  readiness has been taken back. Every step changes something that the view keeps,
  and what it leaves out enables or disables none, so that fairness means the same. Three
  seconds with joins, leaves and stops together are within reach by it.

The sizes:

- `Tokens`: tokens are never issued twice, so their number bounds the logins
  of a behaviour. Three let a connection log in, leave, and log in again on a
  reused socket while another session stays; two suffice where two connections
  exchange one account.
- `Conns`: crossing leaves and joins need the one who leaves, the one who
  joins and one who watches: three. Two suffice for lookups against erasures,
  and in `lobby` for a countdown, one who leaves it and comes back while it runs
  (the third token), and one who watches.
- `Users`: two; a session is told from another by its account, and sharing
  needs one that is shared and one that is not.
- `Timers`: a thread id is free again when its thread has ended. Two let a
  stopped thread run beside the next one, and the second is there to be started
  wrongly before anything is stopped. In `lobby` there is one: a second countdown
  waits until the first thread has ended. A run with two says nothing of three stopped
  threads at a time, except for the theorems of section 7.
- `CountdownSeconds`: 10 in the code. `countdown` has three, so that there is a first
  second, a last one and one that is neither, and a second can be left out, shown
  twice or come before its time. `lobby` has two, where the first second and the last
  differ, and `countdown_early_game` has two, so that a thread can be stopped in
  its loop. The theorems hold for any.
- `MaxConns`, `MaxSent`: a marker can be left to the next connection and be seen
  by the one after; three packets let one be queued, one handed over and one on
  the way.

- `Bodies`, `Room`, `ReadChunk` of `wire`: a body of one byte, one as large as
  the limit and one larger; a connection that holds less than a length, so that
  a header and a body are each cut in every way. Three messages leave one
  received, one in transit and one begun. The theorems hold for any.
- `MaxText`, `MaxPlayers` of `messages`: bytes in a string, 4, and players in a
  list, 3. The program has neither limit; the library has one for the whole
  buffer, and the theorems hold for any two numbers with which a message stays
  below it (`SizeAssumption`).
- `InitialSize` of `messages`: 1024 in the code, 16 here, so that short messages
  already make the memory grow, several times for a list.
- `Texts`, `Users`, `Numbers` of `messages`: strings whose length with its zero byte
  is or is not a multiple of four, an empty one, one with bytes above 127; players with equal and
  different strings, with the default state and another, which have different
  vtables; numbers that are the default, of one byte, of two. Three players: two
  of one vtable with one of the other between.
- `Uuids`: two that differ only in where a zero is, which tells numbers of fixed
  width from numbers without their leading zeros.
- `Files` of `accounts`: a proper file with a comment, blanks and a value that
  contains `=`; the file cut short at each line, which with none is a file that
  is not there; with each of nine odd lines at each place (headers, one with a
  blank after it, comments, one indented, a second value, a key without one);
  and, where the section has been left, a second odd line at each place.
- `Schemas`: tables and enumerations in every order, names of which one is the
  beginning of another, one with a byte above 127, values that are a default, -1
  and other negative ones, empty and absent vectors; 144 of them for strings and
  prefix, 24 for the options and for builders used again. `Abandons`: a buffer
  is given up early, with a few strings in it, or late, with tables and vtables.
- `Garbled` takes every place, and the length of every broadcast (or request,
  on the way to the server) of the instance or all of it.

Deadlock is checked in `sessions_any_client` (no bound on tokens can stop it:
connections may always be accepted and closed) and in `accounts`, where only a
process at its end stands still (`Terminated`). It is
switched off where the system may stop: when the process has crashed or the
client has ended, in `wire` and `messages`, whose number of messages is bounded,
and in `sessions_tables` and `lobby`, where the nested shared lock of the
ready request can block everyone, which is what `sessions_nested_lock` shows.

## 5. Fairness

- Threads are scheduled: weak fairness of each handler, countdown thread,
  worker and game thread. Clients are under no fairness: they may log in, ask
  or leave, or never do anything.
- `SessionMutex`: strong fairness of each single acquisition. An SRW lock is
  neither fair nor first come first served, so a request may lose any race; it
  is not passed over for ever while it could be granted again and again. This is
  the weakest assumption under which a login completes at all. It does not
  hide the deadlock of `sessions_nested_lock`: there no acquisition is ever
  possible again.
- `send` returns: clients read what they are sent. The server sets no timeout,
  and `BroadcastPacket` holds the lock while it sends; a client that stops
  reading would stop the server, and the liveness properties say nothing of it.
- The timer of the client fires, `Wait` and `Recv` return when there is
  something to return.
- `wire`: each sender's loop, once begun, and the receiver's (weak fairness). What
  `send` accepts reaches the other end, which is what TCP does while the
  connection stands; `Arrives` claims nothing once it is closed.
- Statements of the database end, with an answer or an exception.

## 6. Assumptions about what is outside the repository

- `users.userid` is a unique key (no schema is in the repository). Without it
  two sign-ups that cross make two accounts with one userid.
- `UuidCreate` returns a new UUID each time, or fails. `LobbySessions` takes the
  token for new, which the empty one of a failure is not: all sessions that have
  it share an entry of `PlayerSessionMap`, and `LoginToldApart` excepts it.
- A `WSACleanup` without a start that it answers to does nothing; the last one
  closes the sockets that are left; `listen` refuses when Winsock is down.
- The members of a UUID have 32, 16 and 8 bits (`UuidsAssumption`).
- A configuration is a sequence of lines, each a sequence of words and signs
  (`FilesAssumption`).
- `std::shared_mutex` is an SRW lock as described; the toolset is v143.
- The operating system gives a closed socket's handle to a later connection.
- TCP keeps bytes in order and loses none while the connection stands. Bytes of
  two sends on one socket may interleave as the sends do.
- Strings hold no zero bytes: they come from `c_str()` or a session token
  (`TextAssumption`). Scalars are not negative (`NumberAssumption`). Messages are
  smaller than 2^31 bytes (`SizeAssumption`, by a bound for each call of the
  builder, see `MaxText`), and have fewer than 64 levels and
  1,000,000 tables, the limits at which the verifier gives up: they are left out of
  `FlatBuffers`. Of other bytes it accepts no less than the code does, so that
  `ReadsInBounds` is claimed for more than what is read.
- A place beyond the end of a message reads as zero in `FlatBuffers`, so that
  every definition has a value; `ReadsInBounds` says that it is never used.
- The processor is little-endian, as Windows on x64 is.

## 7. Proofs

All theorems hold for every value of the constants that satisfies the named
assumptions: any number of connections, players, threads, accounts, tokens,
packets, any length of countdown, any texts, lists, UUIDs and configuration files.

| Theorem | Statement |
|---|---|
| `LobbyServerProofs!TypeCorrect` | `Spec => []TypeOK` of `LobbySessions` |
| `IndexSound` | `Spec => [](PlayerIndexSound /\ CleanupFindsSession)`, for any clients |
| `SocketsExact` | without `"relogin"`: `SocketIndexExact`, `SessionHasHandler`, `BroadcastTargetsOpen` |
| `PlayersExact` | without `"share"`: `PlayerIndexComplete` |
| `ViewsTrue` | without `"list"`: `NoPhantomPlayers` |
| `CountdownProofs!TypeCorrect`, `FlagNeverStranded` | `TypeOK`, `FlagOwned`, for any clients |
| `OneAtATime`, `ShownInOrder` | `AtMostOneCountdown`, `StartsAtZero` while `steady`, `ShownDescends`, for any clients |
| `LobbyServerProofs!SessionsRefined` | `ServerSpec => Spec` of `LobbySessions`, for any clients |
| `CountdownRefined` | without `"relogin"`: `ServerSpec => Countdown!Spec` |
| `ServerTypeCorrect`, `ClientsFollowed` | without `"relogin"`: `ServerTypeOK`, `ClientsFollow` |
| `ServerCountsDown` | without `"relogin"`: `FlagOwned`, `AtMostOneCountdown`, `ShownDescends` of the whole server |
| `ServerIndexSound`, `ServerSocketsExact`, `ServerPlayersExact`, `ServerViewsTrue` | the theorems of the session table, under the same restrictions, of the whole server |
| `LoginClientProofs!TypeCorrect`, `OneProducer` | `TypeOK`, `SingleProducer`, for any environment |
| `MarkersRight`, `Implements` | without `"disconnect"`: `MarkersTrue`, `Spec => Delivery!Spec` |
| `UserStoreProofs!TypeCorrect`, `Implements`, `LoginWorks` | `TypeOK`, `Spec => UserRegistry!Spec`, `AnsweredCanLogin` |
| `ServerMainProofs!AlwaysServesListening`, `AlwaysSocketReleased` | `ServesListening`, `SocketReleased`, for any configuration |
| `ParsesEveryFile` | `ParsesAsWritten`, for any sequence of lines |
| `MainImplementsUserStore`, `MainLinearizable` | `MainSpec => UserStore!Spec`, and with it `Linearizable` and `AnsweredCanLogin` of the process |
| `WireProofs!TypeCorrect` | `TypeOK` |
| `MessagesReceivedAsSent`, `OnlyLargeGivenUp` | `ReceivedAsSent`, `OnlyLargeRefused`, for any environment |
| `ReaderProofs!TypeCorrect`, `ReadsStayInBounds` | `TypeOK`, `ReadsInBounds`, for any bytes |
| `MessagesProofs!NoAssertionFails` | `AssertsHold`, for any message, any initial size |
| `MessagesReadAsBuilt` | `ReadAsBuilt`, for the same |
| `UuidsToldApart`, `LoginsToldApart` | `UuidToString` is one-to-one; `LoginToldApart` |
| `MessagesReadInBounds`, `MessagesTypeCorrect` | `ReadsInBounds` and `TypeOK` of messages built or garbled, since `Reader` takes any bytes |

The arguments:

- **LobbySessions.** None of the table properties is inductive. `IInv` adds to
  the type invariant which shared locks a thread holds at each step
  (`ReadersExact`, so that an exclusive section excludes every broadcast in its
  loop), what it is broadcasting (`JobOfStep`), that a token on its way into the
  table is new (`JoinTokensFresh`), that a socket's token leads to its session
  (`SocketIndexSound`) and that a loop under way visits live sessions
  (`TargetsLive`). It holds for any clients. `OnceInv`, `OwnInv` and `ViewInv`
  each add what holds under one restriction. The invariant for the views
  accounts for every player a client shows: present, about to be entered, or
  leaving in a broadcast that has yet to reach this client (`ViewsAccounted`);
  when every handler is idle only the first is left.
- **Countdown.** `FlagOwned` needs that a thread within its loop has seconds
  left (`SecondsLeft`), and type correctness that a handler past `Create` has the thread
  it has made (`Holds`). As long as `steady` holds (`SteadyInv`), the compare-exchange makes whoever
  starts or counts the only owner of the flag, and `ShownExact` ties what the
  clients were shown last to the place that owner is at.
- **LobbyServer.** That the server implements `LobbySessions` follows step by step.
  That it implements `Countdown` needs `ServerInv`, because `Countdown` takes for
  granted what the lock provides: no session appears or vanishes during a scan,
  and a player has one session. `ServerInv` has the first from `StepsMatch` (a
  handler that scans in the sense of the countdown holds the shared lock in the
  sense of the table, so that no exclusive section runs), the second from
  `OnceInv`, in which the socket index is exact, and `ScansLive` says that the
  sessions still to be counted exist. Neither `ServerInv` nor the invariant of
  `Countdown` is inductive alone: a thread that broadcasts is not free because of
  the types and steps of `Countdown`, whose steps are steps of it because of
  `ServerInv`. `NextServer` proves both at once, and cites the lemmas of the two
  parts instead of going through their actions again.
- **ClientsFollow.** `NewsInv` adds that until announcements cross at most one is
  on its way, and is the one that was announced last; so when the next one
  begins, everyone has been sent the one before. That nothing crosses while `steady`
  holds comes from the countdown: a thread that begins an announcement and one that
  is still broadcasting would be two that count, which `OneCountdown` excludes, and
  no handler stops anything (`OnlyStarts`). Whoever enters the table is up to
  date by definition of `told`, and no one enters or leaves while a broadcast is in
  its loop: both need the lock exclusively.
- **LoginClient.** `SingleProducer` follows from where the game thread is
  (`ThreadsKnown`): it is past `Join` only when the worker has ended. For the
  markers and the refinement, `QueueExact` gives the whole content of the
  queue: the packets received and not handed over, in order, then the marker
  if the worker has ended.
- **UserStore.** `OneRow` (the unique key), together with what each handler's
  step says of its request (`Fits`), makes every statement a step of
  `UserRegistry` or a stutter; `OneRow` makes the row that a login reads the one
  its account was made with.
- **ServerMain.** `MInv` says for each phase what the socket and Winsock are, and
  that no handler works before the process serves. The steps of `main` leave the
  variables of `UserStore` alone, and those of the handlers are its own.
- **Wire.** The two properties follow from where everyone is in the stream while
  no sends have overlapped: `Layout` (the stream holds the messages one after
  the other, all but the last whole), `SenderPlace` (the one sender is within
  the last) and `ReceiverPlace` (the receiver is within the one after those it
  has received). That the length survives `htonl` and `ntohl` is a lemma about
  division by 256.
- **Reader.** `IInv` says that a field yet to be read is one of a table that has
  passed the verifier at that place, or is missing (`Passed`), and that what was
  just read lies within the message. For each kind of field a lemma shows that
  what the verifier has tested is what the accessor reads.
- **ParsesAsWritten.** `ParseLine` goes through the lines once; the property
  speaks of the last assignment in a section. `PInv` says of the lines read so far
  what the property says of all: which section the parser is in, and that each
  pair found is of the last line that assigns its key there.
- **Messages.** The proof follows a message from the first call of the builder to
  the last field the handler reads.
  - *Recursive functions.* `CreateTable` adds one field after the other, `CreateString`
    one byte, `CreateVector` one offset. The induction theorems of the library take
    an operator, which none of the provers can instantiate. `Induction`
    says the same of a set of numbers, from the well-founded order of the
    naturals, and `Along` of a set of states: a function whose value at 0 is in
    the set, and each of whose steps leads from the set into it, has its last value
    in it. Every loop of the builder is one use of `Along`, with a set that says
    what the builder is like within it.
  - *The builder.* `Sound` is what holds of it at any time: its bytes, its scratch
    pad and the memory fit, and no assertion has failed. Positions are kept as
    distances from the end of the buffer, because they do not change while it
    grows downwards. `StringIs`, `VectorIs` and `TableIs` say what a
    finished string, vector or table looks like at a distance; a lemma shows for
    each that later calls leave it as it is (`EndsWith`), and `TableIs` holds
    whether the table has a vtable of its own or an older, equal one.
  - *The sender.* `SenderInv`: the message is one whose calls refer to earlier calls
    of the right type (`RightMessage`, which every message of `Requests`,
    `Responses` and `Broadcasts` is), each call made so far has left what `CallIs`
    says at the distance it returned, and the buffer has grown by at most `Cost` a
    call. From this follow `AssertsHold` and, at the end, `Composed`.
  - *The receiver.* A composed message passes the verifier table by table, its
    envelope has the type of its body (`Delivered`), and for each type the fields
    the handler reads, players of a list one by one, yield the values that the
    sender has put in (`Yields`). `ReadInv` holds this for what is still to be read
    and equality for what has been.
  - *Logins.* From `ReadAsBuilt`, the response read is the one that was made; its
    code is 0 exactly if the status was `Success`; a token has 36 characters or
    none, and the one of a failure has one. A UUID is recovered from its string,
    digit by digit, from parts of fixed lengths (`UuidsToldApart`).

Model-checked only: what `SchemaFiles` says of schemas (`SchemaReadAsWritten`,
`LookupFindsAll`), whose tables hold one another to any depth and are read by
recursive operators; all liveness properties (`HandlersComplete`, `CountdownEnds`,
`AllReadyStarts`, `CloseNoticed`, `Delivered`, `RequestAnswered`, `Arrives`), as the
proof system does not reason about fairness and `ENABLED`; and of course the four
violations. The theorems about `Messages` hold of the messages of a behaviour of
`Messages!Spec`; the run has these and the schemas of `SchemaFiles` together.

The `Bad` definitions are checked too: `PROJECT.json` pairs each property of a
passing run with one of them, and TLC finds the property violated when it takes
the place of its successor.

## 8. What is not covered

- Most of the vendored FlatBuffers headers: the schema compiler (`idl.h`),
  FlexBuffers, the helpers of reflection, registries, utilities. Neither program
  calls them; they are about half of the lines of code in `src/`, so that a model
  of everything the programs execute is still a small part of all the lines
  there are. Of the headers that are modelled, what neither a message nor a
  schema uses is left out: structs, 64-bit offsets, nested buffers, sharing of
  anything but strings and vtables.
- What `reflection_generated.h` is for, a program that loads a schema at run time,
  is not in the repository: the schemas of `SchemaFiles` are the instance's own.
- Numbers of 2^31 and above in scalar fields: the values of the instances are
  smaller, and a 64-bit field repeats the sign.
- That every player who is present is shown to everyone: two who log in at once
  are not told of each other until they ask for the list, and nothing in the
  repository says otherwise.
- The delegates of the client, the DNS lookup of `ProcessStartGame`, the player
  controller: what the game does with a message that has been read.
- A delegate that disconnects while `NetworkPolling` is calling it; only the
  game's blueprints, which are binary, could bind one.
- The composition of `Wire` with the tables of `LobbySessions`: which threads
  send to a socket at once is taken as any, which is more than what happens.
- The client's screen when announcements cross: after a stop a second may still
  be shown (`server.cpp:656`). `ClientsFollow` says what holds until then.
- The end of `main` while handlers work: `Run` never returns once it listens.
- Everything logged.

## 9. Plan

Done: `LobbySessions`, `Countdown` and their composition `LobbyServer`,
`LoginClient` with `Delivery`, `UserStore` with `UserRegistry`, `ServerMain`,
`Wire`, `Reader`, each with its proofs; `Messages` and `SchemaFiles` with the
library beneath them, and `SessionTokens`.

What remains, in order of weight:

1. Liveness of the composition: that a ready request of the last player leads to a
   start in `LobbyServer` whenever the nested lock does not block it.
2. `LoginClient`: `DisconnectFromServer` from within a delegate, and the
   connection of the request functions with `Socket`.
3. The order of countdown messages on a client's screen once stops and seconds
   cross; there is no promise of the code to state it against.
