------------------------------ MODULE UserStore ------------------------------
(***************************************************************************)
(* Accounts: DatabaseManager::SignUp and Login over the table users, called *)
(* by the handlers of the connections, each with a database connection of  *)
(* its own.  Every statement is a transaction: between the two queries and *)
(* the insert of a sign-up those of the other handlers may come.           *)
(*                                                                         *)
(* The table is not in the repository.  We take userid for a unique key of *)
(* it: inserting a second row with the same one throws.  The row's id is   *)
(* left out, since it says no more than which row it is.                   *)
(***************************************************************************)
CONSTANTS
  Handlers,   \* threads running HandleClient
  Names,      \* userids and nicknames
  Passwords,
  Env         \* what else may happen

\* "fail"  a statement throws, or its answer is lost
ASSUME EnvAssumption == Env \subseteq {"fail"}

SignUps == [op : {"SignUp"}, userid : Names, password : Passwords, nickname : Names]
Logins == [op : {"Login"}, userid : Names, password : Passwords]
Requests == SignUps \cup Logins
NoRequest == [op |-> "none"]
Users == [userid : Names, password : Passwords, nickname : Names]
SignUpStatus == {"Success", "DuplicateUserId", "DuplicateNickname", "OtherError"}
LoginStatus == {"Success", "UserIdNotFound", "InvalidPassword", "OtherError"}
Statements == {"check userid", "check nickname", "insert", "query"}

VARIABLES
  users,     \* the table
  pc,        \* the statement each handler executes next; "closed" without
             \* a connection, "receive" and "respond" between requests
  request,   \* the request it works on
  Status,    \* what it will answer
  answered   \* accounts whose sign-up has been answered Success

vars == <<users, pc, request, Status, answered>>

TypeOK ==
  /\ users \subseteq Users
  /\ pc \in [Handlers -> Statements \cup {"closed", "receive", "respond"}]
  /\ request \in [Handlers -> Requests \cup {NoRequest}]
  /\ Status \in [Handlers -> SignUpStatus \cup LoginStatus]
  /\ answered \subseteq Users

Init ==
  /\ users = {}
  /\ pc = [h \in Handlers |-> "closed"]
  /\ request = [h \in Handlers |-> NoRequest]
  /\ Status = [h \in Handlers |-> "OtherError"]
  /\ answered = {}

Rows(name) == {u \in users : u.userid = name}
Goto(h, step) == pc' = [pc EXCEPT ![h] = step]

\* The status is known: what is left is to respond.
Return(h, status) ==
  /\ Goto(h, "respond")
  /\ Status' = [Status EXCEPT ![h] = status]

------------------------------------------------------------------------------
(* HandleClient and the handlers of the two requests.                       *)

\* A handler that gets no connection to the database closes the client's.
GetConnection(h) ==
  /\ pc[h] = "closed" /\ Goto(h, "receive")
  /\ UNCHANGED <<users, request, Status, answered>>

CloseClient(h) ==
  /\ pc[h] = "receive" /\ Goto(h, "closed")
  /\ UNCHANGED <<users, request, Status, answered>>

Receive(h, r) ==
  /\ pc[h] = "receive"
  /\ request' = [request EXCEPT ![h] = r]
  /\ Goto(h, IF r.op = "SignUp" THEN "check userid" ELSE "query")
  /\ UNCHANGED <<users, Status, answered>>

\* Password and nickname are bound the wrong way round.
BadRow(h) == [userid |-> request[h].userid, password |-> request[h].nickname,
              nickname |-> request[h].password]

Row(h) == [userid |-> request[h].userid, password |-> request[h].password,
           nickname |-> request[h].nickname]

\* Request and status are locals of the call that ends.
Respond(h) ==
  /\ pc[h] = "respond" /\ Goto(h, "receive")
  /\ request' = [request EXCEPT ![h] = NoRequest]
  /\ Status' = [Status EXCEPT ![h] = "OtherError"]
  /\ answered' = IF request[h].op = "SignUp" /\ Status[h] = "Success"
                 THEN answered \cup {Row(h)} ELSE answered
  /\ UNCHANGED users

------------------------------------------------------------------------------
(* SignUp.                                                                  *)

CheckUserId(h) ==
  /\ pc[h] = "check userid"
  /\ \/ Rows(request[h].userid) # {} /\ Return(h, "DuplicateUserId")
     \/ Rows(request[h].userid) = {} /\ Goto(h, "check nickname") /\ UNCHANGED Status
  /\ UNCHANGED <<users, request, answered>>

\* The query is the first one again: it looks for the nickname among the
\* userids.
CheckNickname(h) ==
  /\ pc[h] = "check nickname"
  /\ \/ Rows(request[h].nickname) # {} /\ Return(h, "DuplicateNickname")
     \/ Rows(request[h].nickname) = {} /\ Goto(h, "insert") /\ UNCHANGED Status
  /\ UNCHANGED <<users, request, answered>>

\* A row with this userid is replaced.
BadInsert(h) ==
  /\ pc[h] = "insert"
  /\ Return(h, "Success")
  /\ users' = {u \in users : u.userid # request[h].userid} \cup {Row(h)}
  /\ UNCHANGED <<request, answered>>

Insert(h) ==
  /\ pc[h] = "insert"
  /\ \/ /\ Rows(request[h].userid) = {} /\ Return(h, "Success")
        /\ users' = users \cup {Row(h)}
     \/ /\ Rows(request[h].userid) # {} /\ Return(h, "OtherError")
        /\ UNCHANGED users
  /\ UNCHANGED <<request, answered>>

------------------------------------------------------------------------------
(* Login.                                                                   *)

\* The password is not compared.
BadLogin(h) ==
  /\ pc[h] = "query"
  /\ \/ Rows(request[h].userid) = {} /\ Return(h, "UserIdNotFound")
     \/ Rows(request[h].userid) # {} /\ Return(h, "Success")
  /\ UNCHANGED <<users, request, answered>>

Login(h) ==
  /\ pc[h] = "query"
  /\ \/ Rows(request[h].userid) = {} /\ Return(h, "UserIdNotFound")
     \/ \E u \in Rows(request[h].userid) :
          Return(h, IF u.password = request[h].password THEN "Success"
                    ELSE "InvalidPassword")
  /\ UNCHANGED <<users, request, answered>>

\* The exception is not caught here, and ends the thread's work.
BadThrow(h) ==
  /\ "fail" \in Env
  /\ pc[h] \in Statements
  /\ Goto(h, "closed")
  /\ request' = [request EXCEPT ![h] = NoRequest]
  /\ UNCHANGED <<users, Status, answered>>

\* A statement throws, and Status is what it was set to at first.  An insert
\* may have been done when the connection breaks.
Throw(h) ==
  /\ "fail" \in Env
  /\ pc[h] \in Statements
  /\ Goto(h, "respond") /\ UNCHANGED Status
  /\ users' \in {users} \cup
       (IF pc[h] = "insert" /\ Rows(request[h].userid) = {}
        THEN {users \cup {Row(h)}} ELSE {})
  /\ UNCHANGED <<request, answered>>

------------------------------------------------------------------------------
Handler(h) ==
  \/ CheckUserId(h) \/ CheckNickname(h) \/ Insert(h) \/ Login(h)
  \/ Throw(h) \/ Respond(h)

Next == \E h \in Handlers :
  \/ Handler(h)
  \/ GetConnection(h) \/ CloseClient(h) \/ \E r \in Requests : Receive(h, r)

Spec == Init /\ [][Next]_vars

------------------------------------------------------------------------------
(* Properties.                                                              *)

\* Whatever queries and inserts of several handlers come between each other,
\* every sign-up and login has the effect and the answer it could have had if
\* it had been alone: the registry's.
Outcome(h) == IF pc[h] \in Statements THEN "pending"
              ELSE IF pc[h] = "respond" THEN Status[h] ELSE "none"
Registry == INSTANCE UserRegistry WITH
  accounts <- users,
  called <- request,
  outcome <- [h \in Handlers |-> Outcome(h)],
  Fails <- "fail" \in Env
Linearizable == Registry!Spec

\* Who has been told that an account is made can log in with it: no other
\* sign-up takes the userid over or gets in front of it.
AnsweredCanLogin ==
  [][\A h \in Handlers : \A a \in answered :
       /\ pc[h] = "query" /\ pc'[h] = "respond"
       /\ a.userid = request[h].userid /\ a.password = request[h].password
       => Status'[h] \in {"Success", "OtherError"}]_vars

\* The inductive invariant behind the two: a userid has one row, a handler the
\* request that its step asks for, and a success its row.
OneRow == \A u, v \in users : u.userid = v.userid => u = v
Fits(h) ==
  /\ pc[h] \in {"closed", "receive"} => request[h] = NoRequest
  /\ pc[h] \in Statements \ {"query"} => request[h] \in SignUps
  /\ pc[h] = "query" => request[h] \in Logins
  /\ pc[h] = "respond" => request[h] \in Requests
  /\ pc[h] # "respond" => Status[h] = "OtherError"
  /\ pc[h] = "respond" /\ request[h].op = "SignUp" /\ Status[h] = "Success"
     => Row(h) \in users
IInv == TypeOK /\ OneRow /\ answered \subseteq users /\ \A h \in Handlers : Fits(h)

\* Every request is answered, whatever its statements do.  Handlers run.
LiveSpec == Spec /\ \A h \in Handlers : WF_vars(Handler(h))
RequestAnswered ==
  \A h \in Handlers : pc[h] \in Statements ~> pc[h] = "respond"
==============================================================================
