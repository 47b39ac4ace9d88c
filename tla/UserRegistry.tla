----------------------------- MODULE UserRegistry -----------------------------
(***************************************************************************)
(* What the user store promises its callers: a sign-up or a login happens  *)
(* in one step between its call and its answer.  A userid belongs to the   *)
(* first who signs up with it; a login succeeds with the password that the *)
(* userid was signed up with, and only with it.  Of nicknames it promises  *)
(* nothing: any sign-up may be refused for its nickname, which then has no *)
(* effect, and two accounts may have one nickname.                         *)
(***************************************************************************)
CONSTANTS
  Handlers,   \* who calls the store
  Requests,   \* [op, userid, password], and the nickname of a sign-up
  NoRequest,
  Fails       \* may a request fail for no reason of its own?

VARIABLES
  accounts,  \* the accounts signed up
  called,    \* what each handler has called the store with
  outcome    \* what came of it: "none", "pending" or a status

vars == <<accounts, called, outcome>>

Taken(name) == \E a \in accounts : a.userid = name
Account(r) == [userid |-> r.userid, password |-> r.password, nickname |-> r.nickname]

Init ==
  /\ accounts = {}
  /\ called = [h \in Handlers |-> NoRequest]
  /\ outcome = [h \in Handlers |-> "none"]

Call(h, r) ==
  /\ outcome[h] = "none"
  /\ called' = [called EXCEPT ![h] = r]
  /\ outcome' = [outcome EXCEPT ![h] = "pending"]
  /\ UNCHANGED accounts

\* A sign-up that is answered with an error may have taken effect all the
\* same if requests can fail.
SignUp(h, r) ==
  \/ /\ outcome' = [outcome EXCEPT ![h] = "Success"]
     /\ ~Taken(r.userid)
     /\ accounts' = accounts \cup {Account(r)}
  \/ /\ outcome' = [outcome EXCEPT ![h] = "DuplicateUserId"]
     /\ Taken(r.userid) /\ UNCHANGED accounts
  \/ /\ outcome' = [outcome EXCEPT ![h] = "DuplicateNickname"]
     /\ UNCHANGED accounts
  \/ /\ outcome' = [outcome EXCEPT ![h] = "OtherError"]
     /\ \/ Fails \/ Taken(r.userid)
     /\ \/ UNCHANGED accounts
        \/ ~Taken(r.userid) /\ accounts' = accounts \cup {Account(r)}

Login(h, r) ==
  /\ \/ /\ outcome' = [outcome EXCEPT ![h] = "Success"]
        /\ \E a \in accounts : a.userid = r.userid /\ a.password = r.password
     \/ /\ outcome' = [outcome EXCEPT ![h] = "UserIdNotFound"]
        /\ ~Taken(r.userid)
     \/ /\ outcome' = [outcome EXCEPT ![h] = "InvalidPassword"]
        /\ Taken(r.userid)
        /\ ~\E a \in accounts : a.userid = r.userid /\ a.password = r.password
     \/ /\ outcome' = [outcome EXCEPT ![h] = "OtherError"]
        /\ Fails
  /\ UNCHANGED accounts

Happen(h) ==
  /\ outcome[h] = "pending"
  /\ \/ called[h].op = "SignUp" /\ SignUp(h, called[h])
     \/ called[h].op = "Login" /\ Login(h, called[h])
  /\ UNCHANGED called

Answer(h) ==
  /\ outcome[h] \notin {"none", "pending"}
  /\ outcome' = [outcome EXCEPT ![h] = "none"]
  /\ called' = [called EXCEPT ![h] = NoRequest]
  /\ UNCHANGED accounts

Next == \E h \in Handlers :
  \/ \E r \in Requests : Call(h, r)
  \/ Happen(h) \/ Answer(h)

Spec == Init /\ [][Next]_vars
==============================================================================
