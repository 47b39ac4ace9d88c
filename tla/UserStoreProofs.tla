--------------------------- MODULE UserStoreProofs ---------------------------
(***************************************************************************)
(* Proofs that UserStore implements UserRegistry, and that an account      *)
(* answered is an account to log in with, for any number of handlers, any  *)
(* names and passwords.                                                    *)
(***************************************************************************)
EXTENDS UserStore, TLAPS

Steps == Statements \cup {"closed", "receive", "respond"}

\* What a step of handler h has to respect to keep the invariant.
LEMMA HandlerKeeps ==
  ASSUME IInv, NEW h \in Handlers, NEW step \in Steps,
         NEW req \in Requests \cup {NoRequest},
         NEW status \in SignUpStatus \cup LoginStatus,
         pc' = [pc EXCEPT ![h] = step],
         request' = [request EXCEPT ![h] = req],
         Status' = [Status EXCEPT ![h] = status],
         users \subseteq users', users' \subseteq Users, OneRow',
         answered' \subseteq users',
         Fits(h)'
  PROVE  IInv'
<1>1. /\ pc \in [Handlers -> Steps]
      /\ request \in [Handlers -> Requests \cup {NoRequest}]
      /\ Status \in [Handlers -> SignUpStatus \cup LoginStatus]
  BY DEF IInv, TypeOK, Steps
<1>2. TypeOK'
  BY <1>1 DEF TypeOK, Steps
<1>3. ASSUME NEW g \in Handlers, g # h PROVE Fits(g)'
  <2>1. pc'[g] = pc[g] /\ request'[g] = request[g] /\ Status'[g] = Status[g]
    BY <1>1, <1>3
  <2>2. Fits(g)
    BY DEF IInv
  <2>3. Row(g)' = Row(g)
    BY <2>1 DEF Row
  <2> QED
    BY <2>1, <2>2, <2>3 DEF Fits
<1> QED
  BY <1>2, <1>3 DEF IInv

\* The same, for a step that writes no row and leaves the answered accounts.
LEMMA HandlerMoves ==
  ASSUME IInv, NEW h \in Handlers, NEW step \in Steps,
         NEW req \in Requests \cup {NoRequest},
         NEW status \in SignUpStatus \cup LoginStatus,
         pc' = [pc EXCEPT ![h] = step],
         request' = [request EXCEPT ![h] = req],
         Status' = [Status EXCEPT ![h] = status],
         users' = users, answered' \in {answered, answered \cup {Row(h)}},
         answered' = answered \/ Row(h) \in users,
         step \in {"closed", "receive"} => req = NoRequest,
         step \in Statements \ {"query"} => req \in SignUps,
         step = "query" => req \in Logins,
         step = "respond" => req \in Requests,
         step # "respond" => status = "OtherError",
         step = "respond" /\ req.op = "SignUp" => status # "Success"
  PROVE  IInv'
<1>1. pc'[h] = step /\ request'[h] = req /\ Status'[h] = status
  BY DEF IInv, TypeOK
<1>2. Fits(h)'
  BY <1>1 DEF Fits
<1>3. OneRow' /\ users' \subseteq Users /\ answered' \subseteq users'
  BY DEF IInv, TypeOK, OneRow
<1> QED
  BY <1>2, <1>3, HandlerKeeps

\* The row of a sign-up is one of the table, and the only one of its userid if
\* there was none.
LEMMA RowAdded ==
  ASSUME IInv, NEW h \in Handlers, request[h] \in SignUps,
         Rows(request[h].userid) = {}, users' = users \cup {Row(h)}
  PROVE  users' \subseteq Users /\ OneRow'
<1>1. Row(h) \in Users /\ Row(h).userid = request[h].userid
  BY DEF Row, SignUps, Users
<1>2. \A u \in users : u.userid # Row(h).userid
  BY <1>1 DEF Rows
<1> QED
  BY <1>1, <1>2 DEF IInv, TypeOK, OneRow

\* The invariant is inductive.
LEMMA NextIInv == ASSUME IInv, [Next]_vars PROVE IInv'
<1> USE DEF Goto, Return
<1>0. /\ pc \in [Handlers -> Steps]
      /\ request \in [Handlers -> Requests \cup {NoRequest}]
      /\ Status \in [Handlers -> SignUpStatus \cup LoginStatus]
      /\ \A h \in Handlers : /\ request = [request EXCEPT ![h] = request[h]]
                             /\ Status = [Status EXCEPT ![h] = Status[h]]
  BY DEF IInv, TypeOK, Steps
<1>1. CASE UNCHANGED vars
  BY <1>1 DEF vars, IInv, TypeOK, OneRow, Fits, Row
<1>2. ASSUME NEW h \in Handlers,
             \/ Handler(h) \/ GetConnection(h) \/ CloseClient(h)
             \/ \E r \in Requests : Receive(h, r)
      PROVE  IInv'
  <2>0. Fits(h) /\ request[h] \in Requests \cup {NoRequest}
    BY <1>0 DEF IInv
  <2>00. /\ {"closed", "receive", "respond", "insert", "query", "check nickname", "check userid"} \subseteq Steps
         /\ {"Success", "OtherError"} \subseteq SignUpStatus \cup LoginStatus
         /\ "DuplicateUserId" \in SignUpStatus \cup LoginStatus
         /\ "DuplicateNickname" \in SignUpStatus \cup LoginStatus
         /\ "UserIdNotFound" \in SignUpStatus \cup LoginStatus
         /\ "InvalidPassword" \in SignUpStatus \cup LoginStatus
         /\ NoRequest \in Requests \cup {NoRequest}
    BY DEF Steps, Statements, SignUpStatus, LoginStatus
  <2>1. CASE GetConnection(h) \/ CloseClient(h)
    <3>1. PICK step \in {"closed", "receive"} : pc' = [pc EXCEPT ![h] = step]
      BY <2>1 DEF GetConnection, CloseClient
    <3>2. UNCHANGED <<users, request, Status, answered>> /\ pc[h] \in {"closed", "receive"}
      BY <2>1 DEF GetConnection, CloseClient
    <3>3. request[h] = NoRequest /\ Status[h] = "OtherError"
      BY <2>0, <3>2 DEF Fits
    <3> QED
      BY <1>0, <2>00, <3>1, <3>2, <3>3, HandlerMoves DEF Statements
  <2>2. ASSUME NEW r \in Requests, Receive(h, r) PROVE IInv'
    <3>1. /\ UNCHANGED <<users, Status, answered>> /\ pc[h] = "receive"
          /\ request' = [request EXCEPT ![h] = r]
      BY <2>2 DEF Receive
    <3>2. Status[h] = "OtherError"
      BY <2>0, <3>1 DEF Fits
    <3>3. CASE r \in SignUps
      <4>1. pc' = [pc EXCEPT ![h] = "check userid"]
        BY <2>2, <3>3 DEF Receive, SignUps
      <4> QED
        BY <1>0, <2>00, <3>1, <3>2, <3>3, <4>1, HandlerMoves DEF Statements
    <3>4. CASE r \in Logins
      <4>1. pc' = [pc EXCEPT ![h] = "query"]
        BY <2>2, <3>4 DEF Receive, Logins
      <4> QED
        BY <1>0, <2>00, <3>1, <3>2, <3>4, <4>1, HandlerMoves DEF Statements
    <3> QED
      BY <3>3, <3>4 DEF Requests
  <2>3. CASE CheckUserId(h) \/ CheckNickname(h)
    <3>1. /\ UNCHANGED <<users, request, answered>>
          /\ pc[h] \in {"check userid", "check nickname"}
      BY <2>3 DEF CheckUserId, CheckNickname
    <3>2. request[h] \in SignUps /\ Status[h] = "OtherError"
      BY <2>0, <3>1 DEF Fits, Statements
    <3>3. ASSUME NEW step \in {"check nickname", "insert"},
                 pc' = [pc EXCEPT ![h] = step], UNCHANGED Status
          PROVE  IInv'
      BY <1>0, <2>00, <3>1, <3>2, <3>3, HandlerMoves DEF Statements
    <3>4. ASSUME NEW s \in {"DuplicateUserId", "DuplicateNickname"}, Return(h, s)
          PROVE  IInv'
      BY <1>0, <2>00, <3>1, <3>2, <3>4, HandlerMoves DEF Statements, Requests
    <3> QED
      BY <2>3, <3>3, <3>4 DEF CheckUserId, CheckNickname
  <2>4. CASE Insert(h)
    <3>1. UNCHANGED <<request, answered>> /\ pc[h] = "insert"
      BY <2>4 DEF Insert
    <3>2. request[h] \in SignUps /\ Status[h] = "OtherError"
      BY <2>0, <3>1 DEF Fits, Statements
    <3>3. CASE Rows(request[h].userid) = {}
      <4>1. users' = users \cup {Row(h)} /\ Return(h, "Success")
        BY <2>4, <3>3 DEF Insert
      <4>2. users' \subseteq Users /\ OneRow'
        BY <3>2, <3>3, <4>1, RowAdded
      <4>3. pc'[h] = "respond" /\ Row(h)' = Row(h) /\ request'[h] \in Requests
        BY <1>0, <3>1, <3>2, <4>1 DEF Row, Requests
      <4>4. Fits(h)'
        BY <4>1, <4>3 DEF Fits, Statements
      <4>5. answered' \subseteq users'
        BY <3>1, <4>1 DEF IInv
      <4> QED
        BY <1>0, <2>0, <2>00, <3>1, <4>1, <4>2, <4>4, <4>5, HandlerKeeps
    <3>4. CASE Rows(request[h].userid) # {}
      <4>1. users' = users /\ Return(h, "OtherError")
        BY <2>4, <3>4 DEF Insert
      <4> QED
        BY <1>0, <2>00, <3>1, <3>2, <4>1, HandlerMoves DEF Statements, Requests
    <3> QED
      BY <3>3, <3>4
  <2>5. CASE Login(h)
    <3>1. UNCHANGED <<users, request, answered>> /\ pc[h] = "query"
      BY <2>5 DEF Login
    <3>2. request[h] \in Logins /\ request[h].op # "SignUp"
      BY <2>0, <3>1 DEF Fits, Logins
    <3>3. PICK s \in {"UserIdNotFound", "Success", "InvalidPassword"} : Return(h, s)
      BY <2>5 DEF Login
    <3> QED
      BY <1>0, <2>00, <3>1, <3>2, <3>3, HandlerMoves DEF Statements, Requests
  <2>6. CASE Throw(h)
    <3>1. /\ UNCHANGED <<request, answered, Status>> /\ pc[h] \in Statements
          /\ pc' = [pc EXCEPT ![h] = "respond"]
      BY <2>6 DEF Throw
    <3>2. request[h] \in Requests /\ Status[h] = "OtherError"
      BY <2>0, <3>1 DEF Fits, Statements, Requests
    <3>3. CASE users' = users
      BY <1>0, <2>00, <3>1, <3>2, <3>3, HandlerMoves DEF Statements
    <3>4. CASE users' # users
      <4>1. /\ pc[h] = "insert" /\ Rows(request[h].userid) = {}
            /\ users' = users \cup {Row(h)}
        BY <2>6, <3>4 DEF Throw
      <4>2. request[h] \in SignUps
        BY <2>0, <4>1 DEF Fits, Statements
      <4>3. users' \subseteq Users /\ OneRow'
        BY <4>1, <4>2, RowAdded
      <4>4. /\ pc'[h] = "respond" /\ request'[h] \in Requests
            /\ Status'[h] = "OtherError"
        BY <1>0, <3>1, <3>2
      <4>5. Fits(h)'
        BY <4>4 DEF Fits, Statements
      <4>6. answered' \subseteq users'
        BY <3>1, <4>1 DEF IInv
      <4> QED
        BY <1>0, <2>0, <2>00, <3>1, <4>1, <4>3, <4>5, <4>6, HandlerKeeps
    <3> QED
      BY <3>3, <3>4
  <2>7. CASE Respond(h)
    <3>1. /\ users' = users /\ pc[h] = "respond"
          /\ pc' = [pc EXCEPT ![h] = "receive"]
          /\ request' = [request EXCEPT ![h] = NoRequest]
          /\ Status' = [Status EXCEPT ![h] = "OtherError"]
          /\ answered' = IF request[h].op = "SignUp" /\ Status[h] = "Success"
                         THEN answered \cup {Row(h)} ELSE answered
      BY <2>7 DEF Respond
    <3>2. answered' = answered \/ Row(h) \in users
      BY <2>0, <3>1 DEF Fits
    <3> QED
      BY <2>00, <3>1, <3>2, HandlerMoves DEF Statements
  <2> QED
    BY <1>2, <2>1, <2>2, <2>3, <2>4, <2>5, <2>6, <2>7 DEF Handler
<1> QED
  BY <1>1, <1>2 DEF Next

LEMMA InitIInv == Init => IInv
  BY DEF Init, IInv, TypeOK, OneRow, Fits, Statements, SignUpStatus, LoginStatus, Users

\* Every reachable state is type correct.
THEOREM TypeCorrect == Spec => []TypeOK
<1>1. IInv => TypeOK
  BY DEF IInv
<1> QED
  BY InitIInv, NextIInv, <1>1, PTL DEF Spec

------------------------------------------------------------------------------
(* The store implements the registry.                                       *)

\* What the registry sees of a step of handler h.
LEMMA OutcomeStep ==
  ASSUME IInv, NEW h \in Handlers, NEW step, NEW status,
         pc' = [pc EXCEPT ![h] = step], Status' = [Status EXCEPT ![h] = status]
  PROVE  [g \in Handlers |-> Outcome(g)]'
           = [[g \in Handlers |-> Outcome(g)] EXCEPT ![h] =
                IF step \in Statements THEN "pending"
                ELSE IF step = "respond" THEN status ELSE "none"]
<1>1. /\ pc'[h] = step /\ Status'[h] = status
      /\ \A g \in Handlers : g # h => pc'[g] = pc[g] /\ Status'[g] = Status[g]
  BY DEF IInv, TypeOK
<1>2. \A g \in Handlers : g # h => Outcome(g)' = Outcome(g)
  BY <1>1 DEF Outcome
<1>3. Outcome(h)' = IF step \in Statements THEN "pending"
                    ELSE IF step = "respond" THEN status ELSE "none"
  BY <1>1 DEF Outcome
<1> QED
  BY <1>2, <1>3

\* Every step is a step of the registry or leaves its variables as they are.
LEMMA StepImplements ==
  ASSUME IInv, [Next]_vars
  PROVE  [Registry!Next]_Registry!vars
<1> USE DEF Registry!vars, Goto, Return
<1> DEFINE out == [g \in Handlers |-> Outcome(g)]
<1>0. /\ \A h \in Handlers : /\ Status = [Status EXCEPT ![h] = Status[h]]
                             /\ out[h] = Outcome(h)
                             /\ Fits(h)
      /\ users \subseteq Users
  BY DEF IInv, TypeOK
<1>1. CASE UNCHANGED vars
  BY <1>1 DEF vars, Outcome
<1>2. ASSUME NEW h \in Handlers,
             \/ Handler(h) \/ GetConnection(h) \/ CloseClient(h)
             \/ \E r \in Requests : Receive(h, r)
      PROVE  [Registry!Next]_Registry!vars
  <2>1. CASE GetConnection(h) \/ CloseClient(h)
    <3>1. /\ UNCHANGED <<users, request, Status>> /\ pc[h] \in {"closed", "receive"}
          /\ \E step \in {"closed", "receive"} : pc' = [pc EXCEPT ![h] = step]
      BY <2>1 DEF GetConnection, CloseClient
    <3>2. Outcome(h) = "none"
      BY <3>1 DEF Outcome, Statements
    <3>3. out' = [out EXCEPT ![h] = "none"]
      BY <1>0, <3>1, OutcomeStep DEF Statements
    <3>4. out' = out
      BY <1>0, <3>2, <3>3
    <3> QED
      BY <3>1, <3>4
  <2>2. ASSUME NEW r \in Requests, Receive(h, r) PROVE Registry!Call(h, r)
    <3>1. /\ UNCHANGED <<users, Status>> /\ pc[h] = "receive"
          /\ request' = [request EXCEPT ![h] = r]
          /\ \E step \in Statements : pc' = [pc EXCEPT ![h] = step]
      BY <2>2 DEF Receive, Statements
    <3>2. Outcome(h) = "none"
      BY <3>1 DEF Outcome, Statements
    <3>3. out' = [out EXCEPT ![h] = "pending"]
      BY <1>0, <3>1, OutcomeStep
    <3> QED
      BY <1>0, <3>1, <3>2, <3>3 DEF Registry!Call
  <2>3. ASSUME pc[h] \in Statements \ {"query"}, UNCHANGED request,
               NEW s, pc' = [pc EXCEPT ![h] = "respond"],
               Status' = [Status EXCEPT ![h] = s],
               \/ /\ s = "Success" /\ ~Registry!Taken(request[h].userid)
                  /\ users' = users \cup {Row(h)}
               \/ /\ s = "DuplicateUserId" /\ Registry!Taken(request[h].userid)
                  /\ UNCHANGED users
               \/ s = "DuplicateNickname" /\ UNCHANGED users
               \/ /\ s = "OtherError"
                  /\ "fail" \in Env \/ Registry!Taken(request[h].userid)
                  /\ \/ UNCHANGED users
                     \/ /\ ~Registry!Taken(request[h].userid)
                        /\ users' = users \cup {Row(h)}
        PROVE  Registry!Happen(h)
    <3>0. pc[h] \in Statements /\ request[h] \in SignUps
      BY <1>0, <2>3 DEF Fits
    <3>1. Outcome(h) = "pending" /\ request[h].op = "SignUp"
      BY <3>0 DEF Outcome, SignUps
    <3>2. out' = [out EXCEPT ![h] = s]
      BY <2>3, OutcomeStep DEF Statements
    <3>3. Registry!Account(request[h]) = Row(h)
      BY DEF Registry!Account, Row
    <3>4. Registry!SignUp(h, request[h])
      BY <2>3, <3>2, <3>3 DEF Registry!SignUp
    <3> QED
      BY <1>0, <2>3, <3>1, <3>4 DEF Registry!Happen
  <2>4. ASSUME pc[h] \in Statements, pc' = [pc EXCEPT ![h] = "check nickname"]
                                     \/ pc' = [pc EXCEPT ![h] = "insert"],
               UNCHANGED <<users, request, Status>>
        PROVE  UNCHANGED Registry!vars
    <3>1. Outcome(h) = "pending"
      BY <2>4 DEF Outcome
    <3>2. out' = [out EXCEPT ![h] = "pending"]
      BY <1>0, <2>4, OutcomeStep DEF Statements
    <3>3. out' = out
      BY <1>0, <3>1, <3>2
    <3> QED
      BY <2>4, <3>3
  <2>5. \A name : Registry!Taken(name) <=> Rows(name) # {}
    BY DEF Registry!Taken, Rows
  <2>6. CASE CheckUserId(h)
    BY <1>2, <2>3, <2>4, <2>5, <2>6 DEF CheckUserId, Statements, Registry!Next
  <2>7. CASE CheckNickname(h)
    BY <1>2, <2>3, <2>4, <2>5, <2>7 DEF CheckNickname, Statements, Registry!Next
  <2>8. CASE Insert(h)
    BY <1>2, <2>3, <2>5, <2>8 DEF Insert, Statements, Registry!Next
  <2>9. CASE Login(h)
    <3>1. UNCHANGED <<users, request>> /\ pc[h] = "query" /\ request[h] \in Logins
      BY <1>0, <2>9 DEF Login, Fits
    <3>2. Outcome(h) = "pending" /\ request[h].op = "Login"
      BY <3>1 DEF Outcome, Statements, Logins
    <3>3. PICK s \in {"UserIdNotFound", "Success", "InvalidPassword"} : Return(h, s)
      BY <2>9 DEF Login
    <3>4. out' = [out EXCEPT ![h] = s]
      BY <3>3, OutcomeStep DEF Statements
    <3>5. Status'[h] = s
      BY <3>3 DEF IInv, TypeOK
    <3>6. \A u, v \in Rows(request[h].userid) : u = v
      BY DEF IInv, OneRow, Rows
    <3>7. CASE Rows(request[h].userid) = {}
      <4>1. s = "UserIdNotFound"
        BY <2>9, <3>3, <3>5, <3>7 DEF Login, IInv, TypeOK
      <4> QED
        BY <1>0, <2>5, <3>1, <3>2, <3>4, <3>7, <4>1
           DEF Registry!Happen, Registry!Login, Registry!Next
    <3>8. CASE Rows(request[h].userid) # {}
      <4>1. PICK u \in Rows(request[h].userid) :
              s = IF u.password = request[h].password THEN "Success" ELSE "InvalidPassword"
        BY <2>9, <3>3, <3>5, <3>8 DEF Login, IInv, TypeOK
      <4>2. u \in users /\ u.userid = request[h].userid
        BY DEF Rows
      <4>3. \A a \in users : a.userid = request[h].userid => a = u
        BY <4>2 DEF IInv, OneRow
      <4>4. Registry!Login(h, request[h])
        BY <2>5, <3>1, <3>4, <3>8, <4>1, <4>2, <4>3 DEF Registry!Login
      <4> QED
        BY <1>0, <3>1, <3>2, <4>4 DEF Registry!Happen, Registry!Next
    <3> QED
      BY <3>7, <3>8
  <2>10. CASE Throw(h)
    <3>1. /\ "fail" \in Env /\ pc[h] \in Statements
          /\ pc' = [pc EXCEPT ![h] = "respond"] /\ UNCHANGED <<request, Status>>
          /\ \/ UNCHANGED users
             \/ /\ pc[h] = "insert" /\ Rows(request[h].userid) = {}
                /\ users' = users \cup {Row(h)}
      BY <2>10 DEF Throw
    <3>2. Status[h] = "OtherError" /\ Status' = [Status EXCEPT ![h] = "OtherError"]
      BY <1>0, <3>1 DEF Fits, Statements
    <3>3. CASE pc[h] # "query"
      BY <1>2, <2>3, <2>5, <3>1, <3>2, <3>3 DEF Registry!Next
    <3>4. CASE pc[h] = "query"
      <4>1. Outcome(h) = "pending" /\ request[h].op = "Login" /\ UNCHANGED users
        BY <1>0, <3>1, <3>4 DEF Outcome, Fits, Logins
      <4>2. out' = [out EXCEPT ![h] = "OtherError"]
        BY <3>1, <3>2, OutcomeStep DEF Statements
      <4> QED
        BY <1>0, <3>1, <4>1, <4>2 DEF Registry!Happen, Registry!Login, Registry!Next
    <3> QED
      BY <3>3, <3>4
  <2>11. CASE Respond(h)
    <3>1. /\ users' = users /\ pc[h] = "respond"
          /\ pc' = [pc EXCEPT ![h] = "receive"]
          /\ request' = [request EXCEPT ![h] = NoRequest]
          /\ Status' = [Status EXCEPT ![h] = "OtherError"]
      BY <2>11 DEF Respond
    <3>2. Outcome(h) = Status[h] /\ Status[h] \in SignUpStatus \cup LoginStatus
      BY <3>1 DEF Outcome, Statements, IInv, TypeOK
    <3>3. Outcome(h) \notin {"none", "pending"}
      BY <3>2 DEF SignUpStatus, LoginStatus
    <3>4. out' = [out EXCEPT ![h] = "none"]
      BY <3>1, OutcomeStep DEF Statements
    <3> QED
      BY <1>0, <3>1, <3>3, <3>4 DEF Registry!Answer, Registry!Next
  <2> QED
    BY <1>2, <2>1, <2>2, <2>6, <2>7, <2>8, <2>9, <2>10, <2>11 DEF Handler, Registry!Next
<1> QED
  BY <1>1, <1>2 DEF Next

\* Sign-ups and logins take effect one at a time, each between its request and
\* its answer, whatever their statements interleave with (SignUp, Login).
THEOREM Implements == Spec => Linearizable
<1>1. Init => Registry!Init
  BY DEF Init, Registry!Init, Outcome, Statements
<1> QED
  BY InitIInv, NextIInv, StepImplements, <1>1, PTL DEF Spec, Linearizable, Registry!Spec

\* An account whose sign-up was answered Success is an account to log in with.
THEOREM LoginWorks == Spec => AnsweredCanLogin
<1> DEFINE Works ==
      \A h \in Handlers : \A a \in answered :
        /\ pc[h] = "query" /\ pc'[h] = "respond"
        /\ a.userid = request[h].userid /\ a.password = request[h].password
        => Status'[h] \in {"Success", "OtherError"}
<1>1. ASSUME IInv, [Next]_vars PROVE [Works]_vars
  <2> SUFFICES ASSUME Next, NEW h \in Handlers, NEW a \in answered,
                      pc[h] = "query", pc'[h] = "respond",
                      a.userid = request[h].userid, a.password = request[h].password
               PROVE  Status'[h] \in {"Success", "OtherError"}
    BY <1>1
  <2>1. PICK g \in Handlers :
          \/ Handler(g) \/ GetConnection(g) \/ CloseClient(g)
          \/ \E r \in Requests : Receive(g, r)
    BY DEF Next
  <2>2. pc \in [Handlers -> Steps] /\ Status \in [Handlers -> SignUpStatus \cup LoginStatus]
    BY <1>1 DEF IInv, TypeOK, Steps
  <2>3. g = h
    <3>1. g # h => pc'[h] = pc[h]
      BY <2>1, <2>2 DEF Handler, GetConnection, CloseClient, Receive, CheckUserId,
         CheckNickname, Insert, Login, Throw, Respond, Goto, Return
    <3> QED
      BY <3>1
  <2>4. Login(h) \/ Throw(h)
    BY <2>1, <2>3 DEF Handler, GetConnection, CloseClient, Receive, CheckUserId,
       CheckNickname, Insert, Respond
  <2>5. CASE Throw(h)
    BY <1>1, <2>5 DEF Throw, IInv, Fits
  <2>6. CASE Login(h)
    <3>1. a \in Rows(request[h].userid) /\ \A u \in Rows(request[h].userid) : u = a
      BY <1>1 DEF IInv, OneRow, Rows
    <3>2. Return(h, "Success")
      BY <2>6, <3>1 DEF Login
    <3> QED
      BY <2>2, <3>2 DEF Return
  <2> QED
    BY <2>4, <2>5, <2>6
<1> QED
  BY InitIInv, NextIInv, <1>1, PTL DEF Spec, AnsweredCanLogin
==============================================================================
