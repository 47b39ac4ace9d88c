------------------------------- MODULE Delivery -------------------------------
(***************************************************************************)
(* What the login client promises the game about the packets of a          *)
(* connection: while it is up they are handed over in the order in which   *)
(* the server sent them, each once, and none of another connection.        *)
(***************************************************************************)
EXTENDS Naturals, Sequences

VARIABLES
  up,     \* the client is connected
  conns,  \* the number of connections made, and of the last one
  sent,   \* packets the server has sent on it
  given   \* packets handed to the game on it

vars == <<up, conns, sent, given>>

Init == up = FALSE /\ conns = 0 /\ sent = 0 /\ given = <<>>

Connect ==
  /\ ~up
  /\ up' = TRUE /\ conns' = conns + 1
  /\ sent' = 0 /\ given' = <<>>

Send == up /\ sent' = sent + 1 /\ UNCHANGED <<up, conns, given>>

Deliver ==
  /\ up /\ Len(given) < sent
  /\ given' = Append(given, [conn |-> conns, n |-> Len(given) + 1])
  /\ UNCHANGED <<up, conns, sent>>

\* What has not been handed over by now never is.
Disconnect == up /\ up' = FALSE /\ UNCHANGED <<conns, sent, given>>

Next == Connect \/ Send \/ Deliver \/ Disconnect

Spec == Init /\ [][Next]_vars
==============================================================================
