----------------------------- MODULE MCCountdown -----------------------------
EXTENDS Countdown, TLC

(***************************************************************************)
(* What tells states apart.  Left out is what neither a step nor a property *)
(* of the run looks at any more: everything when the process has crashed; a *)
(* CountdownThread that is not joinable and that no one waits for, which is *)
(* as good as none; the seconds left of a thread that is past its loop; and *)
(* once readiness has been taken back, what was shown last and whether the  *)
(* stop is to be told.                                                      *)
(***************************************************************************)
Handle ==
  IF handle \in joinable \/ \E h \in Players : pc[h] = "await" /\ held[h] = handle
  THEN handle ELSE Null
Left(k) == IF pc[k] \in {"loop", "tick", "sleep"} THEN remaining[k] ELSE 0
Seen ==
  IF crashed THEN <<crashed>>
  ELSE <<state, flag, Handle, joinable, pc, want, todo, ready, held,
         [k \in Timers |-> Left(k)], steady,
         IF steady THEN shown ELSE Other("none")>>
==============================================================================
