SPECIFICATION Spec
CONSTANTS
  c1 = c1
  c3 = c3
  c2 = c2
  k1 = k1
  u1 = u1
  u2 = u2
  t1 = t1
  t2 = t2
  t3 = t3
  Conns = {c1, c2, c3}
  Timers = {k1}
  Users = {u1, u2}
  Tokens = {t1, t2, t3}
  None = None
  Env = {"ready"}
SYMMETRY Symmetry
CHECK_DEADLOCK FALSE
INVARIANTS SocketIndexExact PlayerIndexComplete SessionHasHandler BroadcastTargetsOpen NoPhantomPlayers
