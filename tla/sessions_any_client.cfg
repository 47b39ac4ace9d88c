SPECIFICATION LiveSpec
CONSTANTS
  c1 = c1
  c2 = c2
  u1 = u1
  u2 = u2
  t1 = t1
  t2 = t2
  Conns = {c1, c2}
  Timers = {}
  Users = {u1, u2}
  Tokens = {t1, t2}
  None = None
  Env = {"relogin", "share", "list"}
INVARIANTS PlayerIndexSound CleanupFindsSession
PROPERTIES HandlersComplete
