SPECIFICATION Spec
CONSTANTS
  p1 = p1
  p2 = p2
  k1 = k1
  k2 = k2
  Players = {p1, p2}
  Timers = {k1, k2}
  CountdownSeconds = 2
  Null = Null
  Env = {"unready"}
CHECK_DEADLOCK FALSE
INVARIANTS StartsAtZero
