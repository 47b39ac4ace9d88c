SPECIFICATION LiveSpec
CONSTANTS
  p1 = p1
  p2 = p2
  k1 = k1
  k2 = k2
  Players = {p1, p2}
  Timers = {k1, k2}
  CountdownSeconds = 3
  Null = Null
  Env = {"unready", "move"}
VIEW Seen
CHECK_DEADLOCK FALSE
INVARIANTS FlagOwned AtMostOneCountdown
PROPERTIES ShownDescends CountdownEnds AllReadyStarts
