SPECIFICATION Spec
CONSTANTS
  w1 = w1
  w2 = w2
  Threads = {w1, w2}
  Game = Game
  Bodies <- Small
  ReadChunk = 2
  Room = 3
  MaxSent = 2
  Env = {"overlap"}
CHECK_DEADLOCK FALSE
INVARIANTS OnlySentReceived
