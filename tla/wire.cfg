SPECIFICATION LiveSpec
CONSTANTS
  w1 = w1
  w2 = w2
  Threads = {w1, w2}
  Game = Game
  Bodies <- Small
  ReadChunk = 2
  Room = 3
  MaxSent = 3
  Env = {"overlap", "short"}
CHECK_DEADLOCK FALSE
INVARIANTS ReceivedAsSent OnlyLargeRefused
PROPERTIES Arrives
