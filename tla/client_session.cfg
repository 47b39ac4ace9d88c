SPECIFICATION LiveSpec
CONSTANTS
  MaxConns = 3
  MaxSent = 3
  Env = {"size"}
CHECK_DEADLOCK FALSE
INVARIANTS TypeOK SingleProducer MarkersTrue
PROPERTIES DeliversInOrder CloseNoticed Delivered
