SPECIFICATION Spec
CONSTANTS
  MaxConns = 2
  MaxSent = 2
  Env = {"disconnect"}
CHECK_DEADLOCK FALSE
INVARIANTS MarkersTrue
