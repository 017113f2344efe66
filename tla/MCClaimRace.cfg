SPECIFICATION ClaimSpec
CONSTANTS
  p1 = p1
  p2 = p2
  p3 = p3
  Pids = {p1, p2, p3}
  MaxGenerations = 1
INVARIANT OneWriter
CHECK_DEADLOCK FALSE
