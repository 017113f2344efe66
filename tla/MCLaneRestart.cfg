SPECIFICATION FairSpec
CONSTANTS
  p1 = p1
  p2 = p2
  p3 = p3
  t1 = t1
  t2 = t2
  Callers = {p1, p2}
  Threads = {t1, t2}
  LaneCapacity = 1
PROPERTY RetiredLaneStartsAgain
