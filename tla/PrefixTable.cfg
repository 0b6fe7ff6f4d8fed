SPECIFICATION Spec
CONSTANTS
  a = a
  b = b
  c = c
  Threads = {t1, t2}
  Prompts <- MCPrompts
  Models = {m}
  Pods = {p1, p2}
  Capacity = 2
  TTL = 1
  MaxTime = 4
INVARIANTS LeastRecentlyUsedLast RecordedIsFound MatchIsBracketed
SYMMETRY Symmetry
CHECK_DEADLOCK FALSE
