SPECIFICATION Spec
CONSTANTS
  Users = {u1, u2}
  Handlers = {h1, h2}
  Rpm = 1
  Tpm = 2
  WindowSize = 2
  BinSize = 2
  Usages = {1}
  MaxTime = 5
INVARIANTS ReadsThisWindow RpmOvershootBounded
CHECK_DEADLOCK FALSE
