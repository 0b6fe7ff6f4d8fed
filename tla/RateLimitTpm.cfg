SPECIFICATION Spec
CONSTANTS
  Users = {u1}
  Handlers = {h1, h2}
  Rpm = 5
  Tpm = 2
  WindowSize = 2
  BinSize = 2
  Usages = {2}
  MaxTime = 2
INVARIANT TpmEnforced
CHECK_DEADLOCK FALSE
