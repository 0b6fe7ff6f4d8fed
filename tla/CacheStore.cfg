SPECIFICATION Spec
CONSTANTS
  Pods = {p1, p2}
  Requests = {r1, r2}
  Models = {"base"}
  Adapters = {"lora"}
  Absent = Absent
  MaxEvents = 4
INVARIANTS MappingsAgree NeverOvercounts
SYMMETRY Symmetry
CHECK_DEADLOCK FALSE
