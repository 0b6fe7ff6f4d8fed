SPECIFICATION Spec
CONSTANTS
  p1 = p1
  p2 = p2
  p3 = p3
  Requests = {r1, r2, r3}
  Pods = {p1, p2, p3}
  NoPod = NoPod
  Policies = {"least_request", "prefix_cache_1", "prefix_cache_2", "prefix_hit_threshold_or_least_request", "random", "lmetric", "mooncake", "lodestar"}
  Concurrency = 2
  Threshold = 0
  Factor = 1
  HitThreshold = 50
  HitRatios = {0, 60}
  PromptSizes = {2}
  Speed <- MCSpeed
SYMMETRY Symmetry
INVARIANTS GapBounded QueuesFollowSpeed ReservationsExact
CHECK_DEADLOCK FALSE
