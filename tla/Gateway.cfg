SPECIFICATION Spec
CONSTANTS
  Requests = {r1, r2}
  Pods = {p1, p2}
  NoPod = NoPod
  Kinds = {"stream", "plain"}
  SubAlgorithms = {"none", "lmetric", "mooncake", "preble"}
  PromptSizes = {1, 3}
  EmptyStreams = TRUE
  MaxTokens = 2
INVARIANTS InflightMatches PendingMatches PhaseCountersMatch ReservationsMatch
CHECK_DEADLOCK FALSE
