SPECIFICATION StateSpec
CONSTANTS
  Requests = {r1, r2}
  Pods = {p1}
  NoPod = NoPod
  Kinds = {"stream", "plain"}
  SubAlgorithms = {"none"}
  PromptSizes = {1}
  EmptyStreams = TRUE
  MaxTokens = 1
  MinLines = 0
INVARIANTS NothingElseLeft PostedAtMostOnce
PROPERTY LinesAreFlushed
CHECK_DEADLOCK FALSE
