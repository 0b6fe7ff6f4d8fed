SPECIFICATION Spec
CONSTANTS
  Configs = {c1, c2}
  Reloaders = {r1}
  ONLINE_TRAIN_FROM_SCRATCH = FALSE
  SkipWeights = TRUE
  Pretrained = TRUE
  Epochs = 1
  MaxRounds = 2
  MaxFailedRounds = 0
CHECK_DEADLOCK FALSE
PROPERTIES InferEnds ReloadEnds
INVARIANT UndisturbedRoundIsWhole
