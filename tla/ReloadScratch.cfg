SPECIFICATION Safety
CONSTANTS
  Configs = {c1, c2}
  Reloaders = {r1, r2}
  ONLINE_TRAIN_FROM_SCRATCH = TRUE
  SkipWeights = FALSE
  Pretrained = TRUE
  Epochs = 2
  MaxRounds = 2
  MaxFailedRounds = 1
CHECK_DEADLOCK FALSE
SYMMETRY Symmetry
INVARIANTS TypeOK AtMostOneReload OneReloadPerUpdate UndisturbedRoundIsWhole AnsweredByAnAgent
