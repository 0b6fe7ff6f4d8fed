SPECIFICATION Spec
CONSTANTS
  Settings <- MCSettings
  MIN_NUM_TRAINING_DATA = 2
  MIN_NUM_UPDATE_DATA = 1
  MAX_NUM_ONLINE_TRAINS = 3
  OfflineRows = 1
  BatchSizes = {1, 2}
  MaxSamples = 3
  MaxRestarts = 1
CHECK_DEADLOCK FALSE
INVARIANTS TypeOK SeqOrder StorageBounded PoolBounded TrainedByNextRound NewDataOnly
PROPERTIES RoundStarts RoundEnds
