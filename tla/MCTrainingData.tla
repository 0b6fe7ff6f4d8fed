--------------------------- MODULE MCTrainingData ---------------------------
(***************************************************************************)
(* TrainingData with one setting for each of the three ways to select (two *)
(* pools, no pools, continual learning on the new batch only) and one for  *)
(* a ROUTING_STRATEGY that has no trainer.                                 *)
(***************************************************************************)
EXTENDS TrainingData

Setting(f, r, n, s, t) ==
  [FIFO_SIZE |-> f, REPLAY_SIZE |-> r, MAX_TOTAL_DATA |-> n,
   ONLINE_TRAIN_FROM_SCRATCH |-> s, HAS_TRAINER |-> t]

MCSettings ==
  {Setting(1, 1, 0, 1, TRUE), Setting(0, 0, 2, 1, TRUE), Setting(0, 0, 2, 0, TRUE),
   Setting(1, 1, 0, 1, FALSE)}
=============================================================================
