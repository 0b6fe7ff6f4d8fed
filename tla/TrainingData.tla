---------------------------- MODULE TrainingData ----------------------------
(***************************************************************************)
(* The training data of the routing service (routing_agent_service.py):    *)
(* handle_flush appends samples and counts them; online_train_routine, run *)
(* by the scheduler, copies the data under TRAINING_DF_LOCK, chooses a     *)
(* training set, evicts from the global frames, refreshes the replay       *)
(* buffer and trains.  The branch for contextual-bandit models is          *)
(* modelled.  Flask serves one request at a time (app.run threaded=False), *)
(* so there is one flush handler, concurrent with one training thread.     *)
(*                                                                         *)
(* A row is [id, seq, round]: request_id, _online_seq and                  *)
(* _collection_round.  Rows of the offline CSV have no seq and no round:   *)
(* they get a negative seq in file order (sort_values puts them first) and *)
(* round -1.                                                               *)
(***************************************************************************)
EXTENDS Integers, FiniteSets

CONSTANTS
  Settings,       \* what the environment may set: see SettingsType
  MIN_NUM_TRAINING_DATA, MIN_NUM_UPDATE_DATA,
  MAX_NUM_ONLINE_TRAINS,      \* negative: unlimited
  OfflineRows,    \* rows of the offline CSV
  BatchSizes,     \* sizes of a flushed batch
  MaxSamples,     \* bound: samples received over a behaviour
  MaxRestarts     \* bound: restarts of the process

\* ONLINE_TRAIN_FROM_SCRATCH = 0 is continual learning (CL).  HAS_TRAINER: the
\* ROUTING_STRATEGY names one of the three trainers ("lodestar" does not).
SettingsType ==
  [FIFO_SIZE : Nat, REPLAY_SIZE : Nat, MAX_TOTAL_DATA : Nat,
   ONLINE_TRAIN_FROM_SCRATCH : {0, 1}, HAS_TRAINER : BOOLEAN]

ASSUME DataConstants ==
  /\ Settings \subseteq SettingsType
  /\ {MIN_NUM_TRAINING_DATA, MIN_NUM_UPDATE_DATA, OfflineRows, MaxSamples,
      MaxRestarts} \subseteq Nat
  /\ MAX_NUM_ONLINE_TRAINS \in Int
  /\ BatchSizes \subseteq Nat

VARIABLES
  settings,           \* read from the environment at the start
  OFFLINE_DF, ONLINE_DF, ONLINE_SEQ,
  NUM_NEW_DATA, TOTAL_NUM_NEW_DATA, NUM_TRAINS, TRAINING_RIGHT_NOW,
  REPLAY_BUFFER,      \* selected_data in memory
  replay_file,        \* replay_buffer.pkl
  tpc,                \* the training thread
  offline_df_copy, online_df_copy, training_df,
  fpc, len_log, reg,  \* the flush handler: batch length, NUM_NEW_DATA it read
  received,           \* history: samples received
  sinceCopy,          \* history: samples received since the last copy
  trained,            \* history: rows that finished rounds trained on
  restarts

store == <<OFFLINE_DF, ONLINE_DF, ONLINE_SEQ>>
replay == <<REPLAY_BUFFER, replay_file>>
counters == <<NUM_NEW_DATA, TOTAL_NUM_NEW_DATA>>
round == <<NUM_TRAINS, TRAINING_RIGHT_NOW>>
trainer == <<tpc, offline_df_copy, online_df_copy, training_df>>
flush == <<fpc, len_log, reg>>
history == <<received, sinceCopy, trained, restarts>>
vars == <<settings, store, replay, counters, round, trainer, flush, history>>

FIFO_SIZE == settings.FIFO_SIZE

REPLAY_SIZE == settings.REPLAY_SIZE

MAX_TOTAL_DATA == settings.MAX_TOTAL_DATA

ONLINE_TRAIN_FROM_SCRATCH == settings.ONLINE_TRAIN_FROM_SCRATCH = 1

HasTrainer == settings.HAS_TRAINER

Row == [id : Nat, seq : Int, round : Int]

OfflineRow(i) == [id |-> i, seq |-> i - OfflineRows - 1, round |-> -1]

Offline == {OfflineRow(i) : i \in 1..OfflineRows}

\* The k rows a batch keeps get the next ids, sequence numbers and the round.
BatchRows(k) ==
  {[id |-> OfflineRows + received + i, seq |-> ONLINE_SEQ + i - 1,
    round |-> NUM_TRAINS] : i \in 1..k}

TypeOK ==
  /\ settings \in Settings
  /\ OFFLINE_DF \in SUBSET Row /\ ONLINE_DF \in SUBSET Row
  /\ ONLINE_SEQ \in Nat /\ NUM_NEW_DATA \in Nat /\ TOTAL_NUM_NEW_DATA \in Nat
  /\ NUM_TRAINS \in Nat /\ TRAINING_RIGHT_NOW \in BOOLEAN
  /\ REPLAY_BUFFER \in SUBSET Row /\ replay_file \in SUBSET Row
  /\ tpc \in {"idle", "copy", "select", "replay", "train", "stats", "publish",
              "reset"}
  /\ offline_df_copy \in SUBSET Row /\ online_df_copy \in SUBSET Row
  /\ training_df \in SUBSET Row
  /\ fpc \in {"idle", "load", "store"} /\ len_log \in Nat /\ reg \in Nat
  /\ received \in Nat /\ sinceCopy \in Nat
  /\ trained \in SUBSET Row /\ restarts \in Nat

\* initialize(): the CSV rows, no online rows, the persisted replay buffer.
Initialize(file) ==
  /\ OFFLINE_DF = Offline /\ ONLINE_DF = {} /\ ONLINE_SEQ = 0
  /\ NUM_NEW_DATA = 0 /\ TOTAL_NUM_NEW_DATA = OfflineRows
  /\ NUM_TRAINS = 0 /\ TRAINING_RIGHT_NOW = FALSE
  /\ REPLAY_BUFFER = file
  /\ tpc = "idle" /\ offline_df_copy = {} /\ online_df_copy = {}
  /\ training_df = {}
  /\ fpc = "idle" /\ len_log = 0 /\ reg = 0

Init ==
  /\ settings \in Settings /\ Initialize({}) /\ replay_file = {}
  /\ received = 0 /\ sinceCopy = 0 /\ trained = {} /\ restarts = 0

-----------------------------------------------------------------------------
\* Mutant of FlushAppend: the sequence is not advanced.
FlushAppendSameSeq(n, k) ==
  /\ fpc = "idle" /\ received + n <= MaxSamples
  /\ ONLINE_DF' = ONLINE_DF \cup BatchRows(k)
  /\ fpc' = "load" /\ len_log' = n
  /\ received' = received + n /\ sinceCopy' = sinceCopy + n
  /\ UNCHANGED <<OFFLINE_DF, ONLINE_SEQ, replay, counters, round, trainer, reg,
                 trained, restarts>>

\* handle_flush up to the end of its TRAINING_DF_LOCK block: the TTFT filter
\* keeps k of the n samples.  A batch whose parsing raises changes nothing.
FlushAppend(n, k) ==
  /\ fpc = "idle" /\ received + n <= MaxSamples
  /\ ONLINE_DF' = ONLINE_DF \cup BatchRows(k)
  /\ ONLINE_SEQ' = ONLINE_SEQ + k
  /\ fpc' = "load" /\ len_log' = n
  /\ received' = received + n /\ sinceCopy' = sinceCopy + n
  /\ UNCHANGED <<OFFLINE_DF, replay, counters, round, trainer, reg, trained,
                 restarts>>

\* NUM_NEW_DATA += len(log_data) is a load and a later store: here the load.
FlushLoad ==
  /\ fpc = "load"
  /\ reg' = NUM_NEW_DATA /\ fpc' = "store"
  /\ UNCHANGED <<store, replay, counters, round, trainer, len_log, history>>

\* The store, and TOTAL_NUM_NEW_DATA, which no other thread writes.
FlushStore ==
  /\ fpc = "store"
  /\ NUM_NEW_DATA' = reg + len_log
  /\ TOTAL_NUM_NEW_DATA' = TOTAL_NUM_NEW_DATA + len_log
  /\ fpc' = "idle" /\ len_log' = 0 /\ reg' = 0
  /\ UNCHANGED <<store, replay, round, trainer, history>>

-----------------------------------------------------------------------------
ReadyForRound ==
  /\ MAX_NUM_ONLINE_TRAINS < 0 \/ NUM_TRAINS < MAX_NUM_ONLINE_TRAINS
  /\ TOTAL_NUM_NEW_DATA >= MIN_NUM_TRAINING_DATA
  /\ NUM_NEW_DATA >= MIN_NUM_UPDATE_DATA

\* online_train_routine, called by the scheduler: the guards and the flag.
TrainStart ==
  /\ tpc = "idle" /\ ~TRAINING_RIGHT_NOW /\ ReadyForRound
  /\ TRAINING_RIGHT_NOW' = TRUE /\ tpc' = "copy"
  /\ UNCHANGED <<store, replay, counters, NUM_TRAINS, offline_df_copy,
                 online_df_copy, training_df, flush, history>>

\* The routine returns: its locals are gone.
Return ==
  /\ tpc' = "idle"
  /\ offline_df_copy' = {} /\ online_df_copy' = {} /\ training_df' = {}

\* The copy of both frames under TRAINING_DF_LOCK; nothing to train on ends
\* the round.
TrainCopy ==
  /\ tpc = "copy"
  /\ \/ /\ OFFLINE_DF \cup ONLINE_DF = {}
        /\ Return /\ TRAINING_RIGHT_NOW' = FALSE
        /\ UNCHANGED sinceCopy
     \/ /\ OFFLINE_DF \cup ONLINE_DF # {}
        /\ offline_df_copy' = OFFLINE_DF /\ online_df_copy' = ONLINE_DF
        /\ sinceCopy' = 0
        /\ tpc' = "select" /\ UNCHANGED <<TRAINING_RIGHT_NOW, training_df>>
  /\ UNCHANGED <<store, replay, counters, NUM_TRAINS, flush, received,
                 trained, restarts>>

-----------------------------------------------------------------------------
IsCLNewOnly ==
  /\ ~ONLINE_TRAIN_FROM_SCRATCH /\ NUM_TRAINS > 0
  /\ FIFO_SIZE = 0 /\ REPLAY_SIZE = 0

IsTwoPool == ~IsCLNewOnly /\ (FIFO_SIZE > 0 \/ REPLAY_SIZE > 0)

IsLegacy == ~IsCLNewOnly /\ FIFO_SIZE = 0 /\ REPLAY_SIZE = 0

\* Mutant of NewBatch: the previous round's rows count as new.
NewBatchOffByOne == {r \in online_df_copy : r.round >= NUM_TRAINS - 1}

\* _split_new_and_historical: the current round's rows and all the others.
NewBatch == {r \in online_df_copy : r.round >= NUM_TRAINS}

Historical == (offline_df_copy \cup online_df_copy) \ NewBatch

\* _select_fifo, and the rows _evict_global_data keeps: the n latest.
Newest(S, n) == {r \in S : Cardinality({q \in S : q.seq > r.seq}) < n}

\* Any sample of n rows of S, or all of them if there are fewer: the rows that
\* replay.head, candidates.sample or the coreset selection pick.
Samples(S, n) ==
  {T \in SUBSET S :
     Cardinality(T) = IF Cardinality(S) < n THEN Cardinality(S) ELSE n}

\* Mutant of ReplayAndBackfill: the rows of the replay buffer do not count.
ReplayAndFullBackfill(fifo) ==
  LET need == FIFO_SIZE + REPLAY_SIZE - Cardinality(fifo)
  IN  UNION {{rep \cup fill : fill \in Samples(Historical \ (fifo \cup rep), need)} :
             rep \in Samples(REPLAY_BUFFER, need)}

\* _select_replay and _backfill_from_historical, given the FIFO rows: what fills
\* the pool of FIFO_SIZE + REPLAY_SIZE rows.
ReplayAndBackfill(fifo) ==
  LET need == FIFO_SIZE + REPLAY_SIZE - Cardinality(fifo)
  IN  UNION {{rep \cup fill :
                fill \in Samples(Historical \ (fifo \cup rep),
                                 need - Cardinality(rep))} :
             rep \in Samples(REPLAY_BUFFER, need)}

\* Mutant of Evict: the storage is never trimmed.
EvictNothing(keep) == UNCHANGED <<OFFLINE_DF, ONLINE_DF>>

\* The global frames, overwritten by what is left of the copies.
Evict(keep) ==
  IF Cardinality(offline_df_copy) + Cardinality(online_df_copy) <= keep
  THEN UNCHANGED <<OFFLINE_DF, ONLINE_DF>>
  ELSE LET kept == Newest(offline_df_copy \cup online_df_copy, keep)
       IN  /\ OFFLINE_DF' = offline_df_copy \cap kept
           /\ ONLINE_DF' = online_df_copy \cap kept

\* The chosen rows become training_df_copy; an empty set ends the round.
TrainOn(set) ==
  \/ /\ set = {}
     /\ Return /\ TRAINING_RIGHT_NOW' = FALSE
  \/ /\ set # {}
     /\ tpc' = "replay" /\ training_df' = set
     /\ UNCHANGED <<TRAINING_RIGHT_NOW, offline_df_copy, online_df_copy>>

\* Continual learning on new data only, with nothing evicted.
SelectNew == TrainOn(NewBatch) /\ UNCHANGED <<OFFLINE_DF, ONLINE_DF>>

\* The two-pool selection.
SelectTwoPool ==
  LET fifo == Newest(Historical, FIFO_SIZE)
  IN  /\ \E rep \in ReplayAndBackfill(fifo) : TrainOn(NewBatch \cup fifo \cup rep)
      /\ Evict(FIFO_SIZE + REPLAY_SIZE)

\* Mutant of SelectLegacy: only the rows of the current round are used.
SelectLegacyNewOnly == TrainOn(NewBatch) /\ UNCHANGED <<OFFLINE_DF, ONLINE_DF>>

\* "Original FIFO logic": beyond MAX_TOTAL_DATA the offline rows go first, then
\* the online rows that started first, whatever order they arrived in.
SelectLegacy ==
  LET over == Cardinality(offline_df_copy) + Cardinality(online_df_copy)
                - MAX_TOTAL_DATA
      off == Newest(offline_df_copy, Cardinality(offline_df_copy) - over)
  IN  \/ /\ over <= 0
         /\ TrainOn(offline_df_copy \cup online_df_copy)
         /\ UNCHANGED <<OFFLINE_DF, ONLINE_DF>>
      \/ /\ over > 0
         /\ \E on \in Samples(online_df_copy, MAX_TOTAL_DATA - Cardinality(off)) :
              OFFLINE_DF' = off /\ ONLINE_DF' = on /\ TrainOn(off \cup on)

\* The choice of the training set and the eviction, in each of the three modes.
TrainSelect ==
  /\ tpc = "select"
  /\ \/ IsCLNewOnly /\ SelectNew
     \/ IsTwoPool /\ SelectTwoPool
     \/ IsLegacy /\ SelectLegacy
  /\ UNCHANGED <<ONLINE_SEQ, replay, counters, NUM_TRAINS, flush, history>>

\* GradientReplayBuffer.update on the training set, and save.  Errors of either
\* are logged and swallowed; a save that fails is taken to leave the old file.
TrainReplay ==
  /\ tpc = "replay"
  /\ \/ /\ REPLAY_SIZE > 0
        /\ REPLAY_BUFFER' \in Samples(training_df, FIFO_SIZE + REPLAY_SIZE)
        /\ replay_file' \in {REPLAY_BUFFER', replay_file}
     \/ UNCHANGED replay
  /\ tpc' = "train"
  /\ UNCHANGED <<store, counters, round, offline_df_copy, online_df_copy,
                 training_df, flush, history>>

\* The trainer of ROUTING_STRATEGY learns and saves; a strategy with no trainer
\* returns at once, and leaves TRAINING_RIGHT_NOW as it is.
TrainModel ==
  /\ tpc = "train"
  /\ \/ /\ HasTrainer /\ tpc' = "stats"
        /\ UNCHANGED <<offline_df_copy, online_df_copy, training_df>>
     \/ ~HasTrainer /\ Return
  /\ UNCHANGED <<store, replay, counters, round, flush, history>>

\* The rest of the try block: the normalisation statistics and the monitors.
TrainStats ==
  /\ tpc = "stats"
  /\ tpc' = "publish" /\ trained' = trained \cup training_df
  /\ UNCHANGED <<store, replay, counters, round, offline_df_copy,
                 online_df_copy, training_df, flush, received, sinceCopy,
                 restarts>>

\* Mutant of TrainFail: the flag stays set.
TrainFailKeepsFlag ==
  /\ tpc \in {"select", "replay", "train", "stats"}
  /\ Return
  /\ UNCHANGED <<store, replay, counters, round, flush, history>>

\* An exception in the try block, whether or not the model has learned from the
\* rows, or was saved, by then: NUM_TRAINS stays, so they still count as new.
TrainFail ==
  /\ \/ tpc \in {"select", "replay", "stats"}
     \/ tpc = "train" /\ HasTrainer
  /\ Return /\ TRAINING_RIGHT_NOW' = FALSE
  /\ UNCHANGED <<store, replay, counters, NUM_TRAINS, flush, history>>

\* TRAINING_RIGHT_NOW = False; NUM_TRAINS += 1
TrainPublish ==
  /\ tpc = "publish"
  /\ TRAINING_RIGHT_NOW' = FALSE /\ NUM_TRAINS' = NUM_TRAINS + 1
  /\ tpc' = "reset"
  /\ UNCHANGED <<store, replay, counters, offline_df_copy, online_df_copy,
                 training_df, flush, received, sinceCopy, trained, restarts>>

\* Mutant of TrainReset: the rows the round trained on are subtracted.
TrainResetBySubtraction ==
  /\ tpc = "reset"
  /\ NUM_NEW_DATA' = NUM_NEW_DATA - Cardinality(training_df) /\ Return
  /\ UNCHANGED <<store, replay, TOTAL_NUM_NEW_DATA, round, flush, history>>

\* NUM_NEW_DATA = 0, outside any lock.
TrainReset ==
  /\ tpc = "reset"
  /\ NUM_NEW_DATA' = 0 /\ Return
  /\ UNCHANGED <<store, replay, TOTAL_NUM_NEW_DATA, round, flush, history>>

\* The process dies and starts again: only replay_buffer.pkl survives.
Restart ==
  /\ restarts < MaxRestarts /\ restarts' = restarts + 1
  /\ OFFLINE_DF' = Offline /\ ONLINE_DF' = {} /\ ONLINE_SEQ' = 0
  /\ NUM_NEW_DATA' = 0 /\ TOTAL_NUM_NEW_DATA' = OfflineRows
  /\ NUM_TRAINS' = 0 /\ TRAINING_RIGHT_NOW' = FALSE
  /\ REPLAY_BUFFER' = replay_file /\ UNCHANGED replay_file
  /\ tpc' = "idle" /\ offline_df_copy' = {} /\ online_df_copy' = {}
  /\ training_df' = {}
  /\ fpc' = "idle" /\ len_log' = 0 /\ reg' = 0
  /\ sinceCopy' = 0 /\ UNCHANGED <<received, trained>>

TrainStep ==
  /\ \/ TrainStart \/ TrainCopy \/ TrainSelect \/ TrainReplay \/ TrainModel
     \/ TrainStats \/ TrainPublish \/ TrainReset
  /\ UNCHANGED settings

FlushStep == (FlushLoad \/ FlushStore) /\ UNCHANGED settings

Next ==
  /\ \/ \E n \in BatchSizes : \E k \in 0..n : FlushAppend(n, k)
     \/ FlushStep \/ TrainStep \/ TrainFail \/ Restart
  /\ UNCHANGED settings

\* The scheduler fires every 30 s and both threads run; no sample has to come.
Fairness == WF_vars(TrainStep) /\ WF_vars(FlushStep)

Safety == Init /\ [][Next]_vars

Spec == Safety /\ Fairness

-----------------------------------------------------------------------------
\* Distinct sequence numbers below seq, in the order of rounds up to num.
Ordered(S, seq, num) ==
  /\ \A r \in S : r.seq \in 0..(seq - 1) /\ r.round \in 0..num
  /\ \A r, q \in S : /\ r.seq = q.seq => r = q
                     /\ r.seq < q.seq => r.round <= q.round

\* The rows of the store and of the trainer's copy carry distinct sequence
\* numbers, and a later row never carries an earlier round, although flushes and
\* rounds interleave: what _select_fifo and _evict_global_data take for "newest"
\* is what arrived last.
SeqOrder ==
  /\ Ordered(ONLINE_DF, ONLINE_SEQ, NUM_TRAINS)
  /\ Ordered(online_df_copy, ONLINE_SEQ, NUM_TRAINS)

\* "Total storage is bounded" (README.md:85): once a round has chosen its rows,
\* the frames hold at most the pool, and what arrived since the copy.
StorageBounded ==
  tpc \in {"replay", "train", "stats", "publish"} /\ ~IsCLNewOnly =>
    Cardinality(OFFLINE_DF) + Cardinality(ONLINE_DF)
      <= sinceCopy + IF IsTwoPool THEN FIFO_SIZE + REPLAY_SIZE
                                  ELSE MAX_TOTAL_DATA

\* A two-pool round trains on the round's own rows and at most FIFO_SIZE +
\* REPLAY_SIZE others, whatever the replay buffer held.
PoolBounded ==
  tpc \in {"replay", "train", "stats", "publish"} /\ IsTwoPool =>
    /\ NewBatch \subseteq training_df
    /\ Cardinality(training_df \ NewBatch) <= FIFO_SIZE + REPLAY_SIZE

\* Every round trains on all that is stored: no pools, no continual learning.
LegacyMode == FIFO_SIZE = 0 /\ REPLAY_SIZE = 0 /\ ONLINE_TRAIN_FROM_SCRATCH

\* With neither pools nor continual learning, a sample that reaches the store and
\* stays there is trained on by the round it was collected for or by the next:
\* none is passed over because it arrived while a round was running.
TrainedByNextRound ==
  LegacyMode => \A r \in ONLINE_DF : r.round + 1 < NUM_TRAINS => r \in trained

\* "Only train on the new batch ... No historical data"
\* (routing_agent_service.py:1508): a continual-learning round never repeats a
\* row that a round which finished has trained on.  The rows of a round that
\* failed are trained on again, also if it had learned from them before it failed.
NewDataOnly ==
  tpc \in {"replay", "train", "stats"} /\ IsCLNewOnly =>
    training_df \cap trained = {}

\* With a strategy that has a trainer: when enough samples are counted, a round
\* starts (or a restart forgets them), whatever became of the rounds before it.
RoundStarts ==
  HasTrainer /\ tpc = "idle" /\ ReadyForRound ~> tpc # "idle" \/ ~ReadyForRound

\* With a strategy that has a trainer, a round ends, and when it does the next one
\* is not kept from starting.
RoundEnds == HasTrainer /\ TRAINING_RIGHT_NOW ~> ~TRAINING_RIGHT_NOW
=============================================================================
