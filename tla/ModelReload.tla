---------------------------- MODULE ModelReload -----------------------------
(***************************************************************************)
(* The reward predictor that /infer uses and the trainer trains            *)
(* (reward_predictor.py): one global _cached_agent, shared by              *)
(*   - the /infer handler (one at a time, Flask threaded=False), which     *)
(*     creates it, and on MODEL_UPDATED starts a reload thread;            *)
(*   - the reload threads, which read reward_net.pth and swap the agent;   *)
(*   - the training thread, which takes no lock: it replaces or reloads    *)
(*     the agent, trains it in place, saves it and sets MODEL_UPDATED.     *)
(* The strategies with a trainer are modelled (no preload_agent_from_      *)
(* metadata).  A config key is the dimensions of a request; only the       *)
(* number of pods varies, and weights fit any.                             *)
(*                                                                         *)
(* Weights are what they started from and the rounds of the epochs they    *)
(* have learned since, in order.                                           *)
(***************************************************************************)
EXTENDS Integers, Sequences, FiniteSets

CONSTANTS
  Configs,                    \* config keys of requests
  Reloaders,                  \* reload threads
  ONLINE_TRAIN_FROM_SCRATCH,
  SkipWeights,                \* LOAD_PRETRAINED_MODEL=0 or RETRAIN_AT_STARTUP=1
  Pretrained,                 \* reward_net.pth exists at startup
  Epochs,                     \* training_epochs
  MaxRounds,                  \* bound: completed training rounds
  MaxFailedRounds             \* bound: rounds that fail

ASSUME ReloadConstants ==
  /\ ONLINE_TRAIN_FROM_SCRATCH \in BOOLEAN /\ SkipWeights \in BOOLEAN
  /\ Pretrained \in BOOLEAN /\ Epochs \in Nat
  /\ MaxRounds \in Nat /\ MaxFailedRounds \in Nat
  /\ "free" \notin Reloaders /\ "infer" \notin Reloaders

VARIABLES
  agent, key,      \* _cached_agent, _cached_config_key
  file,            \* reward_net.pth
  MODEL_UPDATED,
  consumed,        \* _model_updated_consumed
  reloading,       \* _reload_in_progress
  lock,            \* the holder of _agent_lock
  ipc, config, effective, loaded, served,  \* infer_from_tensor and its locals
  rpc, rconfig, rloaded,                   \* the reload threads
  tpc, epoch, saving, NUM_TRAINS,          \* the training thread
  started,         \* history: reloads started
  failed,          \* history: rounds that failed
  before,          \* history: reward_net.pth when the round began
  disturbed        \* history: another thread set the agent during the round

infer == <<ipc, config, effective, loaded, served>>
reload == <<rpc, rconfig, rloaded>>
train == <<tpc, epoch, saving, NUM_TRAINS, before, failed>>
cache == <<agent, key, disturbed>>
flags == <<MODEL_UPDATED, consumed, reloading>>
vars == <<cache, file, flags, lock, infer, reload, train, started>>

Weights == [base : {"random", "pretrained"}, log : Seq(Nat)]

\* No agent, or no file; and a file that torch.save has begun to write.
None == [base |-> "none", log |-> <<>>]
Torn == [base |-> "torn", log |-> <<>>]
Random == [base |-> "random", log |-> <<>>]

NoConfig == "none"

TypeOK ==
  /\ agent \in Weights \cup {None} /\ key \in Configs \cup {NoConfig}
  /\ file \in Weights \cup {None, Torn}
  /\ MODEL_UPDATED \in BOOLEAN /\ consumed \in BOOLEAN /\ reloading \in BOOLEAN
  /\ lock \in {"free", "infer"} \cup Reloaders
  /\ ipc \in {"idle", "sync", "swap", "async", "choose", "reset", "respond"}
  /\ config \in Configs \cup {NoConfig} /\ effective \in BOOLEAN
  /\ loaded \in Weights \cup {None} /\ served \in Weights \cup {None}
  /\ rpc \in [Reloaders -> {"none", "load", "swap", "locked", "finally"}]
  /\ rconfig \in [Reloaders -> Configs \cup {NoConfig}]
  /\ rloaded \in [Reloaders -> Weights \cup {None}]
  /\ tpc \in {"idle", "learn", "save", "publish", "count"}
  /\ epoch \in 0..Epochs /\ saving \in Weights \cup {None} /\ NUM_TRAINS \in Nat
  /\ started \in Nat /\ failed \in Nat /\ before \in Weights \cup {None, Torn}
  /\ disturbed \in BOOLEAN

Init ==
  /\ agent = None /\ key = NoConfig
  /\ file = IF Pretrained THEN [base |-> "pretrained", log |-> <<>>] ELSE None
  /\ MODEL_UPDATED = TRUE /\ consumed = FALSE /\ reloading = FALSE
  /\ lock = "free"
  /\ ipc = "idle" /\ config = NoConfig /\ effective = FALSE
  /\ loaded = None /\ served = None
  /\ rpc = [r \in Reloaders |-> "none"]
  /\ rconfig = [r \in Reloaders |-> NoConfig]
  /\ rloaded = [r \in Reloaders |-> None]
  /\ tpc = "idle" /\ epoch = 0 /\ saving = None /\ NUM_TRAINS = 0
  /\ started = 0 /\ failed = 0 /\ before = None /\ disturbed = FALSE

-----------------------------------------------------------------------------
\* Mutant of NeedsSyncReload: only the shape is tested.
NeedsSyncReloadShape(c) == key # NoConfig /\ key # c

\* There is no agent yet, or it was made for another number of pods.
NeedsSyncReload(c) == agent = None \/ key # c

\* infer_from_tensor is called with MODEL_UPDATED; consumed is cleared by a call
\* without it.
InferStart(c) ==
  /\ ipc = "idle"
  /\ config' = c
  /\ effective' = (MODEL_UPDATED /\ ~consumed)
  /\ consumed' = (MODEL_UPDATED /\ consumed)
  /\ ipc' = IF NeedsSyncReload(c) THEN "sync" ELSE "async"
  /\ UNCHANGED <<cache, file, MODEL_UPDATED, reloading, lock, loaded, served,
                 reload, train, started>>

\* What a new agent starts with in the sync reload.
InitialWeights == IF SkipWeights \/ file = None THEN Random ELSE file

\* Mutant of InferSync: a file that is being written is not noticed.
InferSyncLoadsTorn ==
  /\ ipc = "sync" /\ lock = "free" /\ NeedsSyncReload(config)
  /\ ipc' = "swap" /\ lock' = "infer" /\ loaded' = InitialWeights
  /\ UNCHANGED <<cache, file, flags, config, effective, served, reload, train,
                 started>>

\* The sync reload takes the lock and tests again.  A file that is being written
\* cannot be loaded: /infer answers 500.
InferSync ==
  /\ ipc = "sync" /\ lock = "free"
  /\ \/ /\ ~NeedsSyncReload(config)
        /\ ipc' = "async" /\ UNCHANGED <<lock, loaded>>
     \/ /\ NeedsSyncReload(config) /\ InitialWeights = Torn
        /\ ipc' = "idle" /\ UNCHANGED <<lock, loaded>>
     \/ /\ NeedsSyncReload(config) /\ InitialWeights # Torn
        /\ ipc' = "swap" /\ lock' = "infer" /\ loaded' = InitialWeights
  /\ UNCHANGED <<cache, file, flags, config, effective, served, reload,
                 train, started>>

\* A thread other than the trainer sets the agent.
SetAgent(w, c) ==
  /\ agent' = w /\ key' = c
  /\ disturbed' = (disturbed \/ tpc \in {"learn", "save"})

InferSwap ==
  /\ ipc = "swap"
  /\ SetAgent(loaded, config)
  /\ consumed' = (consumed \/ effective)
  /\ lock' = "free" /\ loaded' = None /\ ipc' = "async"
  /\ UNCHANGED <<file, MODEL_UPDATED, reloading, config, effective, served,
                 reload, train, started>>

\* Mutant of CanReload: a reload that is in progress does not count.
CanReloadAlways == effective /\ lock = "free"

\* The lock is tried, not waited for, and one reload runs at a time.
CanReload == effective /\ lock = "free" /\ ~reloading

\* The async reload of an updated model.
InferAsync ==
  /\ ipc = "async" /\ ipc' = "choose"
  /\ \/ /\ CanReload
        /\ reloading' = TRUE /\ consumed' = TRUE /\ started' = started + 1
        /\ \E r \in Reloaders :
             /\ rpc[r] = "none"
             /\ rpc' = [rpc EXCEPT ![r] = "load"]
             /\ rconfig' = [rconfig EXCEPT ![r] = config]
     \/ /\ ~CanReload
        /\ UNCHANGED <<reloading, consumed, started, rpc, rconfig>>
  /\ UNCHANGED <<cache, file, MODEL_UPDATED, lock, config, effective, loaded,
                 served, rloaded, train>>

\* choose_action, on whatever agent is there by now.
InferChoose ==
  /\ ipc = "choose" /\ ipc' = "reset" /\ served' = agent
  /\ UNCHANGED <<cache, file, flags, lock, config, effective, loaded,
                 reload, train, started>>

\* Mutant of InferReset: MODEL_UPDATED stays set.
InferResetNothing ==
  /\ ipc = "reset" /\ ipc' = "respond"
  /\ UNCHANGED <<cache, file, flags, lock, config, effective, loaded, served,
                 reload, train, started>>

\* handle_infer resets MODEL_UPDATED, whatever value it had passed.
InferReset ==
  /\ ipc = "reset" /\ ipc' = "respond" /\ MODEL_UPDATED' = FALSE
  /\ UNCHANGED <<cache, file, consumed, reloading, lock, config, effective,
                 loaded, served, reload, train, started>>

\* handle_infer answers.
InferRespond ==
  /\ ipc = "respond" /\ ipc' = "idle"
  /\ served' = None /\ config' = NoConfig /\ effective' = FALSE
  /\ UNCHANGED <<cache, file, flags, lock, loaded, reload, train, started>>

-----------------------------------------------------------------------------
\* _async_reload reads the file, if there is one, whatever SkipWeights says.
ReloadLoad(r) ==
  /\ rpc[r] = "load" /\ file # Torn
  /\ rpc' = [rpc EXCEPT ![r] = "swap"]
  /\ rloaded' = [rloaded EXCEPT ![r] = IF file = None THEN Random ELSE file]
  /\ UNCHANGED <<cache, file, flags, lock, infer, rconfig, train, started>>

\* An exception, as for a file that is being written: consumed is cleared.
ReloadFail(r) ==
  /\ rpc[r] = "load"
  /\ rpc' = [rpc EXCEPT ![r] = "finally"] /\ consumed' = FALSE
  /\ UNCHANGED <<cache, file, MODEL_UPDATED, reloading, lock, infer, rconfig,
                 rloaded, train, started>>

ReloadLock(r) ==
  /\ rpc[r] = "swap" /\ lock = "free"
  /\ rpc' = [rpc EXCEPT ![r] = "locked"] /\ lock' = r
  /\ UNCHANGED <<cache, file, flags, infer, rconfig, rloaded, train, started>>

\* Mutant of ReloadSwap: the lock is kept.
ReloadSwapKeepsLock(r) ==
  /\ rpc[r] = "locked"
  /\ SetAgent(rloaded[r], rconfig[r])
  /\ rpc' = [rpc EXCEPT ![r] = "finally"]
  /\ UNCHANGED <<file, flags, lock, infer, rconfig, rloaded, train, started>>

ReloadSwap(r) ==
  /\ rpc[r] = "locked"
  /\ SetAgent(rloaded[r], rconfig[r])
  /\ rpc' = [rpc EXCEPT ![r] = "finally"] /\ lock' = "free"
  /\ UNCHANGED <<file, flags, infer, rconfig, rloaded, train, started>>

\* Mutant of ReloadEnd: the flag is only cleared if the file was loaded.
ReloadEndIfLoaded(r) ==
  /\ rpc[r] = "finally"
  /\ rpc' = [rpc EXCEPT ![r] = "none"]
  /\ reloading' = (reloading /\ rloaded[r] = None)
  /\ rconfig' = [rconfig EXCEPT ![r] = NoConfig]
  /\ rloaded' = [rloaded EXCEPT ![r] = None]
  /\ UNCHANGED <<cache, file, MODEL_UPDATED, consumed, lock, infer, train,
                 started>>

\* The finally clause, and the thread ends.
ReloadEnd(r) ==
  /\ rpc[r] = "finally"
  /\ rpc' = [rpc EXCEPT ![r] = "none"] /\ reloading' = FALSE
  /\ rconfig' = [rconfig EXCEPT ![r] = NoConfig]
  /\ rloaded' = [rloaded EXCEPT ![r] = None]
  /\ UNCHANGED <<cache, file, MODEL_UPDATED, consumed, lock, infer, train,
                 started>>

-----------------------------------------------------------------------------
\* Round 0 starts from scratch in continual learning too.
FromScratch == ONLINE_TRAIN_FROM_SCRATCH \/ NUM_TRAINS = 0

\* Mutant of RoundAgent: the agent that is there is trained on.
RoundAgentKept == IF agent = None THEN Random ELSE agent

\* The agent a round begins with; a file that does not load is ignored.
RoundAgent ==
  IF FromScratch THEN Random
  ELSE IF file \notin {None, Torn} THEN file
  ELSE IF agent = None THEN Random ELSE agent

\* reward_predictor.train, up to its epochs.
TrainInit ==
  /\ tpc = "idle" /\ NUM_TRAINS < MaxRounds
  /\ agent' = RoundAgent /\ epoch' = 0
  /\ before' = file /\ disturbed' = FALSE
  /\ tpc' = "learn"
  /\ UNCHANGED <<key, file, flags, lock, infer, reload, saving, NUM_TRAINS,
                 failed, started>>

\* An epoch, in place on the agent of the moment.
TrainLearn ==
  /\ tpc = "learn" /\ epoch < Epochs
  /\ agent' = [agent EXCEPT !.log = Append(@, NUM_TRAINS)]
  /\ epoch' = epoch + 1
  /\ UNCHANGED <<key, disturbed, file, flags, lock, infer, reload, tpc, saving,
                 NUM_TRAINS, before, failed, started>>

\* save: torch.save truncates reward_net.pth and writes it.
TrainSave ==
  /\ tpc = "learn" /\ epoch = Epochs
  /\ saving' = agent /\ file' = Torn /\ tpc' = "save"
  /\ UNCHANGED <<cache, flags, lock, infer, reload, epoch, NUM_TRAINS, before,
                 failed, started>>

TrainSaved ==
  /\ tpc = "save"
  /\ file' = saving /\ saving' = None /\ tpc' = "publish"
  /\ UNCHANGED <<cache, flags, lock, infer, reload, epoch, NUM_TRAINS, before,
                 failed, started>>

\* An exception in train, or after it in the try block when reward_net.pth is
\* already complete: the round is given up.
TrainFail ==
  /\ tpc \in {"learn", "save", "publish"} /\ failed < MaxFailedRounds
  /\ failed' = failed + 1
  /\ tpc' = "idle" /\ saving' = None /\ epoch' = 0
  /\ before' = None /\ disturbed' = FALSE
  /\ UNCHANGED <<agent, key, file, flags, lock, infer, reload, NUM_TRAINS,
                 started>>

\* The end of online_train_routine: the flag, then the count.
TrainPublish ==
  /\ tpc = "publish" /\ MODEL_UPDATED' = TRUE /\ tpc' = "count"
  /\ UNCHANGED <<cache, file, consumed, reloading, lock, infer, reload, epoch,
                 saving, NUM_TRAINS, before, failed, started>>

TrainCount ==
  /\ tpc = "count" /\ NUM_TRAINS' = NUM_TRAINS + 1 /\ tpc' = "idle"
  /\ epoch' = 0 /\ before' = None /\ disturbed' = FALSE
  /\ UNCHANGED <<agent, key, file, flags, lock, infer, reload, saving, failed,
                 started>>

InferStep ==
  InferSync \/ InferSwap \/ InferAsync \/ InferChoose \/ InferReset \/ InferRespond

ReloadStep(r) ==
  \/ ReloadLoad(r) \/ ReloadFail(r) \/ ReloadLock(r) \/ ReloadSwap(r)
  \/ ReloadEnd(r)

TrainStep ==
  \/ TrainInit \/ TrainLearn \/ TrainSave \/ TrainSaved \/ TrainFail
  \/ TrainPublish \/ TrainCount

Next ==
  \/ \E c \in Configs : InferStart(c)
  \/ InferStep \/ TrainStep
  \/ \E r \in Reloaders : ReloadStep(r)

\* Every thread that has something to do runs, and a reload that waits for a lock
\* which requests hold only for moments gets it.  No request and no round has to
\* come.
Fairness ==
  /\ WF_vars(InferStep)
  /\ \A r \in Reloaders : WF_vars(ReloadStep(r)) /\ SF_vars(ReloadLock(r))

Safety == Init /\ [][Next]_vars

Spec == Safety /\ Fairness

-----------------------------------------------------------------------------
\* _reload_in_progress keeps reloads apart: at most one thread is between its
\* start and its finally clause, and the flag is set while one is.
AtMostOneReload ==
  \A r \in Reloaders :
    rpc[r] # "none" => reloading /\ \A s \in Reloaders \ {r} : rpc[s] = "none"

\* "Consume model_updated once per True->False cycle to avoid repeated reloads"
\* (reward_predictor.py:753): every publication, and the startup, is good for at
\* most one reload, however requests, failed reloads and rounds interleave.
OneReloadPerUpdate ==
  started <= NUM_TRAINS + IF tpc = "count" THEN 2 ELSE 1

\* What a round that nobody disturbs has to save.
WholeRound ==
  LET epochs == [i \in 1..Epochs |-> NUM_TRAINS]
  IN  IF FromScratch THEN [Random EXCEPT !.log = epochs]
      ELSE [before EXCEPT !.log = @ \o epochs]

\* A round that no reload disturbs saves all its epochs, on top of random weights
\* or of the file it continues, although requests use the agent all the while.
UndisturbedRoundIsWhole ==
  tpc = "publish" /\ ~disturbed /\ before # Torn => file = WholeRound

\* choose_action reads _cached_agent outside the lock (reward_predictor.py:897),
\* after reloads and rounds may have replaced it: it always meets an agent, and
\* one whose weights were read from a complete file.
AnsweredByAnAgent ==
  ipc \in {"reset", "respond"} => served \notin {None, Torn}

\* An /infer call ends: _agent_lock is always given back.
InferEnds == ipc # "idle" ~> ipc = "idle"

\* A reload ends, and the next update can be loaded.
ReloadEnds == reloading ~> ~reloading
=============================================================================
