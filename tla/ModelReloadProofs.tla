-------------------------- MODULE ModelReloadProofs --------------------------
(***************************************************************************)
(* ModelReload for any number of requests, reload threads and rounds: at   *)
(* most one reload runs, and each publication leads to at most one.  The   *)
(* second needs a token: MODEL_UPDATED stands for one reload that may      *)
(* still start, until the /infer call that saw it has passed the place     *)
(* where it would start it.                                                *)
(*                                                                         *)
(* AnsweredByAnAgent needs that an agent, once made, is never gone, and    *)
(* that nothing torn leaves the file (AgentIsThere).  The rounds need to   *)
(* know, at each epoch, what an undisturbed round has added to the weights *)
(* it began with.                                                          *)
(***************************************************************************)
EXTENDS ModelReload, SequenceTheorems, TLAPS

Types ==
  /\ rpc \in [Reloaders -> {"none", "load", "swap", "locked", "finally"}]
  /\ started \in Nat /\ NUM_TRAINS \in Nat

\* The reload that MODEL_UPDATED may still start.
Token == IF MODEL_UPDATED /\ ipc \notin {"choose", "reset"} THEN 1 ELSE 0

\* Publications so far, with the one the service starts with.
Published == NUM_TRAINS + IF tpc = "count" THEN 2 ELSE 1

\* An effective update is still flagged when the reload is about to start.
EffectiveIsFlagged ==
  effective /\ ipc \in {"sync", "swap", "async"} => MODEL_UPDATED

TokensMatch == started + Token <= Published

IInv == Types /\ AtMostOneReload /\ EffectiveIsFlagged /\ TokensMatch

\* The initial state satisfies the invariant.
LEMMA InitIInv == Init => IInv
<1> SUFFICES ASSUME Init PROVE IInv
  OBVIOUS
<1>1. Types
  BY DEF Init, Types
<1>2. AtMostOneReload
  BY DEF Init, AtMostOneReload
<1>3. EffectiveIsFlagged /\ TokensMatch
  BY DEF Init, EffectiveIsFlagged, TokensMatch, Token, Published
<1> QED BY <1>1, <1>2, <1>3 DEF IInv

\* Every step but the start of a reload keeps the reload threads apart.
LEMMA StepKeepsReloadsApart ==
  ASSUME IInv, [Next]_vars PROVE AtMostOneReload'
<1> USE DEF IInv, Types, AtMostOneReload
<1>1. ASSUME NEW c \in Configs, InferStart(c) PROVE AtMostOneReload'
  BY <1>1 DEF InferStart, reload
<1>2. CASE InferSync
  BY <1>2 DEF InferSync, reload, flags
<1>3. CASE InferSwap
  BY <1>3 DEF InferSwap, reload
<1>4. CASE InferAsync
  BY <1>4 DEF InferAsync, CanReload
<1>5. CASE InferChoose
  BY <1>5 DEF InferChoose, reload, flags
<1>6. CASE InferReset
  BY <1>6 DEF InferReset, reload
<1>7. CASE InferRespond
  BY <1>7 DEF InferRespond, reload, flags
<1>8. ASSUME NEW r \in Reloaders, ReloadStep(r) PROVE AtMostOneReload'
  <2>1. CASE ReloadLoad(r)
    BY <2>1 DEF ReloadLoad, flags
  <2>2. CASE ReloadFail(r)
    BY <2>2 DEF ReloadFail
  <2>3. CASE ReloadLock(r)
    BY <2>3 DEF ReloadLock, flags
  <2>4. CASE ReloadSwap(r)
    BY <2>4 DEF ReloadSwap, flags
  <2>5. CASE ReloadEnd(r)
    BY <2>5 DEF ReloadEnd
  <2> QED BY <1>8, <2>1, <2>2, <2>3, <2>4, <2>5 DEF ReloadStep
<1>9. CASE TrainStep
  BY <1>9 DEF TrainStep, TrainInit, TrainLearn, TrainSave, TrainSaved,
              TrainFail, TrainPublish, TrainCount, reload, flags
<1>10. CASE UNCHANGED vars
  BY <1>10 DEF vars, reload, flags
<1> QED
  BY <1>1, <1>2, <1>3, <1>4, <1>5, <1>6, <1>7, <1>8, <1>9, <1>10
  DEF Next, InferStep

\* The types the counting needs.
LEMMA StepKeepsTypes ==
  ASSUME IInv, [Next]_vars PROVE Types'
<1> USE DEF IInv, Types
<1>1. ASSUME NEW c \in Configs, InferStart(c) PROVE Types'
  BY <1>1 DEF InferStart, reload, train
<1>2. CASE InferStep
  BY <1>2 DEF InferStep, InferSync, InferSwap, InferAsync, InferChoose,
              InferReset, InferRespond, reload, flags, train
<1>3. ASSUME NEW r \in Reloaders, ReloadStep(r) PROVE Types'
  BY <1>3 DEF ReloadStep, ReloadLoad, ReloadFail, ReloadLock, ReloadSwap,
              ReloadEnd, flags, infer, train
<1>4. CASE TrainStep
  BY <1>4 DEF TrainStep, TrainInit, TrainLearn, TrainSave, TrainSaved,
              TrainFail, TrainPublish, TrainCount, reload, flags, infer
<1>5. CASE UNCHANGED vars
  BY <1>5 DEF vars, reload, flags, infer, train
<1> QED BY <1>1, <1>2, <1>3, <1>4, <1>5 DEF Next

\* A step starts a reload only by using up the token, and only a publication
\* makes a new one.
LEMMA StepKeepsTokens ==
  ASSUME IInv, [Next]_vars PROVE EffectiveIsFlagged' /\ TokensMatch'
<1> USE DEF IInv, Types, EffectiveIsFlagged, TokensMatch, Token, Published
<1>1. ASSUME NEW c \in Configs, InferStart(c)
      PROVE EffectiveIsFlagged' /\ TokensMatch'
  BY <1>1 DEF InferStart, train
<1>2. CASE InferSync
  BY <1>2 DEF InferSync, flags, train
<1>3. CASE InferSwap
  BY <1>3 DEF InferSwap, train
<1>4. CASE InferAsync
  BY <1>4 DEF InferAsync, CanReload, train
<1>5. CASE InferChoose
  BY <1>5 DEF InferChoose, flags, train
<1>6. CASE InferReset
  BY <1>6 DEF InferReset, train
<1>7. CASE InferRespond
  BY <1>7 DEF InferRespond, flags, train
<1>8. ASSUME NEW r \in Reloaders, ReloadStep(r)
      PROVE EffectiveIsFlagged' /\ TokensMatch'
  BY <1>8 DEF ReloadStep, ReloadLoad, ReloadFail, ReloadLock, ReloadSwap,
              ReloadEnd, flags, infer, train
<1>9. CASE TrainInit \/ TrainLearn \/ TrainSave \/ TrainSaved \/ TrainFail
  BY <1>9 DEF TrainInit, TrainLearn, TrainSave, TrainSaved, TrainFail, flags,
              infer
<1>10. CASE TrainPublish
  BY <1>10 DEF TrainPublish, infer
<1>11. CASE TrainCount
  BY <1>11 DEF TrainCount, flags, infer
<1>12. CASE UNCHANGED vars
  BY <1>12 DEF vars, flags, infer, train
<1> QED
  BY <1>1, <1>2, <1>3, <1>4, <1>5, <1>6, <1>7, <1>8, <1>9, <1>10, <1>11, <1>12
  DEF Next, InferStep, TrainStep

\* The inductive invariant of the reload flags.
THEOREM IInvAlways == Safety => []IInv
<1>1. IInv /\ [Next]_vars => IInv'
  BY StepKeepsReloadsApart, StepKeepsTypes, StepKeepsTokens DEF IInv
<1> QED BY <1>1, InitIInv, PTL DEF Safety

\* _reload_in_progress keeps the reload threads apart, for any number of them,
\* although the finally clause clears it without the lock.
THEOREM AtMostOneReloadAlways == Safety => []AtMostOneReload
<1>1. IInv => AtMostOneReload
  BY DEF IInv
<1> QED BY <1>1, IInvAlways, PTL

\* Every publication leads to at most one reload, for any number of rounds,
\* although a failed reload clears _model_updated_consumed.
THEOREM OneReloadPerUpdateAlways == Safety => []OneReloadPerUpdate
<1>1. IInv => OneReloadPerUpdate
  BY DEF IInv, Types, TokensMatch, Token, Published, OneReloadPerUpdate
<1> QED BY <1>1, IInvAlways, PTL

-----------------------------------------------------------------------------
(* Types, and the agent that /infer and the trainer meet. *)

\* Once made, the agent is never gone, and what a thread is about to make of it,
\* answer with or save is a whole set of weights.
AgentIsThere ==
  /\ ipc \in {"async", "choose", "reset", "respond"} => agent # None
  /\ tpc \in {"learn", "save"} => agent # None
  /\ ipc = "swap" => loaded # None
  /\ \A r \in Reloaders : rpc[r] \in {"swap", "locked"} => rloaded[r] # None
  /\ ipc \in {"reset", "respond"} => served # None
  /\ tpc = "save" => saving # None

\* Torn is what only the file may be.
LEMMA WholeWeights ==
  /\ Random \in Weights /\ None \notin Weights /\ Torn \notin Weights /\ Torn # None
  /\ file \in Weights \cup {None, Torn} /\ file \notin {None, Torn} => file \in Weights
BY DEF Random, Weights, None, Torn

\* An epoch keeps weights weights.
LEMMA EpochOnWeights ==
  ASSUME NEW w \in Weights, NEW n \in Nat
  PROVE  /\ [w EXCEPT !.log = Append(@, n)] \in Weights
         /\ [w EXCEPT !.log = Append(@, n)].base = w.base
         /\ [w EXCEPT !.log = Append(@, n)].log = Append(w.log, n)
<1>1. Append(w.log, n) \in Seq(Nat)
  BY DEF Weights
<1> QED BY <1>1 DEF Weights

\* The flags are Boolean; the rest of the types is Values.
FlagTypes ==
  /\ MODEL_UPDATED \in BOOLEAN /\ consumed \in BOOLEAN /\ reloading \in BOOLEAN
  /\ effective \in BOOLEAN /\ disturbed \in BOOLEAN

Values ==
  /\ agent \in Weights \cup {None} /\ key \in Configs \cup {NoConfig}
  /\ file \in Weights \cup {None, Torn}
  /\ lock \in {"free", "infer"} \cup Reloaders
  /\ ipc \in {"idle", "sync", "swap", "async", "choose", "reset", "respond"}
  /\ config \in Configs \cup {NoConfig}
  /\ loaded \in Weights \cup {None} /\ served \in Weights \cup {None}
  /\ rpc \in [Reloaders -> {"none", "load", "swap", "locked", "finally"}]
  /\ rconfig \in [Reloaders -> Configs \cup {NoConfig}]
  /\ rloaded \in [Reloaders -> Weights \cup {None}]
  /\ tpc \in {"idle", "learn", "save", "publish", "count"}
  /\ epoch \in 0..Epochs /\ saving \in Weights \cup {None} /\ NUM_TRAINS \in Nat
  /\ started \in Nat /\ failed \in Nat /\ before \in Weights \cup {None, Torn}

LEMMA TypesAreBoth == TypeOK <=> FlagTypes /\ Values
BY DEF TypeOK, FlagTypes, Values

LEMMA StepKeepsFlags == FlagTypes /\ [Next]_vars => FlagTypes'
<1> USE DEF cache, infer, reload, train, flags, FlagTypes
<1> SUFFICES ASSUME FlagTypes, [Next]_vars PROVE FlagTypes'
  OBVIOUS
<1>1. ASSUME NEW c \in Configs, InferStart(c) PROVE FlagTypes'
  BY <1>1, Zenon DEF InferStart
<1>2. CASE InferSync
  BY <1>2, Zenon DEF InferSync
<1>3. CASE InferSwap
  BY <1>3, Zenon DEF InferSwap, SetAgent
<1>4. CASE InferAsync
  BY <1>4, Zenon DEF InferAsync
<1>5. CASE InferChoose
  BY <1>5, Zenon DEF InferChoose
<1>6. CASE InferReset
  BY <1>6, Zenon DEF InferReset
<1>7. CASE InferRespond
  BY <1>7, Zenon DEF InferRespond
<1>8. ASSUME NEW r \in Reloaders, ReloadStep(r) PROVE FlagTypes'
  BY <1>8, ZenonT(30) DEF ReloadStep, ReloadLoad, ReloadFail, ReloadLock, ReloadSwap,
                  ReloadEnd, SetAgent
<1>9. CASE TrainStep
  BY <1>9, ZenonT(30) DEF TrainStep, TrainInit, TrainLearn, TrainSave, TrainSaved,
                  TrainFail, TrainPublish, TrainCount
<1>10. CASE UNCHANGED vars
  BY <1>10, Zenon DEF vars
<1> QED
  BY <1>1, <1>2, <1>3, <1>4, <1>5, <1>6, <1>7, <1>8, <1>9, <1>10
  DEF Next, InferStep

\* The steps of /infer.
LEMMA InferTypes ==
  ASSUME Values, AgentIsThere, InferStep \/ \E c \in Configs : InferStart(c)
  PROVE  Values' /\ AgentIsThere'
<1> USE DEF cache, infer, reload, train, flags
<1>1. ASSUME NEW c \in Configs, InferStart(c) PROVE Values' /\ AgentIsThere'
  BY <1>1 DEF InferStart, NeedsSyncReload, Values, AgentIsThere
<1>2. CASE InferSync
  BY <1>2, WholeWeights
  DEF InferSync, NeedsSyncReload, InitialWeights, Values, AgentIsThere
<1>3. CASE InferSwap
  BY <1>3 DEF InferSwap, SetAgent, Values, AgentIsThere
<1>4. CASE InferAsync
  BY <1>4 DEF InferAsync, Values, AgentIsThere
<1>5. CASE InferChoose
  BY <1>5 DEF InferChoose, Values, AgentIsThere
<1>6. CASE InferReset
  BY <1>6 DEF InferReset, Values, AgentIsThere
<1>7. CASE InferRespond
  BY <1>7 DEF InferRespond, Values, AgentIsThere
<1> QED BY <1>1, <1>2, <1>3, <1>4, <1>5, <1>6, <1>7 DEF InferStep

\* The steps of a reload thread.
LEMMA ReloadTypes ==
  ASSUME Values, AgentIsThere, NEW r \in Reloaders, ReloadStep(r)
  PROVE  Values' /\ AgentIsThere'
<1> USE DEF cache, infer, reload, train, flags
<1>1. CASE ReloadLoad(r)
  BY <1>1, WholeWeights DEF ReloadLoad, Values, AgentIsThere
<1>2. CASE ReloadFail(r)
  BY <1>2 DEF ReloadFail, Values, AgentIsThere
<1>3. CASE ReloadLock(r)
  BY <1>3 DEF ReloadLock, Values, AgentIsThere
<1>4. CASE ReloadSwap(r)
  BY <1>4 DEF ReloadSwap, SetAgent, Values, AgentIsThere
<1>5. CASE ReloadEnd(r)
  BY <1>5 DEF ReloadEnd, Values, AgentIsThere
<1> QED BY <1>1, <1>2, <1>3, <1>4, <1>5 DEF ReloadStep

\* The steps of the training thread.
LEMMA TrainTypes ==
  ASSUME Values, AgentIsThere, TrainStep
  PROVE  Values' /\ AgentIsThere'
<1> USE DEF cache, infer, reload, train, flags
<1>1. CASE TrainInit
  <2>1. RoundAgent \in Weights /\ RoundAgent # None /\ 0 \in 0..Epochs
    BY WholeWeights, ReloadConstants DEF RoundAgent, Values
  <2> QED BY <1>1, <2>1 DEF TrainInit, Values, AgentIsThere
<1>2. CASE TrainLearn
  <2>1. agent \in Weights /\ NUM_TRAINS \in Nat
    BY <1>2 DEF TrainLearn, Values, AgentIsThere
  <2>2. agent' \in Weights /\ agent' # None
    BY <1>2, <2>1, EpochOnWeights, WholeWeights DEF TrainLearn
  <2>3. epoch' \in 0..Epochs
    BY <1>2, ReloadConstants DEF TrainLearn, Values
  <2> QED BY <1>2, <2>2, <2>3 DEF TrainLearn, Values, AgentIsThere
<1>3. CASE TrainSave
  BY <1>3 DEF TrainSave, Values, AgentIsThere
<1>4. CASE TrainSaved
  BY <1>4 DEF TrainSaved, Values, AgentIsThere
<1>5. CASE TrainFail
  <2>1. 0 \in 0..Epochs
    BY ReloadConstants
  <2> QED BY <1>5, <2>1 DEF TrainFail, Values, AgentIsThere
<1>6. CASE TrainPublish
  BY <1>6 DEF TrainPublish, Values, AgentIsThere
<1>7. CASE TrainCount
  <2>1. 0 \in 0..Epochs
    BY ReloadConstants
  <2> QED BY <1>7, <2>1 DEF TrainCount, Values, AgentIsThere
<1> QED BY <1>1, <1>2, <1>3, <1>4, <1>5, <1>6, <1>7 DEF TrainStep

LEMMA AgentIsThereAlways == Safety => [](TypeOK /\ AgentIsThere)
<1>1. Init => FlagTypes
  BY Zenon DEF Init, FlagTypes
<1>2. Init => Values /\ AgentIsThere
  <2>1. [base |-> "pretrained", log |-> <<>>] \in Weights /\ 0 \in 0..Epochs
    BY ReloadConstants DEF Weights
  <2> QED BY <2>1 DEF Init, Values, AgentIsThere
<1>3. Values /\ AgentIsThere /\ [Next]_vars => Values' /\ AgentIsThere'
  <2>1. CASE UNCHANGED vars
    BY <2>1 DEF vars, cache, infer, reload, train, flags, Values, AgentIsThere
  <2> QED BY <2>1, InferTypes, ReloadTypes, TrainTypes DEF Next
<1> QED BY <1>1, <1>2, <1>3, StepKeepsFlags, TypesAreBoth, PTL DEF Safety

\* The types of the reward predictor's state, the torn file included.
THEOREM TypeOKAlways == Safety => []TypeOK
<1> QED BY AgentIsThereAlways, PTL

\* For any number of reload threads and rounds, choose_action meets an agent, and
\* never the torn weights of a file that is being written, although it reads
\* _cached_agent without the lock (reward_predictor.py:897).
THEOREM AnsweredByAnAgentAlways == Safety => []AnsweredByAnAgent
<1>1. TypeOK /\ AgentIsThere => AnsweredByAnAgent
  BY WholeWeights DEF TypeOK, AgentIsThere, AnsweredByAnAgent
<1> QED BY <1>1, AgentIsThereAlways, PTL

-----------------------------------------------------------------------------
(* What a round saves. *)

\* A log of n rounds' epochs on top of what the round started with.
EpochsOf(e, n) == [i \in 1..e |-> n]

\* What the agent has to be after e epochs of the current round.
RoundSoFar(e) ==
  IF FromScratch THEN [Random EXCEPT !.log = EpochsOf(e, NUM_TRAINS)]
  ELSE [before EXCEPT !.log = @ \o EpochsOf(e, NUM_TRAINS)]

\* A round that nobody disturbs has learned its epochs so far and nothing else;
\* after the first round there is a file to continue from.
RoundIsWhole ==
  /\ NUM_TRAINS > 0 \/ tpc \in {"publish", "count"} => file # None
  /\ ~disturbed /\ before # Torn =>
       /\ tpc = "learn" => agent = RoundSoFar(epoch)
       /\ tpc = "save" => saving = RoundSoFar(Epochs)
       /\ tpc = "publish" => file = RoundSoFar(Epochs)
  /\ tpc \in {"learn", "save", "publish"} /\ ~FromScratch => before # None

\* One more epoch is one more entry of the log.
LEMMA EpochsGrow ==
  ASSUME NEW s \in Seq(Nat), NEW e \in Nat, NEW n \in Nat
  PROVE  /\ EpochsOf(e, n) \in Seq(Nat)
         /\ s \o EpochsOf(0, n) = s /\ EpochsOf(0, n) = <<>>
         /\ Append(s \o EpochsOf(e, n), n) = s \o EpochsOf(e + 1, n)
         /\ Append(EpochsOf(e, n), n) = EpochsOf(e + 1, n)
<1> DEFINE E(d) == EpochsOf(d, n)
<1>1. ASSUME NEW d \in Nat
      PROVE  E(d) \in Seq(Nat) /\ Len(E(d)) = d /\ \A i \in 1..d : E(d)[i] = n
  BY <1>1 DEF EpochsOf
<1>2. E(0) = <<>>
  BY DEF EpochsOf
<1>3. s \o E(0) = s
  BY <1>2, ConcatEmptySeq
<1>4. e + 1 \in Nat
  OBVIOUS
<1> HIDE DEF E
<1>5. Append(E(e), n) = E(e + 1)
  <2>1. /\ Append(E(e), n) \in Seq(Nat) /\ Len(Append(E(e), n)) = e + 1
        /\ \A i \in 1..(e + 1) : Append(E(e), n)[i] = n
    BY <1>1, AppendProperties
  <2> QED BY <1>1, <1>4, <2>1, SeqEqual
<1>6. Append(s \o E(e), n) = s \o E(e + 1)
  <2>1. s \o E(e) \in Seq(Nat) /\ <<n>> \in Seq(Nat) /\ E(e) \in Seq(Nat)
    BY <1>1, ConcatProperties
  <2>2. Append(s \o E(e), n) = (s \o E(e)) \o <<n>>
    BY <2>1, AppendIsConcat
  <2>3. (s \o E(e)) \o <<n>> = s \o (E(e) \o <<n>>)
    BY <2>1, ConcatAssociative, SMTT(30)
  <2>4. E(e) \o <<n>> = Append(E(e), n)
    BY <2>1, AppendIsConcat
  <2> QED BY <2>2, <2>3, <2>4, <1>5
<1> USE DEF E
<1> QED BY <1>1, <1>2, <1>3, <1>5, <1>6

\* Weights are equal when their parts are.
LEMMA LogOfWeights ==
  ASSUME NEW w \in Weights, NEW s \in Seq(Nat)
  PROVE  /\ [w EXCEPT !.log = s] \in Weights
         /\ [w EXCEPT !.log = s].base = w.base /\ [w EXCEPT !.log = s].log = s
         /\ \A v \in Weights : v.base = w.base /\ v.log = s => v = [w EXCEPT !.log = s]
         /\ w.log = s => w = [w EXCEPT !.log = s]
BY DEF Weights

\* The epochs of a round start from nothing, and grow one by one.
LEMMA RoundGrows ==
  ASSUME TypeOK, ~FromScratch => before \in Weights
  PROVE  /\ RoundSoFar(0) = IF FromScratch THEN Random ELSE before
         /\ \A e \in Nat : /\ RoundSoFar(e) \in Weights
                           /\ [RoundSoFar(e) EXCEPT !.log = Append(@, NUM_TRAINS)]
                                = RoundSoFar(e + 1)
<1> DEFINE w == IF FromScratch THEN Random ELSE before
           n == NUM_TRAINS
<1>1. w \in Weights /\ w.log \in Seq(Nat) /\ n \in Nat /\ (FromScratch => w.log = <<>>)
  BY WholeWeights DEF TypeOK, Weights, Random
<1>2. ASSUME NEW e \in Nat
      PROVE  RoundSoFar(e) = [w EXCEPT !.log = w.log \o EpochsOf(e, n)]
  <2>1. EpochsOf(e, n) \in Seq(Nat)
    BY <1>1, EpochsGrow
  <2>2. CASE FromScratch
    BY <1>1, <2>1, <2>2, ConcatEmptySeq DEF RoundSoFar
  <2>3. CASE ~FromScratch
    BY <1>1, <2>3 DEF RoundSoFar, Weights
  <2> QED BY <2>2, <2>3
<1> HIDE DEF w, n
<1>3. RoundSoFar(0) = w
  <2>1. w.log \o EpochsOf(0, n) = w.log
    BY <1>1, EpochsGrow
  <2>2. RoundSoFar(0) = [w EXCEPT !.log = w.log]
    BY <1>2, <2>1
  <2> QED BY <1>1, <2>2, LogOfWeights
<1>4. ASSUME NEW e \in Nat
      PROVE  /\ RoundSoFar(e) \in Weights
             /\ [RoundSoFar(e) EXCEPT !.log = Append(@, n)] = RoundSoFar(e + 1)
  <2> DEFINE s == w.log \o EpochsOf(e, n)
  <2>1. s \in Seq(Nat) /\ Append(s, n) = w.log \o EpochsOf(e + 1, n)
    BY <1>1, EpochsGrow, ConcatProperties
  <2>2. Append(s, n) \in Seq(Nat)
    BY <1>1, <2>1, AppendProperties
  <2>3. RoundSoFar(e) = [w EXCEPT !.log = s]
    BY <1>2
  <2>4. RoundSoFar(e + 1) = [w EXCEPT !.log = Append(s, n)]
    <3>1. e + 1 \in Nat
      OBVIOUS
    <3> QED BY <1>2, <2>1, <3>1
  <2> HIDE DEF s
  <2> DEFINE v == [w EXCEPT !.log = s]
  <2>5. v \in Weights /\ v.base = w.base /\ v.log = s
    BY <1>1, <2>1, LogOfWeights
  <2>6. [w EXCEPT !.log = Append(s, n)] \in Weights
        /\ [w EXCEPT !.log = Append(s, n)].base = w.base
        /\ [w EXCEPT !.log = Append(s, n)].log = Append(s, n)
    BY <1>1, <2>2, LogOfWeights
  <2> HIDE DEF v
  <2>7. [v EXCEPT !.log = Append(@, n)] = [w EXCEPT !.log = Append(s, n)]
    <3> DEFINE u == [v EXCEPT !.log = Append(@, n)]
    <3>1. u \in Weights /\ u.base = v.base /\ u.log = Append(v.log, n)
      BY <1>1, <2>5, EpochOnWeights
    <3> HIDE DEF u
    <3>2. u = [w EXCEPT !.log = Append(s, n)]
      <4>1. u \in Weights /\ u.base = w.base /\ u.log = Append(s, n)
        BY <2>5, <3>1
      <4>2. \A x \in Weights : x.base = w.base /\ x.log = Append(s, n)
                                => x = [w EXCEPT !.log = Append(s, n)]
        BY <1>1, <2>2, LogOfWeights
      <4> QED BY <4>1, <4>2
    <3> QED BY <3>2 DEF u
  <2> USE DEF v
  <2> QED BY <2>3, <2>4, <2>5, <2>7
<1> QED BY <1>3, <1>4 DEF w, n

\* Every step keeps the round whole, or is another thread's that disturbs it.
LEMMA RoundNext ==
  ASSUME TypeOK, TypeOK', AgentIsThere, RoundIsWhole, [Next]_vars
  PROVE  RoundIsWhole'
<1> USE DEF cache, infer, reload, train, flags
<1>1. ASSUME UNCHANGED <<agent, file, tpc, epoch, saving, NUM_TRAINS, before, disturbed>>
      PROVE  RoundIsWhole'
  BY <1>1 DEF RoundIsWhole, RoundSoFar, FromScratch
<1>2. ASSUME NEW w, NEW c, SetAgent(w, c),
             UNCHANGED <<file, tpc, epoch, saving, NUM_TRAINS, before>>
      PROVE  RoundIsWhole'
  BY <1>2 DEF SetAgent, RoundIsWhole, RoundSoFar, FromScratch, TypeOK
<1>3. ASSUME NEW c \in Configs, InferStart(c) PROVE RoundIsWhole'
  BY <1>1, <1>3 DEF InferStart
<1>4. CASE InferStep
  BY <1>1, <1>2, <1>4 DEF InferStep, InferSync, InferSwap, InferAsync, InferChoose,
              InferReset, InferRespond
<1>5. ASSUME NEW r \in Reloaders, ReloadStep(r) PROVE RoundIsWhole'
  BY <1>1, <1>2, <1>5 DEF ReloadStep, ReloadLoad, ReloadFail, ReloadLock, ReloadSwap,
              ReloadEnd
<1>6. CASE TrainInit
  <2>1. /\ tpc' = "learn" /\ agent' = RoundAgent /\ epoch' = 0 /\ before' = file
        /\ UNCHANGED <<file, NUM_TRAINS>> /\ FromScratch' = FromScratch
    BY <1>6 DEF TrainInit, FromScratch
  <2>2. ~FromScratch => file # None
    BY DEF FromScratch, RoundIsWhole, TypeOK
  <2>3. CASE before' # Torn
    <3>1. ~FromScratch => file \in Weights
      BY <2>1, <2>2, <2>3, WholeWeights DEF TypeOK
    <3>2. RoundSoFar(0)' = IF FromScratch THEN Random ELSE file
      <4>1. NUM_TRAINS \in Nat /\ <<>> \in Seq(Nat)
        BY DEF TypeOK
      <4>2. CASE FromScratch
        <5>1. RoundSoFar(0)' = [Random EXCEPT !.log = EpochsOf(0, NUM_TRAINS)]
          BY <2>1, <4>2 DEF RoundSoFar
        <5>2. EpochsOf(0, NUM_TRAINS) = <<>>
          BY <4>1, EpochsGrow
        <5> QED BY <4>2, <5>1, <5>2 DEF Random
      <4>3. CASE ~FromScratch
        <5>1. RoundSoFar(0)' = [file EXCEPT !.log = @ \o EpochsOf(0, NUM_TRAINS)]
          BY <2>1, <4>3 DEF RoundSoFar
        <5>2. file \in Weights /\ file.log \in Seq(Nat)
          BY <3>1, <4>3 DEF Weights
        <5>3. file.log \o EpochsOf(0, NUM_TRAINS) = file.log
          BY <4>1, <5>2, EpochsGrow
        <5> QED BY <4>3, <5>1, <5>2, <5>3 DEF Weights
      <4> QED BY <4>2, <4>3
    <3>3. agent' = IF FromScratch THEN Random ELSE file
      BY <2>1, <2>2, <2>3 DEF RoundAgent
    <3> QED BY <2>1, <2>2, <3>2, <3>3 DEF RoundIsWhole
  <2>4. CASE before' = Torn
    BY <2>1, <2>2, <2>4 DEF RoundIsWhole
  <2> QED BY <2>3, <2>4
<1>7. CASE TrainLearn
  <2>1. /\ tpc = "learn" /\ tpc' = "learn" /\ epoch' = epoch + 1
        /\ agent' = [agent EXCEPT !.log = Append(@, NUM_TRAINS)]
        /\ UNCHANGED <<file, saving, NUM_TRAINS, before, disturbed>>
        /\ FromScratch' = FromScratch
    BY <1>7 DEF TrainLearn, FromScratch
  <2>2. \A e : RoundSoFar(e)' = RoundSoFar(e)
    BY <2>1 DEF RoundSoFar
  <2>3. ASSUME ~disturbed, before # Torn PROVE agent' = RoundSoFar(epoch + 1)
    <3>1. ~FromScratch => before \in Weights
      BY <2>1, <2>3 DEF RoundIsWhole, TypeOK
    <3>2. agent = RoundSoFar(epoch) /\ epoch \in Nat
      BY <2>1, <2>3 DEF RoundIsWhole, TypeOK
    <3> QED BY <2>1, <3>1, <3>2, RoundGrows
  <2> QED BY <2>1, <2>2, <2>3 DEF RoundIsWhole
<1>8. CASE TrainSave
  BY <1>8, WholeWeights DEF TrainSave, RoundIsWhole, RoundSoFar, FromScratch
<1>9. CASE TrainSaved
  BY <1>9 DEF TrainSaved, RoundIsWhole, RoundSoFar, FromScratch, AgentIsThere
<1>10. CASE TrainFail
  BY <1>10 DEF TrainFail, RoundIsWhole
<1>11. CASE TrainPublish
  BY <1>11 DEF TrainPublish, RoundIsWhole
<1>12. CASE TrainCount
  BY <1>12 DEF TrainCount, RoundIsWhole
<1>13. CASE UNCHANGED vars
  BY <1>1, <1>13 DEF vars
<1> QED BY <1>3, <1>4, <1>5, <1>6, <1>7, <1>8, <1>9, <1>10, <1>11, <1>12, <1>13
        DEF Next, TrainStep

\* For any number of epochs, rounds and requests: a round during which no reload
\* or /infer call set the agent saves every one of its epochs once, on top of
\* random weights or of the file it continues.
THEOREM UndisturbedRoundIsWholeAlways == Safety => []UndisturbedRoundIsWhole
<1>1. Init => RoundIsWhole
  BY DEF Init, RoundIsWhole
<1>2. (TypeOK /\ AgentIsThere) /\ (TypeOK /\ AgentIsThere)' /\ RoundIsWhole /\ [Next]_vars
        => RoundIsWhole'
  BY RoundNext
<1>3. RoundIsWhole => UndisturbedRoundIsWhole
  BY DEF RoundIsWhole, UndisturbedRoundIsWhole, WholeRound, RoundSoFar, EpochsOf
<1> QED BY <1>1, <1>2, <1>3, AgentIsThereAlways, PTL DEF Safety
==============================================================================
