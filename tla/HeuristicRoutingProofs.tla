----------------------- MODULE HeuristicRoutingProofs -----------------------
(***************************************************************************)
(* Theorems about HeuristicRouting, for any finite set of requests and any *)
(* pods, bounds and speeds.  Whatever the policy, a step of a request is   *)
(* one of the few kinds of StepOf, and the proofs go by kind.              *)
(*                                                                         *)
(* ReservationsExact and QueuesFollowSpeed are inductive with the types    *)
(* and the places of requests, the first as an equation of sums over the   *)
(* requests (Exact).  GapBounded is far from it (GapInv):                  *)
(*   - updates of a pod's count are numbered, so that it can be said of a  *)
(*     count that nothing newer is published.  Such a count falls short of *)
(*     the truth by at most the additions that are newer (Counting);       *)
(*   - what a request has read never exceeds what was sent to the pod, so  *)
(*     it does not choose a pod that it believes to be over another one    *)
(*     by more than Threshold (Seen);                                      *)
(*   - the bound must hold with the requests that are still on their way   *)
(*     to a pod counted in, and for every level above the other pod at     *)
(*     once, since each of them goes by a level of its own (Gaps).         *)
(***************************************************************************)
EXTENDS HeuristicRouting, SetSums

\* The phases of a request that has a pod.
Placed == {"chosen", "add", "running", "done", "ended"}

Phases == Placed \cup Reading \cup {"idle", "infer"}

Takings == [tokens : Nat, pod : Pods \cup {NoPod}]

Types ==
  /\ pc \in [Requests -> Phases] /\ target \in [Requests -> Pods \cup {NoPod}]
  /\ seen = [r \in Requests |-> seen[r]]
  /\ running \in [Pods -> Int] /\ ended \in [Pods -> Nat]
  /\ published \in [Pods -> [value : Int, update : Int, newest : Int]]
  /\ owed \in [Requests -> [value : Int, update : Int]]
  /\ misled \in [Requests -> BOOLEAN]
  /\ podNewPrefillTokens \in [Pods -> Int]
  /\ requestNewPrefillTokens \in [Requests -> Nat]
  /\ mooncakeVirtualQueue \in [Pods -> Nat]
  /\ mooncakeRequestPod \in [Requests -> Pods \cup {NoPod}]
  /\ taken \in [Requests -> Takings]
  /\ unbalanced \in [Pods -> Nat] /\ reserved \in [Pods -> Nat]

\* A request has a pod from the choice on, and reservations only then; what is
\* between the two locks is not in the map any more.
Places ==
  \A r \in Requests :
    /\ pc[r] \in Placed => target[r] \in Pods
    /\ pc[r] \notin Placed => /\ target[r] = NoPod /\ requestNewPrefillTokens[r] = 0
                              /\ mooncakeRequestPod[r] = NoPod
                              /\ taken[r] = NothingTaken
    /\ taken[r].pod # NoPod => mooncakeRequestPod[r] = NoPod

IInv == Types /\ Places

-----------------------------------------------------------------------------
\* The kinds of step.  A request that has no pod yet looks around, or goes to a pod;
\* blindly, unless it read the counts and was not misled.
Look(r) ==
  /\ pc[r] \notin Placed /\ pc' = [pc EXCEPT ![r] = pc'[r]] /\ pc'[r] \in Phases \ Placed
  /\ seen' = [seen EXCEPT ![r] = seen'[r]] /\ misled' = [misled EXCEPT ![r] = misled'[r]]
  /\ misled'[r] \in BOOLEAN
  /\ UNCHANGED <<target, counting, lmetric, mooncake, taken, ended, unbalanced>>

Place(r, p) ==
  /\ pc[r] \notin Placed /\ Choose(r, p)
  /\ Blindly(p) \/ UNCHANGED unbalanced
  /\ UNCHANGED <<misled, counting, taken, ended>>

GoTo(r, p) == Place(r, p) /\ UNCHANGED <<lmetric, mooncake>>

LMetricPlace(r, p, n) ==
  /\ Place(r, p) /\ UNCHANGED mooncake
  /\ podNewPrefillTokens' = [podNewPrefillTokens EXCEPT ![p] = @ + n]
  /\ requestNewPrefillTokens' = [requestNewPrefillTokens EXCEPT ![r] = n]

MooncakePlace(r, p) ==
  /\ Place(r, p) /\ UNCHANGED lmetric
  /\ mooncakeVirtualQueue' = [mooncakeVirtualQueue EXCEPT ![p] = @ + 1]
  /\ mooncakeRequestPod' = [mooncakeRequestPod EXCEPT ![r] = p]
  /\ reserved' = [reserved EXCEPT ![p] = @ + 1]

StepOf(r) ==
  \/ Look(r)
  \/ \E p \in Pods : GoTo(r, p)
  \/ \E p \in Pods, n \in Nat : LMetricPlace(r, p, n)
  \/ \E p \in Pods, batch \in Batches : p \in MooncakeBest(batch) /\ MooncakePlace(r, p)
  \/ AddRequestCount(r)
  \/ Publish(r)
  \/ TakeEntry(r)
  \/ Subtract(r)
  \/ DoneRequest(r)

LEMMA NewTokensNat ==
  ASSUME NEW n \in Nat, NEW h \in 0..100
  PROVE  NewTokens(n, h) \in Nat
<1>1. 100 - h \in Nat
    OBVIOUS
<1>2. n * (100 - h) \in Nat
    BY <1>1
<1> QED BY <1>2 DEF NewTokens

\* Every step is of one of these kinds.
LEMMA KindOfStep ==
  ASSUME Types, NEW r \in Requests, RequestStep(r)
  PROVE  StepOf(r)
<1>0. /\ "idle" \notin Placed /\ "infer" \notin Placed /\ Reading \cap Placed = {}
      /\ Reading \subseteq Phases /\ "infer" \in Phases
    BY DEF Placed, Reading, Phases
<1>1. CASE Dispatch(r)
  <2>1. Look(r)
      BY <1>1, <1>0 DEF Dispatch, Arrive, Goto, Look, Types, Reading
  <2> QED BY <2>1 DEF StepOf
<1>2. CASE RouteThreshold(r)
  <2>1. pc[r] \notin Placed
      BY <1>0, <1>2 DEF RouteThreshold, Arrive
  <2>2. PICK hit \in [Pods -> HitRatios] :
          \/ \E p \in OverHitThreshold(hit) : Choose(r, p) /\ Blindly(p)
          \/ Goto(r, "least") /\ UNCHANGED <<target, unbalanced>>
      BY <1>2 DEF RouteThreshold
  <2>3. ASSUME NEW p \in OverHitThreshold(hit), Choose(r, p), Blindly(p)
        PROVE  StepOf(r)
    <3>1. p \in Pods
        BY DEF OverHitThreshold
    <3>2. GoTo(r, p)
        BY <1>2, <2>1, <2>3 DEF RouteThreshold, GoTo, Place
    <3> QED BY <3>1, <3>2 DEF StepOf
  <2>4. CASE Goto(r, "least") /\ UNCHANGED <<target, unbalanced>>
    <3>1. Look(r)
        BY <1>0, <1>2, <2>1, <2>4 DEF RouteThreshold, Goto, Look, Types, Reading
    <3> QED BY <3>1 DEF StepOf
  <2> QED BY <2>2, <2>3, <2>4
<1>3. ASSUME NEW p \in Pods, RouteRandom(r, p)
      PROVE  StepOf(r)
  <2>1. GoTo(r, p)
      BY <1>0, <1>3 DEF RouteRandom, Arrive, GoTo, Place
  <2> QED BY <2>1 DEF StepOf
<1>4. CASE LMetricScorePods(r)
  <2>1. PICK n \in PromptSizes, hit \in [Pods -> HitRatios], batch \in Batches :
          \E p \in LMetricBest(n, hit, batch) :
            /\ podNewPrefillTokens' =
                 [podNewPrefillTokens EXCEPT ![p] = @ + NewTokens(n, hit[p])]
            /\ requestNewPrefillTokens' =
                 [requestNewPrefillTokens EXCEPT ![r] = NewTokens(n, hit[p])]
            /\ Choose(r, p) /\ Blindly(p)
      BY <1>4 DEF LMetricScorePods
  <2>2. PICK p \in LMetricBest(n, hit, batch) :
            /\ podNewPrefillTokens' =
                 [podNewPrefillTokens EXCEPT ![p] = @ + NewTokens(n, hit[p])]
            /\ requestNewPrefillTokens' =
                 [requestNewPrefillTokens EXCEPT ![r] = NewTokens(n, hit[p])]
            /\ Choose(r, p) /\ Blindly(p)
      BY <2>1
  <2>3. p \in Pods /\ n \in Nat /\ hit[p] \in 0..100
      BY HeuristicRoutingConstants DEF LMetricBest
  <2>4. NewTokens(n, hit[p]) \in Nat
      BY <2>3, NewTokensNat
  <2>5. pc[r] \notin Placed /\ UNCHANGED <<misled, counting, mooncake, taken, ended>>
      BY <1>0, <1>4 DEF LMetricScorePods, Arrive
  <2>6. LMetricPlace(r, p, NewTokens(n, hit[p]))
      BY <2>2, <2>5 DEF LMetricPlace, Place
  <2> QED BY <2>3, <2>4, <2>6 DEF StepOf
<1>5. CASE MooncakeScorePods(r)
  <2>0. PICK batch \in Batches : \E p \in MooncakeBest(batch) :
          /\ mooncakeVirtualQueue' = [mooncakeVirtualQueue EXCEPT ![p] = @ + 1]
          /\ mooncakeRequestPod' = [mooncakeRequestPod EXCEPT ![r] = p]
          /\ reserved' = [reserved EXCEPT ![p] = @ + 1]
          /\ Choose(r, p) /\ Blindly(p)
      BY <1>5 DEF MooncakeScorePods
  <2>1. PICK p \in MooncakeBest(batch) :
          /\ mooncakeVirtualQueue' = [mooncakeVirtualQueue EXCEPT ![p] = @ + 1]
          /\ mooncakeRequestPod' = [mooncakeRequestPod EXCEPT ![r] = p]
          /\ reserved' = [reserved EXCEPT ![p] = @ + 1]
          /\ Choose(r, p) /\ Blindly(p)
      BY <2>0
  <2>2. p \in Pods
      BY DEF MooncakeBest
  <2>3. pc[r] \notin Placed /\ UNCHANGED <<misled, counting, lmetric, taken, ended>>
      BY <1>0, <1>5 DEF MooncakeScorePods, Arrive
  <2>4. MooncakePlace(r, p)
      BY <2>1, <2>3 DEF MooncakePlace, Place
  <2> QED BY <2>1, <2>2, <2>4 DEF StepOf
<1>6. ASSUME NEW p \in Pods, ReadCount(r, p)
      PROVE  StepOf(r)
  <2>1. /\ pc[r] \in Reading /\ pc' = pc
        /\ UNCHANGED <<target, counting, lmetric, mooncake, taken, ended, unbalanced>>
        /\ seen' = [seen EXCEPT ![r] = WithCount(seen[r], p, published[p].value)]
      BY <1>6 DEF ReadCount
  <2>2. misled' = [misled EXCEPT ![r] = misled'[r]] /\ misled'[r] \in BOOLEAN
      BY <1>6 DEF ReadCount, Types
  <2>3. seen' = [seen EXCEPT ![r] = seen'[r]]
      BY <2>1 DEF Types
  <2>4. pc' = [pc EXCEPT ![r] = pc'[r]] /\ pc'[r] \in Phases \ Placed /\ pc[r] \notin Placed
      BY <1>0, <2>1 DEF Types
  <2>5. Look(r)
      BY <2>1, <2>2, <2>3, <2>4 DEF Look
  <2> QED BY <2>5 DEF StepOf
<1>7. ASSUME NEW p \in Pods, ChooseLeast(r, p)
      PROVE  StepOf(r)
  <2>1. pc[r] \notin Placed
      BY <1>7 DEF ChooseLeast, AllRead, Placed
  <2>2. GoTo(r, p)
      BY <2>1, <1>7 DEF ChooseLeast, ByLoad, GoTo, Place
  <2> QED BY <2>2 DEF StepOf
<1>8. ASSUME NEW tokens \in BOOLEAN, OnLoadImbalance(r, tokens)
      PROVE  StepOf(r)
  <2>1. pc[r] \notin Placed /\ UNCHANGED <<misled, counting, lmetric, mooncake, taken, ended>>
      BY <1>8 DEF OnLoadImbalance, AllRead, Placed
  <2>2. \/ \E p \in Least(seen[r]) : Choose(r, p) /\ ByLoad(r, p)
        \/ \E l \in {"ratio", "least"} : Goto(r, l) /\ UNCHANGED <<target, unbalanced>>
      BY <1>8 DEF OnLoadImbalance
  <2>3. ASSUME NEW p \in Least(seen[r]), Choose(r, p), ByLoad(r, p)
        PROVE  StepOf(r)
    <3>1. p \in Pods
        BY DEF Least
    <3>2. GoTo(r, p)
        BY <2>1, <2>3 DEF ByLoad, GoTo, Place
    <3> QED BY <3>1, <3>2 DEF StepOf
  <2>4. ASSUME NEW l \in {"ratio", "least"}, Goto(r, l), UNCHANGED <<target, unbalanced>>
        PROVE  StepOf(r)
    <3>1. Look(r)
        BY <1>0, <2>1, <2>4 DEF Goto, Look, Types, Reading
    <3> QED BY <3>1 DEF StepOf
  <2> QED BY <2>2, <2>3, <2>4
<1>9. CASE ChooseByRatio(r)
  <2>1. pc[r] \notin Placed /\ UNCHANGED <<misled, counting, lmetric, mooncake, taken, ended>>
      BY <1>9 DEF ChooseByRatio, AllRead, Placed
  <2>2. PICK p \in UNION {RatioAndLoad(seen[r], hit) : hit \in [Pods -> HitRatios]} :
          Choose(r, p) /\ (Blindly(p) \/ UNCHANGED unbalanced)
      BY <1>9 DEF ChooseByRatio, ByLoad
  <2>3. p \in Pods
      BY <2>2 DEF RatioAndLoad
  <2>4. GoTo(r, p)
      BY <2>1, <2>2 DEF GoTo, Place
  <2> QED BY <2>3, <2>4 DEF StepOf
<1>10. ASSUME NEW p \in Pods, InferAnswered(r, p)
       PROVE  StepOf(r)
  <2>1. GoTo(r, p)
      BY <1>0, <1>10 DEF InferAnswered, GoTo, Place
  <2> QED BY <2>1 DEF StepOf
<1>11. CASE InferFallback(r)
  <2>1. Look(r)
      BY <1>0, <1>11 DEF InferFallback, Goto, Look, Types, Reading
  <2> QED BY <2>1 DEF StepOf
<1>12. CASE AddRequestCount(r) \/ Publish(r) \/ TakeEntry(r) \/ Subtract(r) \/ DoneRequest(r)
    BY <1>12 DEF StepOf
<1> QED BY <1>1, <1>2, <1>3, <1>4, <1>5, <1>6, <1>7, <1>8, <1>9, <1>10, <1>11, <1>12
        DEF RequestStep

LEMMA MaxOfTwo ==
  ASSUME NEW a \in Int, NEW b \in Int
  PROVE  Max({a, b}) = IF a >= b THEN a ELSE b
<1>1. CASE a >= b
  <2>1. a \in {a, b} /\ \A y \in {a, b} : a >= y
      BY <1>1
  <2> QED BY <1>1, <2>1 DEF Max
<1>2. CASE ~(a >= b)
  <2>1. b \in {a, b} /\ \A y \in {a, b} : b >= y
      BY <1>2
  <2> QED BY <1>2, <2>1 DEF Max
<1> QED BY <1>1, <1>2

\* Such a step keeps the types and the places.
LEMMA IInvStep ==
  ASSUME IInv, NEW r \in Requests, StepOf(r)
  PROVE  IInv'
<1> USE DEF IInv, lmetric, mooncake, counting, request
<1>0. Placed \subseteq Phases /\ NothingTaken \in Takings
    BY DEF Placed, Phases, NothingTaken, Takings
<1>1. CASE Look(r)
    BY <1>1 DEF Look, Types, Places
<1>p. ASSUME NEW p \in Pods, Place(r, p)
      PROVE  /\ pc' \in [Requests -> Phases] /\ target' \in [Requests -> Pods \cup {NoPod}]
             /\ seen' = [s \in Requests |-> seen'[s]] /\ unbalanced' \in [Pods -> Nat]
             /\ UNCHANGED <<running, published, owed, misled, ended, taken>>
             /\ pc[r] \notin Placed /\ pc'[r] \in Placed /\ target'[r] = p
             /\ \A s \in Requests \ {r} : pc'[s] = pc[s] /\ target'[s] = target[s]
  <2>1. /\ pc' = [pc EXCEPT ![r] = "chosen"] /\ target' = [target EXCEPT ![r] = p]
        /\ seen' = [seen EXCEPT ![r] = <<>>]
        /\ UNCHANGED <<running, published, owed, misled, ended, taken>>
        /\ pc[r] \notin Placed
      BY <1>p DEF Place, Choose, Goto
  <2>2. seen' = [s \in Requests |-> seen'[s]]
      BY <2>1 DEF Types
  <2>3. unbalanced' \in [Pods -> Nat]
    <3>1. /\ unbalanced \in [Pods -> Nat]
          /\ \/ unbalanced' = [unbalanced EXCEPT ![p] = @ + 1]
             \/ unbalanced' = unbalanced
        BY <1>p, Zenon DEF Place, Blindly, Types
    <3> HIDE DEF IInv
    <3> QED BY <3>1
  <2> QED BY <1>0, <2>1, <2>2, <2>3 DEF Types, Placed
<1>2. ASSUME NEW p \in Pods, GoTo(r, p)
      PROVE  IInv'
    BY <1>2, <1>p DEF GoTo, Types, Places
<1>3. ASSUME NEW p \in Pods, NEW n \in Nat, LMetricPlace(r, p, n)
      PROVE  IInv'
    BY <1>3, <1>p DEF LMetricPlace, Types, Places
<1>4. ASSUME NEW p \in Pods, MooncakePlace(r, p)
      PROVE  IInv'
  <2>1. Types'
      BY <1>4, <1>p DEF MooncakePlace, Types
  <2>2. Places'
      BY <1>4, <1>p, HeuristicRoutingConstants
      DEF MooncakePlace, Types, Places, NothingTaken
  <2> QED BY <2>1, <2>2
<1>5. CASE AddRequestCount(r)
    BY <1>0, <1>5 DEF AddRequestCount, Update, Types, Places, Placed
<1>6. CASE Publish(r)
  <2>1. PICK p \in Pods : target[r] = p
      BY <1>6 DEF Publish, Places, Placed
  <2>2. Max({published[p].newest, owed[r].update}) \in Int
    <3>1. published[p].newest \in Int /\ owed[r].update \in Int
        BY DEF Types
    <3>2. Max({published[p].newest, owed[r].update}) \in
            {published[p].newest, owed[r].update}
        BY <3>1, MaxOfTwo
    <3> QED BY <3>1, <3>2
  <2>3. /\ pc' \in [Requests -> Phases] /\ owed' \in [Requests -> [value : Int, update : Int]]
        /\ \A s \in Requests : pc'[s] \in Placed <=> pc[s] \in Placed
      BY <1>0, <1>6 DEF Publish, Types, Placed
  <2>4. published' \in [Pods -> [value : Int, update : Int, newest : Int]]
      BY <1>6, <2>1, <2>2 DEF Publish, Types
  <2> QED BY <1>6, <2>3, <2>4 DEF Publish, Types, Places
<1>7. CASE TakeEntry(r)
  <2>1. pc[r] \in Placed /\ taken[r] = NothingTaken /\ UNCHANGED <<request, counting, ended, unbalanced>>
        /\ podNewPrefillTokens' = podNewPrefillTokens
      BY <1>7 DEF TakeEntry, Placed
  <2>2. CASE /\ taken' = [taken EXCEPT ![r].tokens = requestNewPrefillTokens[r]]
             /\ requestNewPrefillTokens' = [requestNewPrefillTokens EXCEPT ![r] = 0]
             /\ UNCHANGED mooncake
    <3>1. taken'[r] \in Takings /\ taken'[r].pod = NoPod
        BY <2>1, <2>2 DEF Types, Takings, NothingTaken
    <3>2. taken' \in [Requests -> Takings] /\ \A s \in Requests \ {r} : taken'[s] = taken[s]
        BY <2>2, <3>1 DEF Types
    <3> QED BY <2>1, <2>2, <3>1, <3>2 DEF Types, Places
  <2>3. CASE /\ taken' = [taken EXCEPT ![r].pod = mooncakeRequestPod[r]]
             /\ mooncakeRequestPod' = [mooncakeRequestPod EXCEPT ![r] = NoPod]
             /\ UNCHANGED <<mooncakeVirtualQueue, reserved, requestNewPrefillTokens>>
    <3>1. taken'[r] \in Takings
        BY <2>1, <2>3 DEF Types, Takings, NothingTaken
    <3>2. taken' \in [Requests -> Takings] /\ \A s \in Requests \ {r} : taken'[s] = taken[s]
        BY <2>3, <3>1 DEF Types
    <3> QED BY <2>1, <2>3, <3>1, <3>2 DEF Types, Places
  <2> QED BY <1>7, <2>2, <2>3 DEF TakeEntry
<1>8. CASE Subtract(r)
    BY <1>0, <1>8 DEF Subtract, ClampedSub, Types, Places, NothingTaken, Takings
<1>9. CASE DoneRequest(r)
    BY <1>0, <1>9 DEF DoneRequest, Update, Types, Places, Placed
<1> QED BY <1>1, <1>2, <1>3, <1>4, <1>5, <1>6, <1>7, <1>8, <1>9 DEF StepOf
-----------------------------------------------------------------------------
\* What a request adds to the counters of a pod.
TokensOn(r, p) == IF target[r] = p THEN ReservedTokens[r] ELSE 0

QueuedOn(r, p) == IF p \in {mooncakeRequestPod[r], taken[r].pod} THEN 1 ELSE 0

TokensExact(p) ==
  podNewPrefillTokens[p] = SumOver(ReservedTokens, {r \in Requests : target[r] = p})

QueuesExact(p) ==
  mooncakeVirtualQueue[p] =
    Cardinality({r \in Requests : p \in {mooncakeRequestPod[r], taken[r].pod}})

\* The share of one request can be told from the rest.
LEMMA ShareOf ==
  ASSUME NEW f \in [Requests -> Nat], NEW S \in SUBSET Requests, NEW r \in Requests
  PROVE  /\ SumOver(f, S \ {r}) \in Nat /\ Cardinality(S \ {r}) \in Nat
         /\ SumOver(f, S) = SumOver(f, S \ {r}) + (IF r \in S THEN f[r] ELSE 0)
         /\ Cardinality(S) = Cardinality(S \ {r}) + (IF r \in S THEN 1 ELSE 0)
<1>1. IsFiniteSet(S) /\ IsFiniteSet(S \ {r})
    BY FS_Subset, HeuristicRoutingConstants
<1>2. SumOver(f, S \ {r}) \in Nat /\ Cardinality(S \ {r}) \in Nat
    BY <1>1, SumNat, FS_CardinalityType
<1>3. CASE r \in S
  <2>1. SumOver(f, S) = f[r] + SumOver(f, S \ {r}) /\ f[r] \in Nat
      BY <1>1, <1>3, SumRemove
  <2>2. Cardinality(S \ {r}) = Cardinality(S) - 1 /\ Cardinality(S) \in Nat
      BY <1>1, <1>3, FS_RemoveElement, FS_CardinalityType
  <2> QED BY <1>2, <1>3, <2>1, <2>2
<1>4. CASE r \notin S
  <2>1. S \ {r} = S
      BY <1>4
  <2> QED BY <1>2, <1>4, <2>1
<1> QED BY <1>2, <1>3, <1>4

\* A pod's counter of tokens moves with the share of the request that takes a step.
LEMMA TokensMove ==
  ASSUME IInv, IInv', NEW r \in Requests, NEW p \in Pods, TokensExact(p),
         \A s \in Requests \ {r} :
           /\ target'[s] = target[s] /\ taken'[s] = taken[s]
           /\ requestNewPrefillTokens'[s] = requestNewPrefillTokens[s]
  PROVE  /\ podNewPrefillTokens[p] >= TokensOn(r, p)
         /\ podNewPrefillTokens'[p] = podNewPrefillTokens[p] - TokensOn(r, p) + TokensOn(r, p)'
              => TokensExact(p)'
<1> DEFINE f == ReservedTokens
           g == ReservedTokens'
           S == {s \in Requests : target[s] = p}
           T == {s \in Requests : target'[s] = p}
<1>1. f \in [Requests -> Nat] /\ g \in [Requests -> Nat]
    BY DEF IInv, Types, Takings, ReservedTokens
<1>2. S \ {r} = T \ {r} /\ IsFiniteSet(S \ {r})
    BY FS_Subset, HeuristicRoutingConstants
<1>3. \A s \in S \ {r} : f[s] = g[s]
    BY DEF ReservedTokens
<1>4. /\ TokensOn(r, p) = (IF r \in S THEN f[r] ELSE 0)
      /\ TokensOn(r, p)' = (IF r \in T THEN g[r] ELSE 0)
    BY DEF TokensOn
<1>5. /\ podNewPrefillTokens[p] = SumOver(f, S)
      /\ TokensExact(p)' <=> (podNewPrefillTokens'[p] = SumOver(g, T))
    BY DEF TokensExact
<1> HIDE DEF f, g, S, T
<1>6. S \in SUBSET Requests /\ T \in SUBSET Requests
    BY DEF S, T
<1>7. SumOver(f, S \ {r}) = SumOver(g, S \ {r})
    BY <1>2, <1>3, SumSame
<1>8. /\ SumOver(f, S \ {r}) \in Nat
      /\ SumOver(f, S) = SumOver(f, S \ {r}) + (IF r \in S THEN f[r] ELSE 0)
    BY <1>1, <1>6, ShareOf
<1>9. SumOver(g, T) = SumOver(g, T \ {r}) + (IF r \in T THEN g[r] ELSE 0)
    BY <1>1, <1>6, ShareOf
<1>10. f[r] \in Nat /\ g[r] \in Nat
    BY <1>1
<1>11. SumOver(g, T) = SumOver(f, S \ {r}) + TokensOn(r, p)'
    BY <1>2, <1>4, <1>7, <1>9
<1>12. SumOver(f, S) = SumOver(f, S \ {r}) + TokensOn(r, p)
    BY <1>4, <1>8
<1>13. TokensOn(r, p) \in Nat /\ TokensOn(r, p)' \in Nat
    BY <1>4, <1>10
<1> QED BY <1>5, <1>8, <1>11, <1>12, <1>13

\* And so does its virtual queue.
LEMMA QueueMoves ==
  ASSUME IInv, IInv', NEW r \in Requests, NEW p \in Pods, QueuesExact(p),
         \A s \in Requests \ {r} :
           /\ taken'[s] = taken[s] /\ mooncakeRequestPod'[s] = mooncakeRequestPod[s]
  PROVE  /\ mooncakeVirtualQueue[p] >= QueuedOn(r, p)
         /\ mooncakeVirtualQueue'[p] = mooncakeVirtualQueue[p] - QueuedOn(r, p) + QueuedOn(r, p)'
              => QueuesExact(p)'
<1> DEFINE f == [s \in Requests |-> 0]
           S == {s \in Requests : p \in {mooncakeRequestPod[s], taken[s].pod}}
           T == {s \in Requests : p \in {mooncakeRequestPod'[s], taken'[s].pod}}
<1>1. f \in [Requests -> Nat] /\ S \in SUBSET Requests /\ T \in SUBSET Requests
    OBVIOUS
<1>2. S \ {r} = T \ {r}
    OBVIOUS
<1>4. /\ QueuedOn(r, p) = (IF r \in S THEN 1 ELSE 0)
      /\ QueuedOn(r, p)' = (IF r \in T THEN 1 ELSE 0)
    BY DEF QueuedOn
<1>5. /\ mooncakeVirtualQueue[p] = Cardinality(S)
      /\ QueuesExact(p)' <=> (mooncakeVirtualQueue'[p] = Cardinality(T))
    BY DEF QueuesExact
<1> HIDE DEF f, S, T
<1>8. /\ Cardinality(S \ {r}) \in Nat
      /\ Cardinality(S) = Cardinality(S \ {r}) + (IF r \in S THEN 1 ELSE 0)
    BY <1>1, ShareOf
<1>9. Cardinality(T) = Cardinality(T \ {r}) + (IF r \in T THEN 1 ELSE 0)
    BY <1>1, ShareOf
<1> QED BY <1>2, <1>4, <1>5, <1>8, <1>9

Exact == \A p \in Pods : TokensExact(p) /\ QueuesExact(p)

\* A step keeps the counters exact.
LEMMA ExactStep ==
  ASSUME IInv, IInv', Exact, NEW r \in Requests, StepOf(r)
  PROVE  Exact'
<1> USE DEF lmetric, mooncake, counting, request
<1> SUFFICES ASSUME NEW p \in Pods
             PROVE  TokensExact(p)' /\ QueuesExact(p)'
    BY DEF Exact
<1>0. /\ podNewPrefillTokens[p] \in Int /\ mooncakeVirtualQueue[p] \in Nat
      /\ requestNewPrefillTokens[r] \in Nat /\ taken[r].tokens \in Nat
      /\ TokensExact(p) /\ QueuesExact(p)
      /\ NoPod \notin Pods /\ NothingTaken.tokens = 0 /\ NothingTaken.pod = NoPod
    BY HeuristicRoutingConstants DEF IInv, Types, Takings, Exact, NothingTaken
<1>t. TokensOn(r, p) = (IF target[r] = p THEN requestNewPrefillTokens[r] + taken[r].tokens ELSE 0)
      /\ TokensOn(r, p)' =
           (IF target'[r] = p THEN requestNewPrefillTokens'[r] + taken'[r].tokens ELSE 0)
    BY DEF TokensOn, ReservedTokens
<1>q. QueuedOn(r, p) = (IF p \in {mooncakeRequestPod[r], taken[r].pod} THEN 1 ELSE 0)
      /\ QueuedOn(r, p)' = (IF p \in {mooncakeRequestPod'[r], taken'[r].pod} THEN 1 ELSE 0)
    BY DEF QueuedOn
<1>m. ASSUME \A s \in Requests \ {r} :
               /\ target'[s] = target[s] /\ taken'[s] = taken[s]
               /\ requestNewPrefillTokens'[s] = requestNewPrefillTokens[s]
               /\ mooncakeRequestPod'[s] = mooncakeRequestPod[s],
             podNewPrefillTokens'[p] = podNewPrefillTokens[p] - TokensOn(r, p) + TokensOn(r, p)',
             mooncakeVirtualQueue'[p] =
               mooncakeVirtualQueue[p] - QueuedOn(r, p) + QueuedOn(r, p)'
      PROVE  TokensExact(p)' /\ QueuesExact(p)'
    BY <1>0, <1>m, TokensMove, QueueMoves
<1>1. CASE UNCHANGED <<target, lmetric, mooncake, taken>>
    BY <1>0, <1>1, <1>m, <1>t, <1>q
<1>2. ASSUME NEW q \in Pods, Place(r, q)
      PROVE  /\ \A s \in Requests \ {r} : target'[s] = target[s] /\ taken'[s] = taken[s]
             /\ TokensOn(r, p) = 0
             /\ TokensOn(r, p)' = (IF p = q THEN requestNewPrefillTokens'[r] ELSE 0)
             /\ QueuedOn(r, p) = 0
             /\ QueuedOn(r, p)' = (IF p = mooncakeRequestPod'[r] THEN 1 ELSE 0)
             /\ requestNewPrefillTokens[r] = 0 /\ mooncakeRequestPod[r] = NoPod
  <2>1. /\ target' = [target EXCEPT ![r] = q] /\ taken' = taken /\ pc[r] \notin Placed
      BY <1>2 DEF Place, Choose
  <2>2. /\ target[r] = NoPod /\ requestNewPrefillTokens[r] = 0
        /\ mooncakeRequestPod[r] = NoPod /\ taken[r] = NothingTaken
      BY <2>1 DEF IInv, Places
  <2>3. target'[r] = q /\ \A s \in Requests \ {r} : target'[s] = target[s]
      BY <2>1 DEF IInv, Types
  <2>4. requestNewPrefillTokens'[r] \in Nat
      BY DEF IInv, Types
  <2> QED BY <1>0, <1>t, <1>q, <2>1, <2>2, <2>3, <2>4
<1>3. ASSUME NEW q \in Pods, GoTo(r, q)
      PROVE  TokensExact(p)' /\ QueuesExact(p)'
    BY <1>0, <1>2, <1>3, <1>m DEF GoTo
<1>4. ASSUME NEW q \in Pods, NEW n \in Nat, LMetricPlace(r, q, n)
      PROVE  TokensExact(p)' /\ QueuesExact(p)'
  <2>1. /\ Place(r, q) /\ UNCHANGED mooncake
        /\ requestNewPrefillTokens'[r] = n
        /\ \A s \in Requests \ {r} : requestNewPrefillTokens'[s] = requestNewPrefillTokens[s]
        /\ podNewPrefillTokens'[p] = podNewPrefillTokens[p] + (IF p = q THEN n ELSE 0)
      BY <1>0, <1>4 DEF LMetricPlace, IInv, Types
  <2> QED BY <1>0, <1>2, <2>1, <1>m
<1>5. ASSUME NEW q \in Pods, MooncakePlace(r, q)
      PROVE  TokensExact(p)' /\ QueuesExact(p)'
  <2>1. /\ Place(r, q) /\ UNCHANGED lmetric
        /\ mooncakeRequestPod'[r] = q
        /\ \A s \in Requests \ {r} : mooncakeRequestPod'[s] = mooncakeRequestPod[s]
        /\ mooncakeVirtualQueue'[p] = mooncakeVirtualQueue[p] + (IF p = q THEN 1 ELSE 0)
      BY <1>0, <1>5 DEF MooncakePlace, IInv, Types
  <2> QED BY <1>0, <1>2, <2>1, <1>m
<1>6. CASE TakeEntry(r)
  <2>1. /\ taken[r] = NothingTaken /\ UNCHANGED <<request, mooncakeVirtualQueue, podNewPrefillTokens>>
        /\ \/ /\ taken' = [taken EXCEPT ![r].tokens = requestNewPrefillTokens[r]]
              /\ requestNewPrefillTokens' = [requestNewPrefillTokens EXCEPT ![r] = 0]
              /\ UNCHANGED mooncake
           \/ /\ taken' = [taken EXCEPT ![r].pod = mooncakeRequestPod[r]]
              /\ mooncakeRequestPod' = [mooncakeRequestPod EXCEPT ![r] = NoPod]
              /\ UNCHANGED requestNewPrefillTokens
      BY <1>6 DEF TakeEntry
  <2>2. \A s \in Requests \ {r} :
               /\ target'[s] = target[s] /\ taken'[s] = taken[s]
               /\ requestNewPrefillTokens'[s] = requestNewPrefillTokens[s]
               /\ mooncakeRequestPod'[s] = mooncakeRequestPod[s]
      BY <2>1 DEF IInv, Types
  <2>3. TokensOn(r, p)' = TokensOn(r, p) /\ QueuedOn(r, p)' = QueuedOn(r, p)
    <3>1. \/ /\ taken'[r].tokens = requestNewPrefillTokens[r] /\ taken'[r].pod = NoPod
             /\ requestNewPrefillTokens'[r] = 0
             /\ mooncakeRequestPod'[r] = mooncakeRequestPod[r]
          \/ /\ taken'[r].tokens = 0 /\ taken'[r].pod = mooncakeRequestPod[r]
             /\ mooncakeRequestPod'[r] = NoPod
             /\ requestNewPrefillTokens'[r] = requestNewPrefillTokens[r]
        BY <1>0, <2>1 DEF IInv, Types, NothingTaken, Takings
    <3> QED BY <1>0, <1>t, <1>q, <2>1, <3>1
  <2>4. TokensOn(r, p) \in Int /\ QueuedOn(r, p) \in Int
      BY <1>0, <1>t, <1>q
  <2> QED BY <1>0, <2>1, <2>2, <2>3, <2>4, <1>m
<1>7. CASE Subtract(r)
  <2>1. /\ taken' = [taken EXCEPT ![r] = NothingTaken]
        /\ podNewPrefillTokens' =
             [podNewPrefillTokens EXCEPT ![target[r]] = ClampedSub(@, taken[r].tokens)]
        /\ mooncakeVirtualQueue' =
             [q \in Pods |-> IF q = taken[r].pod THEN ClampedSub(mooncakeVirtualQueue[q], 1)
                                                 ELSE mooncakeVirtualQueue[q]]
        /\ UNCHANGED <<request, requestNewPrefillTokens, mooncakeRequestPod>>
      BY <1>7 DEF Subtract
  <2>2. /\ taken'[r] = NothingTaken
        /\ \A s \in Requests \ {r} :
               /\ target'[s] = target[s] /\ taken'[s] = taken[s]
               /\ requestNewPrefillTokens'[s] = requestNewPrefillTokens[s]
               /\ mooncakeRequestPod'[s] = mooncakeRequestPod[s]
      BY <2>1 DEF IInv, Types
  <2>3. podNewPrefillTokens[p] >= TokensOn(r, p) /\ mooncakeVirtualQueue[p] >= QueuedOn(r, p)
      BY <1>0, <2>2, TokensMove, QueueMoves
  <2>4. podNewPrefillTokens'[p] = podNewPrefillTokens[p] - TokensOn(r, p) + TokensOn(r, p)'
    <3>1. podNewPrefillTokens'[p] =
            IF p = target[r] THEN ClampedSub(podNewPrefillTokens[p], taken[r].tokens)
            ELSE podNewPrefillTokens[p]
        BY <2>1 DEF IInv, Types
    <3> QED BY <1>0, <1>t, <2>1, <2>2, <2>3, <3>1 DEF ClampedSub
  <2>5. mooncakeVirtualQueue'[p] = mooncakeVirtualQueue[p] - QueuedOn(r, p) + QueuedOn(r, p)'
    <3>1. taken[r].pod # NoPod => mooncakeRequestPod[r] = NoPod
        BY DEF IInv, Places
    <3>2. mooncakeVirtualQueue'[p] =
            IF p = taken[r].pod THEN ClampedSub(mooncakeVirtualQueue[p], 1)
            ELSE mooncakeVirtualQueue[p]
        BY <2>1
    <3> QED BY <1>0, <1>q, <2>1, <2>2, <2>3, <3>1, <3>2 DEF ClampedSub
  <2> QED BY <2>2, <2>4, <2>5, <1>m
<1>8. Look(r) \/ AddRequestCount(r) \/ Publish(r) \/ DoneRequest(r)
        => UNCHANGED <<target, lmetric, mooncake, taken>>
    BY DEF Look, AddRequestCount, Publish, DoneRequest
<1> QED BY <1>1, <1>3, <1>4, <1>5, <1>6, <1>7, <1>8 DEF StepOf

\* The initial state, and a step of any request.
LEMMA InitIInv == Init => IInv
BY HeuristicRoutingConstants
DEF Init, IInv, Types, Places, Placed, Phases, Takings, NothingTaken

LEMMA NextIInv == IInv /\ [Next]_vars => IInv'
<1> SUFFICES ASSUME IInv, [Next]_vars PROVE IInv'
    OBVIOUS
<1>1. CASE UNCHANGED vars
    BY <1>1 DEF vars, request, counting, lmetric, mooncake, IInv, Types, Places
<1>2. ASSUME NEW r \in Requests, RequestStep(r)
      PROVE  IInv'
    BY <1>2, KindOfStep, IInvStep DEF IInv
<1> QED BY <1>1, <1>2 DEF Next

THEOREM IInvAlways == Spec => []IInv
BY InitIInv, NextIInv, PTL DEF Spec

\* LMETRIC's and MOONCAKE's counters are what the requests' entries add up to, for
\* any number of requests, although an entry is removed under one lock and the
\* counter reduced under another: no release is lost or made twice, and the clamp at
\* 0 never hides one.
THEOREM ReservationsExactAlways == Spec => []ReservationsExact
<1>1. Init => Exact
  <2> SUFFICES ASSUME Init, NEW p \in Pods
               PROVE  TokensExact(p) /\ QueuesExact(p)
      BY DEF Exact
  <2>1. /\ {r \in Requests : target[r] = p} = {}
        /\ {r \in Requests : p \in {mooncakeRequestPod[r], taken[r].pod}} = {}
      BY HeuristicRoutingConstants DEF Init, NothingTaken
  <2>2. SumOver(ReservedTokens, {}) = 0 /\ Cardinality({}) = 0
      BY SumEquation, FS_EmptySet
  <2>3. podNewPrefillTokens[p] = 0 /\ mooncakeVirtualQueue[p] = 0
      BY DEF Init
  <2> QED BY <2>1, <2>2, <2>3 DEF TokensExact, QueuesExact
<1>2. ASSUME IInv, IInv', Exact, [Next]_vars PROVE Exact'
  <2>1. CASE UNCHANGED vars
    <3>1. /\ UNCHANGED <<podNewPrefillTokens, mooncakeVirtualQueue, mooncakeRequestPod,
                         taken, target, requestNewPrefillTokens>>
        BY <2>1 DEF vars, request, lmetric, mooncake
    <3>2. ReservedTokens' = ReservedTokens
        BY <3>1 DEF ReservedTokens
    <3> QED BY <1>2, <3>1, <3>2 DEF Exact, TokensExact, QueuesExact
  <2>2. ASSUME NEW r \in Requests, RequestStep(r)
        PROVE  Exact'
      BY <1>2, <2>2, KindOfStep, ExactStep DEF IInv
  <2> QED BY <1>2, <2>1, <2>2 DEF Next
<1>3. Exact => ReservationsExact
    BY DEF Exact, TokensExact, QueuesExact, ReservationsExact, SumOver
<1> QED BY <1>1, <1>2, <1>3, IInvAlways, PTL DEF Spec

-----------------------------------------------------------------------------
\* The requests a pod has been sent.
Sent(p) == running[p] + ended[p]

\* The queue of a pod is part of what was reserved there, and in proportion to the
\* speed.
Fair ==
  /\ \A p \in Pods : mooncakeVirtualQueue[p] <= reserved[p] /\ Sent(p) \in Nat
  /\ QueuesFollowSpeed

LEMMA TimesMonotone ==
  ASSUME NEW a \in Nat, NEW b \in Nat, NEW c \in Nat, a <= b
  PROVE  a * c <= b * c
<1>1. (b - a) * c \in Nat
    OBVIOUS
<1>2. b * c = a * c + (b - a) * c
    OBVIOUS
<1> QED BY <1>1, <1>2

\* A pod's queue and what the pod is measured against may only move so.
LEMMA FairStays ==
  ASSUME IInv, IInv', Fair,
         \A p \in Pods : /\ mooncakeVirtualQueue'[p] <= mooncakeVirtualQueue[p]
                         /\ Sent(p)' \in Nat /\ Sent(p)' >= Sent(p)
                         /\ reserved'[p] = reserved[p]
  PROVE  Fair'
<1>0. \A q \in Pods :
        /\ reserved[q] + Sent(q) + 1 = reserved[q] + running[q] + ended[q] + 1
        /\ reserved'[q] + Sent(q)' + 1 = reserved'[q] + running'[q] + ended'[q] + 1
    BY DEF Sent, IInv, Types
<1>1. \A p \in Pods : /\ mooncakeVirtualQueue[p] \in Nat /\ mooncakeVirtualQueue'[p] \in Nat
                      /\ reserved[p] \in Nat /\ Speed[p] \in Nat
    BY HeuristicRoutingConstants DEF IInv, Types
<1>2. ASSUME NEW p \in Pods, NEW q \in Pods
      PROVE  mooncakeVirtualQueue'[p] * Speed[q] <= (reserved'[q] + Sent(q)' + 1) * Speed[p]
  <2> DEFINE a == mooncakeVirtualQueue'[p] * Speed[q]
             b == mooncakeVirtualQueue[p] * Speed[q]
             c == (reserved[q] + Sent(q) + 1) * Speed[p]
             d == (reserved'[q] + Sent(q)' + 1) * Speed[p]
  <2>1. a <= b
      BY <1>1, TimesMonotone
  <2>2. b <= c
      BY <1>0 DEF Fair, QueuesFollowSpeed
  <2>3. /\ reserved[q] + Sent(q) + 1 \in Nat /\ reserved'[q] + Sent(q)' + 1 \in Nat
        /\ reserved[q] + Sent(q) + 1 <= reserved'[q] + Sent(q)' + 1
      BY <1>1 DEF Fair
  <2>4. c <= d
      BY <1>1, <2>3, TimesMonotone
  <2>5. a \in Int /\ b \in Int /\ c \in Int /\ d \in Int
      BY <1>1, <2>3
  <2> HIDE DEF a, b, c, d
  <2>6. a <= d
      BY <2>1, <2>2, <2>4, <2>5
  <2> QED BY <2>6 DEF a, d
<1>3. QueuesFollowSpeed'
    BY <1>0, <1>2 DEF QueuesFollowSpeed
<1>4. \A p \in Pods : mooncakeVirtualQueue'[p] <= reserved'[p] /\ Sent(p)' \in Nat
    BY <1>1 DEF Fair
<1> QED BY <1>3, <1>4 DEF Fair

\* The pod that MOONCAKE chooses has the shortest queue for its speed, by a batch
\* that may be old but counts no request that was not sent.
LEMMA FairChoice ==
  ASSUME IInv, IInv', Fair, NEW r \in Requests, NEW p \in Pods, NEW batch \in Batches,
         p \in MooncakeBest(batch), MooncakePlace(r, p)
  PROVE  Fair'
<1>0. \A q \in Pods :
        /\ reserved[q] + Sent(q) + 1 = reserved[q] + running[q] + ended[q] + 1
        /\ reserved'[q] + Sent(q)' + 1 = reserved'[q] + running'[q] + ended'[q] + 1
    BY DEF Sent, IInv, Types
<1>1. /\ \A q \in Pods : reserved'[q] = reserved[q] + (IF q = p THEN 1 ELSE 0)
      /\ \A q \in Pods : mooncakeVirtualQueue'[q] =
                           mooncakeVirtualQueue[q] + (IF q = p THEN 1 ELSE 0)
      /\ \A q \in Pods : Sent(q)' = Sent(q)
    BY DEF MooncakePlace, Place, Sent, IInv, Types, counting
<1>2. \A q \in Pods : /\ mooncakeVirtualQueue[q] \in Nat /\ mooncakeVirtualQueue'[q] \in Nat
                      /\ reserved[q] \in Nat /\ Speed[q] \in Nat
                      /\ mooncakeVirtualQueue[q] <= reserved[q] /\ Sent(q) \in Nat
                      /\ reserved'[q] \in Nat
    BY HeuristicRoutingConstants DEF IInv, Types, Fair
<1>3. \A q \in Pods : batch[q] \in Nat /\ batch[q] <= Sent(q)
    BY HeuristicRoutingConstants, FS_CardinalityType DEF Batches, Sent
<1>4. ASSUME NEW q \in Pods
      PROVE  mooncakeVirtualQueue'[p] * Speed[q] <= (reserved'[q] + Sent(q)' + 1) * Speed[p]
  <2> DEFINE k(x) == batch[x] + mooncakeVirtualQueue[x] + 1
             a == mooncakeVirtualQueue'[p] * Speed[q]
             b == k(p) * Speed[q]
             c == k(q) * Speed[p]
             d == (reserved'[q] + Sent(q)' + 1) * Speed[p]
  <2>1. /\ mooncakeVirtualQueue'[p] <= k(p) /\ k(p) \in Nat /\ k(q) \in Nat
        /\ reserved'[q] + Sent(q)' + 1 \in Nat /\ k(q) <= reserved'[q] + Sent(q)' + 1
      BY <1>1, <1>2, <1>3
  <2>2. ~(c < b)
      BY DEF MooncakeBest
  <2> HIDE DEF k
  <2>3. a <= b
      BY <1>2, <2>1, TimesMonotone
  <2>4. c <= d
      BY <1>2, <2>1, TimesMonotone
  <2>5. a \in Int /\ b \in Int /\ c \in Int /\ d \in Int
      BY <1>2, <2>1
  <2> HIDE DEF a, b, c, d
  <2>6. a <= d
      BY <2>2, <2>3, <2>4, <2>5
  <2> QED BY <2>6 DEF a, d
<1>5. ASSUME NEW s \in Pods, NEW q \in Pods, s # p
      PROVE  mooncakeVirtualQueue'[s] * Speed[q] <= (reserved'[q] + Sent(q)' + 1) * Speed[s]
  <2> DEFINE b == mooncakeVirtualQueue[s] * Speed[q]
             c == (reserved[q] + Sent(q) + 1) * Speed[s]
             d == (reserved'[q] + Sent(q)' + 1) * Speed[s]
  <2>1. mooncakeVirtualQueue'[s] = mooncakeVirtualQueue[s]
      BY <1>1, <1>2, <1>5
  <2>2. b <= c
      BY <1>0 DEF Fair, QueuesFollowSpeed
  <2>3. /\ reserved[q] + Sent(q) + 1 \in Nat /\ reserved'[q] + Sent(q)' + 1 \in Nat
        /\ reserved[q] + Sent(q) + 1 <= reserved'[q] + Sent(q)' + 1
      BY <1>1, <1>2
  <2>4. c <= d
      BY <1>2, <2>3, TimesMonotone
  <2>5. b \in Int /\ c \in Int /\ d \in Int
      BY <1>2, <2>3
  <2> HIDE DEF b, c, d
  <2>6. b <= d
      BY <2>2, <2>4, <2>5
  <2> QED BY <2>1, <2>6 DEF b, d
<1>6. QueuesFollowSpeed'
    BY <1>0, <1>4, <1>5 DEF QueuesFollowSpeed
<1>7. \A q \in Pods : mooncakeVirtualQueue'[q] <= reserved'[q] /\ Sent(q)' \in Nat
    BY <1>1, <1>2
<1> QED BY <1>6, <1>7 DEF Fair

LEMMA FairStep ==
  ASSUME IInv, IInv', Fair, NEW r \in Requests, StepOf(r)
  PROVE  Fair'
<1> USE DEF lmetric, mooncake, counting, request
<1>0. \A p \in Pods : /\ running[p] \in Int /\ ended[p] \in Nat /\ Sent(p) \in Nat
                      /\ mooncakeVirtualQueue[p] \in Nat
    BY DEF IInv, Types, Fair
<1>1. CASE UNCHANGED <<running, ended, mooncakeVirtualQueue, reserved>>
    BY <1>0, <1>1, FairStays DEF Sent
<1>2. ASSUME NEW p \in Pods, NEW batch \in Batches, p \in MooncakeBest(batch),
             MooncakePlace(r, p)
      PROVE  Fair'
    BY <1>2, FairChoice
<1>3. CASE Subtract(r)
  <2>1. \A p \in Pods : mooncakeVirtualQueue'[p] <= mooncakeVirtualQueue[p]
      BY <1>0, <1>3 DEF Subtract, ClampedSub
  <2>2. UNCHANGED <<running, ended, reserved>>
      BY <1>3 DEF Subtract
  <2> QED BY <1>0, <2>1, <2>2, FairStays DEF Sent
<1>4. CASE AddRequestCount(r) \/ DoneRequest(r)
  <2>1. PICK p \in Pods : target[r] = p
      BY <1>4 DEF AddRequestCount, DoneRequest, IInv, Places, Placed
  <2>2. \/ running' = [running EXCEPT ![p] = @ + 1] /\ ended' = ended
        \/ running' = [running EXCEPT ![p] = @ + (-1)] /\ ended' = [ended EXCEPT ![p] = @ + 1]
      BY <1>4, <2>1 DEF AddRequestCount, DoneRequest, Update
  <2>3. \A q \in Pods : Sent(q)' \in Nat /\ Sent(q)' >= Sent(q)
    <3>1. \A q \in Pods : \/ running'[q] = running[q] /\ ended'[q] = ended[q]
                          \/ running'[q] = running[q] + 1 /\ ended'[q] = ended[q]
                          \/ running'[q] = running[q] - 1 /\ ended'[q] = ended[q] + 1
        BY <1>0, <2>2 DEF IInv, Types
    <3> QED BY <1>0, <3>1 DEF Sent
  <2>4. UNCHANGED mooncake
      BY <1>4 DEF AddRequestCount, DoneRequest
  <2> QED BY <1>0, <2>3, <2>4, FairStays
<1>5. /\ Look(r) \/ Publish(r) \/ TakeEntry(r)
           => UNCHANGED <<running, ended, mooncakeVirtualQueue, reserved>>
      /\ \A p \in Pods : GoTo(r, p) => UNCHANGED <<running, ended, mooncakeVirtualQueue, reserved>>
      /\ \A p \in Pods, n \in Nat : LMetricPlace(r, p, n) =>
           UNCHANGED <<running, ended, mooncakeVirtualQueue, reserved>>
    BY DEF Look, Publish, TakeEntry, GoTo, LMetricPlace, Place
<1> QED BY <1>1, <1>2, <1>3, <1>4, <1>5 DEF StepOf

\* MOONCAKE's queues stay in proportion to the speed of the pods, whatever batches
\* the old metrics show.
THEOREM QueuesFollowSpeedAlways == Spec => []QueuesFollowSpeed
<1>1. Init => Fair
  <2> SUFFICES ASSUME Init PROVE Fair
      OBVIOUS
  <2>1. \A p \in Pods : /\ mooncakeVirtualQueue[p] = 0 /\ reserved[p] = 0
                        /\ running[p] = 0 /\ ended[p] = 0 /\ Speed[p] \in Nat
      BY HeuristicRoutingConstants DEF Init
  <2>2. \A n \in Nat : 0 * n = 0 /\ (0 + 0 + 0 + 1) * n = n
      OBVIOUS
  <2> QED BY <2>1, <2>2 DEF Fair, QueuesFollowSpeed, Sent
<1>2. ASSUME IInv, IInv', Fair, [Next]_vars PROVE Fair'
  <2>1. CASE UNCHANGED vars
      BY <1>2, <2>1 DEF vars, counting, mooncake, Fair, QueuesFollowSpeed, Sent
  <2>2. ASSUME NEW r \in Requests, RequestStep(r)
        PROVE  Fair'
      BY <1>2, <2>2, KindOfStep, FairStep DEF IInv
  <2> QED BY <1>2, <2>1, <2>2 DEF Next
<1>3. Fair => QueuesFollowSpeed
    BY DEF Fair
<1> QED BY <1>1, <1>2, <1>3, IInvAlways, PTL DEF Spec

-----------------------------------------------------------------------------
\* Every update of a pod's runningRequests has a number: this is the last one's.
LastUpdate(p) == running[p] + 2 * ended[p]

\* The requests that have yet to publish a count of the pod.
Owing(p) == {r \in Requests : pc[r] \in {"add", "done"} /\ target[r] = p}

\* The additions to a pod's count that are newer than update u and not published.
AddsAfter(p, u) ==
  {r \in Requests : pc[r] = "add" /\ target[r] = p /\ owed[r].update > u}

\* No number is used twice, and no count exceeds what the pod has been sent.
Numbers ==
  \A p \in Pods :
    /\ published[p].value <= Sent(p) /\ published[p].update <= published[p].newest
    /\ published[p].newest <= LastUpdate(p)
    /\ \A r \in Owing(p) :
         /\ owed[r].value <= Sent(p) /\ owed[r].update <= LastUpdate(p)
         /\ owed[r].update # published[p].newest
         /\ \A s \in Owing(p) : s # r => owed[s].update # owed[r].update

\* Update u made the pod's count n, and no newer one is published.
Fresh(p, n, u) ==
  \/ published[p].value = n /\ published[p].update = u /\ published[p].newest = u
  \/ \E r \in Owing(p) : owed[r].value = n /\ owed[r].update = u /\ published[p].newest < u

\* Such a count lacks only the additions that are newer.
Lacks ==
  \A p \in Pods, n, u \in Int :
    Fresh(p, n, u) => running[p] <= n + Cardinality(AddsAfter(p, u))

Counting == Numbers /\ Lacks

LEMMA SizeOf ==
  ASSUME NEW S \in SUBSET Requests
  PROVE  /\ Cardinality(S) \in Nat
         /\ \A r \in Requests \ S : Cardinality(S \cup {r}) = Cardinality(S) + 1
         /\ \A T \in SUBSET S : Cardinality(T) <= Cardinality(S)
<1>1. IsFiniteSet(S)
    BY FS_Subset, HeuristicRoutingConstants
<1> QED BY <1>1, FS_CardinalityType, FS_AddElement, FS_Subset

\* Steps before the request is counted, and after it has published.
LEMMA CountingStays ==
  ASSUME IInv, Counting, NEW r \in Requests,
         UNCHANGED <<running, ended, published, owed>>,
         pc[r] \notin {"add", "done"}, pc'[r] \notin {"add", "done"},
         \A s \in Requests \ {r} : pc'[s] = pc[s] /\ target'[s] = target[s]
  PROVE  Counting' /\ \A p \in Pods : Sent(p)' = Sent(p)
<1>1. \A p \in Pods : Owing(p)' = Owing(p)
    BY DEF Owing
<1>2. \A p \in Pods, u \in Int : AddsAfter(p, u)' = AddsAfter(p, u)
    BY DEF AddsAfter
<1>3. \A p \in Pods : Sent(p)' = Sent(p) /\ LastUpdate(p)' = LastUpdate(p)
    BY DEF Sent, LastUpdate
<1>4. \A p \in Pods, n, u \in Int : Fresh(p, n, u)' => Fresh(p, n, u)
    BY <1>1 DEF Fresh
<1>5. Numbers'
    BY <1>1, <1>3 DEF Counting, Numbers
<1>6. Lacks'
    BY <1>2, <1>4 DEF Counting, Lacks
<1> QED BY <1>3, <1>5, <1>6 DEF Counting

\* AddRequestCount and DoneRequestCount: a new number, and a count yet to be published.
LEMMA CountingUpdates ==
  ASSUME IInv, IInv', Counting, NEW r \in Requests, AddRequestCount(r) \/ DoneRequest(r)
  PROVE  Counting' /\ \A p \in Pods : Sent(p)' >= Sent(p)
<1> USE DEF lmetric, mooncake, counting, request
<1>1. PICK p \in Pods : target[r] = p
    BY DEF AddRequestCount, DoneRequest, IInv, Places, Placed
<1>2. PICK d \in {1, -1} :
        /\ pc' = [pc EXCEPT ![r] = IF d = 1 THEN "add" ELSE "done"]
        /\ pc[r] = (IF d = 1 THEN "chosen" ELSE "running")
        /\ running' = [running EXCEPT ![p] = running[p] + d]
        /\ ended' = IF d = 1 THEN ended ELSE [ended EXCEPT ![p] = @ + 1]
        /\ owed' = [owed EXCEPT ![r] = [value |-> running[p] + d,
                                        update |-> running[p] + d + 2 * ended'[p]]]
        /\ UNCHANGED <<target, published>>
  <2>1. CASE AddRequestCount(r)
      BY <1>1, <2>1 DEF AddRequestCount, Update
  <2>2. CASE DoneRequest(r)
      BY <1>1, <2>2 DEF DoneRequest, Update
  <2> QED BY <2>1, <2>2
<1>3. /\ running[p] \in Int /\ ended[p] \in Nat
      /\ running'[p] = running[p] + d /\ ended'[p] = ended[p] + (IF d = 1 THEN 0 ELSE 1)
      /\ \A q \in Pods \ {p} : running'[q] = running[q] /\ ended'[q] = ended[q]
    BY <1>2 DEF IInv, Types
<1>4. /\ owed'[r].value = running'[p] /\ owed'[r].update = LastUpdate(p)'
      /\ pc'[r] = (IF d = 1 THEN "add" ELSE "done")
      /\ \A s \in Requests \ {r} : owed'[s] = owed[s] /\ pc'[s] = pc[s]
    BY <1>2, <1>3 DEF IInv, Types, LastUpdate
<1>5. /\ LastUpdate(p) \in Int /\ LastUpdate(p)' = LastUpdate(p) + 1
      /\ Sent(p) \in Int /\ Sent(p)' = Sent(p) + (IF d = 1 THEN 1 ELSE 0)
      /\ running'[p] <= Sent(p)'
      /\ \A q \in Pods \ {p} : Sent(q)' = Sent(q) /\ LastUpdate(q)' = LastUpdate(q)
    BY <1>3 DEF LastUpdate, Sent
<1>6. /\ r \notin Owing(p) /\ Owing(p)' = Owing(p) \cup {r}
      /\ \A q \in Pods \ {p} : Owing(q)' = Owing(q) /\ r \notin Owing(q)
      /\ \A q \in Pods : Owing(q) \subseteq Requests
    BY <1>1, <1>2, <1>4 DEF Owing
<1>7. \A q \in Pods : /\ published'[q] = published[q]
                      /\ published[q].value \in Int /\ published[q].update \in Int
                      /\ published[q].newest \in Int
    BY <1>2 DEF IInv, Types
<1>8. \A s \in Requests : owed[s].value \in Int /\ owed[s].update \in Int
    BY DEF IInv, Types
<1>9. Numbers'
  <2>1. ASSUME NEW q \in Pods, q # p
        PROVE  /\ published'[q].value <= Sent(q)' /\ published'[q].update <= published'[q].newest
               /\ published'[q].newest <= LastUpdate(q)'
               /\ \A s \in Owing(q)' :
                    /\ owed'[s].value <= Sent(q)' /\ owed'[s].update <= LastUpdate(q)'
                    /\ owed'[s].update # published'[q].newest
                    /\ \A t \in Owing(q)' : t # s => owed'[t].update # owed'[s].update
      BY <1>4, <1>5, <1>6, <1>7, <2>1 DEF Counting, Numbers
  <2>2. /\ published'[p].value <= Sent(p)' /\ published'[p].update <= published'[p].newest
        /\ published'[p].newest <= LastUpdate(p)'
      BY <1>5, <1>7 DEF Counting, Numbers
  <2>3. ASSUME NEW s \in Owing(p)
        PROVE  /\ s \in Requests \ {r} /\ owed'[s] = owed[s] /\ owed[s].value <= Sent(p)'
               /\ owed[s].update <= LastUpdate(p) /\ owed[s].update # published[p].newest
               /\ \A t \in Owing(p) : t # s => owed[t].update # owed[s].update
      BY <1>4, <1>5, <1>6, <1>8 DEF Counting, Numbers
  <2>4. published[p].newest <= LastUpdate(p)
      BY DEF Counting, Numbers
  <2>5. ASSUME NEW s \in Owing(p)'
        PROVE  /\ owed'[s].value <= Sent(p)' /\ owed'[s].update <= LastUpdate(p)'
               /\ owed'[s].update # published'[p].newest
               /\ \A t \in Owing(p)' : t # s => owed'[t].update # owed'[s].update
    <3>1. CASE s = r
        BY <1>4, <1>5, <1>6, <1>7, <1>8, <2>3, <2>4, <3>1
    <3>2. CASE s # r
        BY <1>4, <1>5, <1>6, <1>7, <1>8, <2>3, <3>2
    <3> QED BY <3>1, <3>2
  <2> QED BY <2>1, <2>2, <2>5 DEF Numbers
<1>10. Lacks'
  <2> SUFFICES ASSUME NEW q \in Pods, NEW n \in Int, NEW u \in Int, Fresh(q, n, u)'
               PROVE  running'[q] <= n + Cardinality(AddsAfter(q, u)')
      BY DEF Lacks
  <2>1. /\ AddsAfter(q, u) \in SUBSET Requests /\ AddsAfter(q, u)' \in SUBSET Requests
        /\ Cardinality(AddsAfter(q, u)) \in Nat /\ Cardinality(AddsAfter(q, u)') \in Nat
        /\ running[q] \in Int
      BY SizeOf DEF AddsAfter, IInv, Types
  <2>2. CASE q # p
    <3>1. Fresh(q, n, u)
        BY <1>4, <1>6, <1>7, <2>2 DEF Fresh
    <3>2. AddsAfter(q, u)' = AddsAfter(q, u)
        BY <1>1, <1>2, <1>4, <2>2 DEF AddsAfter
    <3> QED BY <1>3, <2>2, <3>1, <3>2 DEF Counting, Lacks
  <2>3. CASE q = p /\ ~Fresh(q, n, u)
    <3>1. n = running'[p]
        BY <1>4, <1>6, <1>7, <2>3 DEF Fresh
    <3> QED BY <1>3, <2>1, <2>3, <3>1
  <2>4. CASE q = p /\ Fresh(q, n, u)
    <3>1. u <= LastUpdate(p)
        BY <1>5, <1>6, <1>7, <1>8, <2>4 DEF Fresh, Counting, Numbers
    <3>2. running[p] <= n + Cardinality(AddsAfter(p, u))
        BY <2>4 DEF Counting, Lacks
    <3>3. CASE d = 1
      <4>1. r \notin AddsAfter(p, u) /\ AddsAfter(p, u)' = AddsAfter(p, u) \cup {r}
          BY <1>1, <1>2, <1>4, <1>5, <3>1, <3>3 DEF AddsAfter
      <4>2. Cardinality(AddsAfter(p, u)') = Cardinality(AddsAfter(p, u)) + 1
          BY <2>1, <2>4, <4>1, SizeOf
      <4> QED BY <1>3, <2>1, <2>4, <3>2, <3>3, <4>2
    <3>4. CASE d = -1
      <4>1. AddsAfter(p, u)' = AddsAfter(p, u)
          BY <1>1, <1>2, <1>4, <3>4 DEF AddsAfter
      <4> QED BY <1>3, <2>1, <2>4, <3>2, <3>4, <4>1
    <3> QED BY <3>3, <3>4
  <2> QED BY <2>2, <2>3, <2>4
<1>11. \A q \in Pods : Sent(q)' >= Sent(q)
  <2>1. \A q \in Pods : Sent(q) \in Int
      BY DEF Sent, IInv, Types
  <2> QED BY <1>5, <2>1
<1> QED BY <1>9, <1>10, <1>11 DEF Counting

\* updatePodRecord: the newest number published is never reused, and publishing over
\* a newer count leaves none that is fresh but the ones still owed.
LEMMA CountingPublish ==
  ASSUME IInv, IInv', Counting, NEW r \in Requests, Publish(r)
  PROVE  Counting' /\ \A p \in Pods : Sent(p)' = Sent(p)
<1> USE DEF lmetric, mooncake, counting, request
<1>1. PICK p \in Pods : target[r] = p
    BY DEF Publish, IInv, Places, Placed
<1>2. /\ r \in Owing(p) /\ pc'[r] \notin {"add", "done"}
      /\ \A q \in Pods : Owing(q)' = Owing(q) \ {r} /\ Owing(q) \subseteq Requests
      /\ \A q \in Pods \ {p} : r \notin Owing(q)
      /\ \A s \in Requests \ {r} : owed'[s] = owed[s] /\ pc'[s] = pc[s]
      /\ UNCHANGED <<running, ended, target>>
    BY <1>1 DEF Publish, Owing, IInv, Types
<1>3. /\ published[p].newest \in Int /\ published[p].update \in Int
      /\ \A s \in Requests : owed[s].value \in Int /\ owed[s].update \in Int
      /\ \A q \in Pods : published[q].newest \in Int
    BY DEF IInv, Types
<1>4. /\ published'[p].value = owed[r].value /\ published'[p].update = owed[r].update
      /\ published'[p].newest = Max({published[p].newest, owed[r].update})
      /\ \A q \in Pods \ {p} : published'[q] = published[q]
    BY <1>1 DEF Publish, IInv, Types
<1>5. published'[p].newest = IF published[p].newest >= owed[r].update
                             THEN published[p].newest ELSE owed[r].update
    BY <1>3, <1>4, MaxOfTwo
<1>6. \A q \in Pods : Sent(q)' = Sent(q) /\ LastUpdate(q)' = LastUpdate(q)
                      /\ LastUpdate(q) \in Int
    BY <1>2 DEF Sent, LastUpdate, IInv, Types
<1>7. Numbers'
  <2>1. ASSUME NEW q \in Pods
        PROVE  /\ published'[q].value <= Sent(q)' /\ published'[q].update <= published'[q].newest
               /\ published'[q].newest <= LastUpdate(q)'
    <3>1. /\ published[q].value <= Sent(q) /\ published[q].update <= published[q].newest
          /\ published[q].newest <= LastUpdate(q)
          /\ owed[r].value <= Sent(p) /\ owed[r].update <= LastUpdate(p)
        BY <1>2 DEF Counting, Numbers
    <3> QED BY <1>3, <1>4, <1>5, <1>6, <3>1
  <2>2. ASSUME NEW q \in Pods, NEW s \in Owing(q)'
        PROVE  /\ owed'[s].value <= Sent(q)' /\ owed'[s].update <= LastUpdate(q)'
               /\ owed'[s].update # published'[q].newest
               /\ \A t \in Owing(q)' : t # s => owed'[t].update # owed'[s].update
    <3>1. s \in Owing(q) /\ s # r /\ s \in Requests /\ owed'[s] = owed[s]
        BY <1>2
    <3>2. /\ owed[s].value <= Sent(q) /\ owed[s].update <= LastUpdate(q)
          /\ owed[s].update # published[q].newest
          /\ \A t \in Owing(q) : t # s => owed[t].update # owed[s].update
        BY <3>1 DEF Counting, Numbers
    <3>3. \A t \in Owing(q)' : t \in Owing(q) /\ owed'[t] = owed[t]
        BY <1>2
    <3>4. owed[s].update # published'[q].newest
        BY <1>2, <1>4, <1>5, <3>1, <3>2
    <3> QED BY <1>6, <3>1, <3>2, <3>3, <3>4
  <2> QED BY <2>1, <2>2 DEF Numbers
<1>8. Lacks'
  <2> SUFFICES ASSUME NEW q \in Pods, NEW n \in Int, NEW u \in Int, Fresh(q, n, u)'
               PROVE  running'[q] <= n + Cardinality(AddsAfter(q, u)')
      BY DEF Lacks
  <2>1. Fresh(q, n, u) /\ (q = p => owed[r].update <= u)
    <3>1. CASE q # p
        BY <1>2, <1>4, <3>1 DEF Fresh
    <3>2. CASE q = p /\ published'[p].value = n /\ published'[p].update = u
                     /\ published'[p].newest = u
      <4>1. owed[r].update # published[p].newest
          BY <1>2 DEF Counting, Numbers
      <4>2. /\ r \in Owing(p) /\ owed[r].value = n /\ owed[r].update = u
            /\ published[p].newest < u
          BY <1>2, <1>3, <1>4, <1>5, <3>2, <4>1
      <4>3. Fresh(p, n, u)
          BY <4>2 DEF Fresh
      <4> QED BY <3>2, <4>2, <4>3
    <3>3. ASSUME q = p, NEW s \in Owing(q)', owed'[s].value = n, owed'[s].update = u,
                 published'[q].newest < u
          PROVE  Fresh(q, n, u) /\ owed[r].update <= u
      <4>1. s \in Owing(q) /\ owed'[s] = owed[s]
          BY <1>2
      <4> QED BY <1>3, <1>5, <3>3, <4>1 DEF Fresh
    <3>4. \/ published'[q].value = n /\ published'[q].update = u /\ published'[q].newest = u
          \/ \E s \in Owing(q)' : /\ owed'[s].value = n /\ owed'[s].update = u
                                 /\ published'[q].newest < u
        BY DEF Fresh
    <3> QED BY <3>1, <3>2, <3>3, <3>4
  <2>2. AddsAfter(q, u)' = AddsAfter(q, u)
    <3>1. r \notin AddsAfter(q, u)
        BY <1>1, <1>3, <2>1 DEF AddsAfter
    <3> QED BY <1>2, <3>1 DEF AddsAfter
  <2> QED BY <1>2, <2>1, <2>2 DEF Counting, Lacks
<1> QED BY <1>6, <1>7, <1>8 DEF Counting

LEMMA CountingStep ==
  ASSUME IInv, IInv', Counting, NEW r \in Requests, StepOf(r)
  PROVE  Counting' /\ \A p \in Pods : Sent(p)' \in Int /\ Sent(p) \in Int /\ Sent(p)' >= Sent(p)
<1> USE DEF lmetric, mooncake, counting, request
<1>1. \A p \in Pods : Sent(p) \in Int /\ Sent(p)' \in Int
    BY DEF Sent, IInv, Types
<1>2. Look(r) => /\ UNCHANGED <<running, ended, published, owed>>
                 /\ pc[r] \notin {"add", "done"} /\ pc'[r] \notin {"add", "done"}
                 /\ \A s \in Requests \ {r} : pc'[s] = pc[s] /\ target'[s] = target[s]
    BY DEF Look, Placed, IInv, Types
<1>3. \A p \in Pods : Place(r, p) =>
        /\ UNCHANGED <<running, ended, published, owed>>
        /\ pc[r] \notin {"add", "done"} /\ pc'[r] \notin {"add", "done"}
        /\ \A s \in Requests \ {r} : pc'[s] = pc[s] /\ target'[s] = target[s]
    BY DEF Place, Choose, Goto, Placed, IInv, Types
<1>4. CASE TakeEntry(r) \/ Subtract(r)
  <2>1. UNCHANGED <<running, ended, published, owed, pc, target>>
      BY <1>4 DEF TakeEntry, Subtract
  <2>2. /\ \A p \in Pods : Owing(p)' = Owing(p) /\ Sent(p)' = Sent(p)
                           /\ LastUpdate(p)' = LastUpdate(p)
        /\ \A p \in Pods, u \in Int : AddsAfter(p, u)' = AddsAfter(p, u)
        /\ \A p \in Pods, n, u \in Int : Fresh(p, n, u)' = Fresh(p, n, u)
      BY <2>1 DEF Owing, AddsAfter, Fresh, Sent, LastUpdate
  <2>3. Numbers'
      BY <2>1, <2>2 DEF Counting, Numbers
  <2>4. Lacks'
      BY <2>1, <2>2 DEF Counting, Lacks
  <2> QED BY <1>1, <2>2, <2>3, <2>4 DEF Counting
<1>5. CASE Look(r) \/ \E p \in Pods : Place(r, p)
    BY <1>1, <1>2, <1>3, <1>5, CountingStays
<1>6. StepOf(r) => \/ Look(r) \/ (\E p \in Pods : Place(r, p))
                   \/ AddRequestCount(r) \/ Publish(r) \/ TakeEntry(r) \/ Subtract(r)
                   \/ DoneRequest(r)
    BY DEF StepOf, GoTo, LMetricPlace, MooncakePlace
<1> QED BY <1>1, <1>4, <1>5, <1>6, CountingUpdates, CountingPublish

-----------------------------------------------------------------------------
\* The requests on their way to a pod, if it stands at n or less as far as they know.
Toward(p, n) ==
  {r \in Requests :
     \/ pc[r] = "chosen" /\ target[r] = p
     \/ pc[r] = "ratio" /\ ~misled[r]
     \/ /\ pc[r] \in {"imbalance", "fallback", "least"} /\ ~misled[r]
        /\ p \in DOMAIN seen[r] /\ seen[r][p] <= n}

On(r, p, n) == IF r \in Toward(p, n) THEN 1 ELSE 0

\* No count was read that exceeds what the pod has been sent.
Seen ==
  \A r \in Requests :
    /\ DOMAIN seen[r] \subseteq Pods
    /\ \A p \in DOMAIN seen[r] : seen[r][p] \in Int /\ seen[r][p] <= Sent(p)

\* With those on their way, a pod stays within Concurrency of every level that is
\* Threshold over what another pod has been sent.
Gaps ==
  \A p, q \in Pods, n \in Int : n >= Sent(q) + Threshold =>
    running[p] + Cardinality(Toward(p, n)) <= n + unbalanced[p] + Concurrency

\* What a step of one request leaves alone.
OthersSame(r) ==
  \A s \in Requests \ {r} :
    /\ pc'[s] = pc[s] /\ target'[s] = target[s]
    /\ misled'[s] = misled[s] /\ seen'[s] = seen[s]

LEMMA OthersAreSame ==
  ASSUME IInv, NEW r \in Requests, StepOf(r)
  PROVE  OthersSame(r)
<1> USE DEF lmetric, mooncake, counting, request, OthersSame, IInv, Types
<1>1. Look(r) => OthersSame(r)
    BY DEF Look
<1>2. \A p \in Pods : Place(r, p) => OthersSame(r)
    BY DEF Place, Choose, Goto
<1>3. AddRequestCount(r) \/ Publish(r) \/ DoneRequest(r) => OthersSame(r)
    BY DEF AddRequestCount, Publish, DoneRequest
<1>4. TakeEntry(r) \/ Subtract(r) => OthersSame(r)
    BY DEF TakeEntry, Subtract
<1> QED BY <1>1, <1>2, <1>3, <1>4 DEF StepOf, GoTo, LMetricPlace, MooncakePlace

\* Concurrency bounds the requests that are being routed.
LEMMA RoutedStep ==
  ASSUME IInv, Cardinality(Routed) <= Concurrency, NEW r \in Requests, RequestStep(r)
  PROVE  Cardinality(Routed') <= Concurrency
<1> USE DEF lmetric, mooncake, counting, request
<1>0. StepOf(r) /\ OthersSame(r)
    BY KindOfStep, OthersAreSame DEF IInv
<1>1. /\ Routed \in SUBSET Requests /\ Routed' \in SUBSET Requests
      /\ Cardinality(Routed) \in Nat /\ Concurrency \in Nat
      /\ Routed' \subseteq Routed \cup {r}
    BY <1>0, SizeOf, HeuristicRoutingConstants DEF Routed, OthersSame
<1>2. CASE pc[r] = "idle"
  <2>1. Cardinality(Routed) < Concurrency
    <3>1. ~Subtract(r)
        BY <1>2 DEF Subtract, IInv, Places, Placed
    <3> QED BY <1>2, <3>1
            DEF RequestStep, Dispatch, RouteThreshold, RouteRandom, LMetricScorePods,
                MooncakeScorePods, Arrive, ReadCount, Reading, ChooseLeast, AllRead,
                OnLoadImbalance, ChooseByRatio, InferAnswered, InferFallback,
                AddRequestCount, Publish, TakeEntry, DoneRequest
  <2>2. r \notin Routed /\ Routed \cup {r} \in SUBSET Requests
      BY <1>1, <1>2 DEF Routed, Reading
  <2>3. Cardinality(Routed \cup {r}) = Cardinality(Routed) + 1
      BY <1>1, <2>2, SizeOf
  <2>4. Cardinality(Routed') <= Cardinality(Routed \cup {r})
      BY <1>1, <2>2, SizeOf
  <2>5. Cardinality(Routed') \in Nat
      BY <1>1, SizeOf
  <2> QED BY <1>1, <2>1, <2>3, <2>4, <2>5
<1>3. CASE pc[r] # "idle"
  <2>1. r \in Routed' => r \in Routed
    <3>1. pc[r] \in Phases
        BY DEF IInv, Types
    <3>2. pc[r] \notin Placed => r \in Routed
        BY <1>3, <3>1 DEF Phases, Routed
    <3>3. Look(r) \/ (\E p \in Pods : Place(r, p)) => pc[r] \notin Placed
        BY DEF Look, Place
    <3>4. AddRequestCount(r) => r \in Routed
        BY DEF AddRequestCount, Routed
    <3>5. Publish(r) \/ DoneRequest(r) => r \notin Routed'
        BY DEF Publish, DoneRequest, Routed, Reading, IInv, Types
    <3>6. TakeEntry(r) \/ Subtract(r) => Routed' = Routed
        BY DEF TakeEntry, Subtract, Routed
    <3> QED BY <1>0, <3>2, <3>3, <3>4, <3>5, <3>6
            DEF StepOf, GoTo, LMetricPlace, MooncakePlace
  <2>2. Routed' \subseteq Routed
      BY <1>1, <2>1
  <2>3. Cardinality(Routed') <= Cardinality(Routed) /\ Cardinality(Routed') \in Nat
      BY <1>1, <2>2, SizeOf
  <2> QED BY <1>1, <2>3
<1> QED BY <1>2, <1>3

\* What a step does to the counts that its request has read.
LEMMA SeenChange ==
  ASSUME IInv, NEW r \in Requests, RequestStep(r)
  PROVE  \/ seen'[r] = seen[r]
         \/ seen'[r] = <<>>
         \/ \E p \in Pods : seen'[r] = WithCount(seen[r], p, published[p].value)
<1> USE DEF request, IInv, Types
<1>1. \A l : Goto(r, l) => seen'[r] = <<>>
    BY DEF Goto
<1>2. \A p \in Pods : ReadCount(r, p) => seen'[r] = WithCount(seen[r], p, published[p].value)
    BY DEF ReadCount
<1>3. AddRequestCount(r) \/ Publish(r) \/ TakeEntry(r) \/ Subtract(r) \/ DoneRequest(r)
        => seen'[r] = seen[r]
    BY DEF AddRequestCount, Publish, TakeEntry, Subtract, DoneRequest
<1>4. Dispatch(r) \/ RouteThreshold(r) => seen'[r] = <<>>
    BY <1>1 DEF Dispatch, RouteThreshold, Choose
<1>5. \A p \in Pods : RouteRandom(r, p) \/ ChooseLeast(r, p) \/ InferAnswered(r, p)
                        => seen'[r] = <<>>
    BY <1>1 DEF RouteRandom, ChooseLeast, InferAnswered, Choose
<1>6. LMetricScorePods(r) \/ MooncakeScorePods(r) => seen'[r] = <<>>
    BY <1>1 DEF LMetricScorePods, MooncakeScorePods, Choose
<1>7. ChooseByRatio(r) \/ InferFallback(r) => seen'[r] = <<>>
    BY <1>1 DEF ChooseByRatio, InferFallback, Choose
<1>8. \A tokens \in BOOLEAN : OnLoadImbalance(r, tokens) => seen'[r] = <<>>
    BY <1>1 DEF OnLoadImbalance, Choose
<1> QED BY <1>2, <1>3, <1>4, <1>5, <1>6, <1>7, <1>8 DEF RequestStep

LEMMA SeenStep ==
  ASSUME IInv, IInv', Counting, Seen, NEW r \in Requests, RequestStep(r)
  PROVE  Seen'
<1>0. /\ OthersSame(r)
      /\ \A p \in Pods : Sent(p)' \in Int /\ Sent(p) \in Int /\ Sent(p)' >= Sent(p)
    BY KindOfStep, OthersAreSame, CountingStep DEF IInv
<1>1. ASSUME NEW s \in Requests, seen'[s] = seen[s]
      PROVE  /\ DOMAIN seen'[s] \subseteq Pods
             /\ \A p \in DOMAIN seen'[s] : seen'[s][p] \in Int /\ seen'[s][p] <= Sent(p)'
    BY <1>0, <1>1 DEF Seen
<1>2. ASSUME seen'[r] = <<>>
      PROVE  /\ DOMAIN seen'[r] \subseteq Pods
             /\ \A p \in DOMAIN seen'[r] : seen'[r][p] \in Int /\ seen'[r][p] <= Sent(p)'
    BY <1>2
<1>3. ASSUME NEW q \in Pods, seen'[r] = WithCount(seen[r], q, published[q].value)
      PROVE  /\ DOMAIN seen'[r] \subseteq Pods
             /\ \A p \in DOMAIN seen'[r] : seen'[r][p] \in Int /\ seen'[r][p] <= Sent(p)'
  <2>1. /\ DOMAIN seen'[r] = DOMAIN seen[r] \cup {q}
        /\ \A p \in DOMAIN seen[r] \cup {q} :
             seen'[r][p] = IF p = q THEN published[q].value ELSE seen[r][p]
      BY <1>3 DEF WithCount
  <2>2. published[q].value \in Int /\ published[q].value <= Sent(q)
      BY DEF Counting, Numbers, IInv, Types
  <2> QED BY <1>0, <2>1, <2>2 DEF Seen
<1> QED BY <1>0, <1>1, <1>2, <1>3, SeenChange DEF Seen, OthersSame

\* A step adds to what a pod may come to at most what it adds to the blind requests,
\* or else the bound is known from elsewhere.
LEMMA GapsMove ==
  ASSUME IInv, IInv', Gaps, NEW r \in Requests, OthersSame(r),
         \A p \in Pods : Sent(p)' \in Int /\ Sent(p) \in Int /\ Sent(p)' >= Sent(p),
         \A p, q \in Pods, n \in Int : n >= Sent(q)' + Threshold =>
           \/ running'[p] + On(r, p, n)' + unbalanced[p]
                <= running[p] + On(r, p, n) + unbalanced'[p]
           \/ running'[p] + Cardinality(Toward(p, n)') <= n + unbalanced'[p] + Concurrency
  PROVE  Gaps'
<1> SUFFICES ASSUME NEW p \in Pods, NEW q \in Pods, NEW n \in Int, n >= Sent(q)' + Threshold
             PROVE  running'[p] + Cardinality(Toward(p, n)')
                      <= n + unbalanced'[p] + Concurrency
    BY DEF Gaps
<1> DEFINE S == Toward(p, n)
           T == Toward(p, n)'
           f == [s \in Requests |-> 0]
<1>1. S \in SUBSET Requests /\ T \in SUBSET Requests /\ f \in [Requests -> Nat]
    BY DEF Toward
<1>2. S \ {r} = T \ {r}
    BY DEF Toward, OthersSame
<1>3. /\ On(r, p, n) = (IF r \in S THEN 1 ELSE 0)
      /\ On(r, p, n)' = (IF r \in T THEN 1 ELSE 0)
    BY DEF On
<1>4. running[p] + Cardinality(S) <= n + unbalanced[p] + Concurrency
  <2>1. n >= Sent(q) + Threshold
      BY HeuristicRoutingConstants
  <2> QED BY <2>1 DEF Gaps
<1>5. /\ running[p] \in Int /\ running'[p] \in Int /\ unbalanced[p] \in Nat
      /\ unbalanced'[p] \in Nat /\ Concurrency \in Nat
    BY HeuristicRoutingConstants DEF IInv, Types
<1>6. \/ running'[p] + On(r, p, n)' + unbalanced[p]
           <= running[p] + On(r, p, n) + unbalanced'[p]
      \/ running'[p] + Cardinality(T) <= n + unbalanced'[p] + Concurrency
    OBVIOUS
<1> HIDE DEF S, T, f
<1>7. /\ Cardinality(S \ {r}) \in Nat
      /\ Cardinality(S) = Cardinality(S \ {r}) + (IF r \in S THEN 1 ELSE 0)
    BY <1>1, ShareOf
<1>8. Cardinality(T) = Cardinality(T \ {r}) + (IF r \in T THEN 1 ELSE 0)
    BY <1>1, ShareOf
<1>9. running'[p] + Cardinality(T) <= n + unbalanced'[p] + Concurrency
  <2>1. CASE running'[p] + Cardinality(T) <= n + unbalanced'[p] + Concurrency
      BY <2>1
  <2>2. CASE running'[p] + On(r, p, n)' + unbalanced[p]
               <= running[p] + On(r, p, n) + unbalanced'[p]
    <3>1. Cardinality(S) = Cardinality(S \ {r}) + On(r, p, n) /\ On(r, p, n) \in Nat
        BY <1>3, <1>7
    <3>2. Cardinality(T) = Cardinality(S \ {r}) + On(r, p, n)' /\ On(r, p, n)' \in Nat
        BY <1>2, <1>3, <1>8
    <3> QED BY <1>4, <1>5, <1>7, <2>2, <3>1, <3>2
  <2> QED BY <1>6, <2>1, <2>2
<1> QED BY <1>9 DEF T

\* Who is on the way, by where the request is.
LEMMA OnWhere ==
  ASSUME NEW r \in Requests, NEW p \in Pods, NEW n \in Int
  PROVE  /\ On(r, p, n) \in {0, 1}
         /\ pc[r] = "chosen" => On(r, p, n) = IF target[r] = p THEN 1 ELSE 0
         /\ pc[r] = "ratio" => On(r, p, n) = IF misled[r] THEN 0 ELSE 1
         /\ pc[r] \in {"imbalance", "fallback", "least"} =>
              On(r, p, n) = IF ~misled[r] /\ p \in DOMAIN seen[r] /\ seen[r][p] <= n
                            THEN 1 ELSE 0
         /\ pc[r] \in {"idle", "infer", "ratio only", "add", "running", "done", "ended"} =>
              On(r, p, n) = 0
BY DEF On, Toward

LEMMA OnWhereNext ==
  ASSUME NEW r \in Requests, NEW p \in Pods, NEW n \in Int
  PROVE  /\ On(r, p, n)' \in {0, 1}
         /\ pc'[r] = "chosen" => On(r, p, n)' = IF target'[r] = p THEN 1 ELSE 0
         /\ pc'[r] = "ratio" => On(r, p, n)' = IF misled'[r] THEN 0 ELSE 1
         /\ pc'[r] \in {"imbalance", "fallback", "least"} =>
              On(r, p, n)' = IF ~misled'[r] /\ p \in DOMAIN seen'[r] /\ seen'[r][p] <= n
                             THEN 1 ELSE 0
         /\ pc'[r] \in {"idle", "infer", "ratio only", "add", "running", "done", "ended"} =>
              On(r, p, n)' = 0
BY DEF On, Toward

\* What GapsMove asks of a step.
Moves(r) ==
  \A p, q \in Pods, n \in Int : n >= Sent(q)' + Threshold =>
    \/ running'[p] + On(r, p, n)' + unbalanced[p]
         <= running[p] + On(r, p, n) + unbalanced'[p]
    \/ running'[p] + Cardinality(Toward(p, n)') <= n + unbalanced'[p] + Concurrency

\* A request goes to a pod: blindly, or it was on its way already.
LEMMA MovesChoose ==
  ASSUME IInv, IInv', NEW r \in Requests, NEW p \in Pods, Choose(r, p),
         pc[r] # "chosen", UNCHANGED running,
         \/ Blindly(p)
         \/ /\ UNCHANGED unbalanced
            /\ \A q \in Pods, n \in Int : n >= Sent(q)' + Threshold => On(r, p, n) = 1
  PROVE  Moves(r)
<1> SUFFICES ASSUME NEW s \in Pods, NEW q \in Pods, NEW n \in Int, n >= Sent(q)' + Threshold
             PROVE  running'[s] + On(r, s, n)' + unbalanced[s]
                      <= running[s] + On(r, s, n) + unbalanced'[s]
    BY DEF Moves
<1>1. pc'[r] = "chosen" /\ target'[r] = p
    BY DEF Choose, Goto, IInv, Types
<1>2. On(r, s, n)' = (IF s = p THEN 1 ELSE 0)
    BY <1>1 DEF On, Toward
<1>3. On(r, s, n) \in {0, 1}
    BY OnWhere
<1>4. running[s] \in Int /\ unbalanced[s] \in Nat /\ running'[s] = running[s]
    BY DEF IInv, Types
<1>5. \/ unbalanced'[s] = unbalanced[s] + (IF s = p THEN 1 ELSE 0)
      \/ unbalanced'[s] = unbalanced[s] /\ (s = p => On(r, s, n) = 1)
    BY DEF Blindly, IInv, Types
<1> QED BY <1>2, <1>3, <1>4, <1>5

\* A request that has read all the counts and was not misled knows that the pods of
\* the least count are at most where any pod is.
LEMMA MovesLeast ==
  ASSUME IInv, IInv', Seen, NEW r \in Requests, NEW p \in Pods, p \in Least(seen[r]),
         \A q \in Pods : Sent(q)' \in Int /\ Sent(q) \in Int /\ Sent(q)' >= Sent(q),
         DOMAIN seen[r] = Pods, pc[r] \in {"imbalance", "fallback", "least"},
         Choose(r, p), ByLoad(r, p), UNCHANGED running
  PROVE  Moves(r)
<1>1. CASE misled[r]
    BY <1>1, MovesChoose DEF ByLoad
<1>2. CASE ~misled[r]
  <2>1. ASSUME NEW q \in Pods, NEW n \in Int, n >= Sent(q)' + Threshold
        PROVE  On(r, p, n) = 1
    <3>1. /\ seen[r][p] <= seen[r][q] /\ seen[r][q] <= Sent(q)
          /\ seen[r][p] \in Int /\ seen[r][q] \in Int
        BY DEF Least, Seen
    <3>2. seen[r][p] <= n
        BY <2>1, <3>1, HeuristicRoutingConstants
    <3> QED BY <1>2, <3>2, OnWhere
  <2> QED BY <1>2, <2>1, MovesChoose DEF ByLoad
<1> QED BY <1>1, <1>2

\* Steps after which the request is on its way to no pod it was not on its way to.
LEMMA MovesStays ==
  ASSUME IInv, IInv', NEW r \in Requests, UNCHANGED <<running, unbalanced>>,
         \A p, q \in Pods, n \in Int :
           n >= Sent(q)' + Threshold => On(r, p, n)' = 0 \/ On(r, p, n) = 1
  PROVE  Moves(r)
<1> SUFFICES ASSUME NEW s \in Pods, NEW q \in Pods, NEW n \in Int, n >= Sent(q)' + Threshold
             PROVE  running'[s] + On(r, s, n)' + unbalanced[s]
                      <= running[s] + On(r, s, n) + unbalanced'[s]
    BY DEF Moves
<1>1. On(r, s, n) \in {0, 1} /\ On(r, s, n)' \in {0, 1}
    BY OnWhere, OnWhereNext
<1>2. running[s] \in Int /\ unbalanced[s] \in Nat
    BY DEF IInv, Types
<1> QED BY <1>1, <1>2

\* A count that is read when no newer one has been published lacks only additions
\* that are being routed, as are all the requests on their way.
LEMMA MovesRead ==
  ASSUME IInv, IInv', Counting, Cardinality(Routed') <= Concurrency,
         NEW r \in Requests, NEW p \in Pods, ReadCount(r, p)
  PROVE  Moves(r)
<1> USE DEF request, counting
<1>0. /\ pc[r] \in Reading /\ p \notin DOMAIN seen[r]
      /\ seen'[r] = WithCount(seen[r], p, published[p].value)
      /\ misled'[r] = (misled[r] \/ published[p].update < published[p].newest)
      /\ UNCHANGED <<pc, target, running, owed, published, ended, unbalanced>>
    BY DEF ReadCount, IInv, Types
<1>1. /\ DOMAIN seen'[r] = DOMAIN seen[r] \cup {p}
      /\ \A q \in DOMAIN seen[r] \cup {p} :
           seen'[r][q] = IF q = p THEN published[p].value ELSE seen[r][q]
    BY <1>0 DEF WithCount
<1> SUFFICES ASSUME NEW s \in Pods, NEW q \in Pods, NEW n \in Int, n >= Sent(q)' + Threshold
             PROVE  \/ running'[s] + On(r, s, n)' + unbalanced[s]
                         <= running[s] + On(r, s, n) + unbalanced'[s]
                    \/ running'[s] + Cardinality(Toward(s, n)')
                         <= n + unbalanced'[s] + Concurrency
    BY DEF Moves
<1>2. /\ On(r, s, n) \in {0, 1} /\ On(r, s, n)' \in {0, 1}
      /\ running[s] \in Int /\ unbalanced[s] \in Nat
    BY OnWhere, OnWhereNext DEF IInv, Types
<1>3. CASE On(r, s, n)' <= On(r, s, n)
    BY <1>0, <1>2, <1>3
<1>4. CASE On(r, s, n)' = 1 /\ On(r, s, n) = 0
  <2>0. r \in Toward(s, n)' /\ r \notin Toward(s, n)
      BY <1>4 DEF On
  <2>1. /\ pc[r] \in {"imbalance", "fallback", "least"} /\ ~misled'[r]
        /\ s \in DOMAIN seen'[r] /\ seen'[r][s] <= n
    <3>1. \/ pc'[r] = "chosen" /\ target'[r] = s
          \/ pc'[r] = "ratio" /\ ~misled'[r]
          \/ /\ pc'[r] \in {"imbalance", "fallback", "least"} /\ ~misled'[r]
             /\ s \in DOMAIN seen'[r] /\ seen'[r][s] <= n
        BY <2>0 DEF Toward
    <3>2. ~(pc[r] = "ratio" /\ ~misled[r])
        BY <2>0 DEF Toward
    <3>3. pc'[r] = pc[r] /\ pc[r] # "chosen" /\ (misled[r] => misled'[r])
        BY <1>0 DEF Reading, IInv, Types
    <3> QED BY <3>1, <3>2, <3>3
  <2>2. ~misled[r] /\ ~(published[p].update < published[p].newest)
      BY <1>0, <2>1 DEF IInv, Types
  <2>3. s = p /\ published[p].value <= n
    <3>1. s # p => s \in DOMAIN seen[r] /\ seen[r][s] <= n
        BY <1>1, <2>1
    <3>2. s # p => On(r, s, n) = 1
        BY <2>1, <2>2, <3>1, OnWhere
    <3>3. s = p
        BY <1>4, <3>2
    <3> QED BY <1>1, <2>1, <3>3
  <2>4. PICK v \in Int, u \in Int : published[p].value = v /\ published[p].update = u
      BY DEF IInv, Types
  <2>5. published[p].newest = u /\ v <= n
    <3>1. published[p].newest \in Int /\ published[p].update \in Int
        BY DEF IInv, Types
    <3>2. published[p].update <= published[p].newest
        BY DEF Counting, Numbers
    <3> QED BY <2>2, <2>3, <2>4, <3>1, <3>2
  <2>6. running[p] <= v + Cardinality(AddsAfter(p, u))
      BY <2>4, <2>5 DEF Counting, Lacks, Fresh
  <2>7. Cardinality(AddsAfter(p, u)) + Cardinality(Toward(p, n)') <= Concurrency
    <3> DEFINE A == AddsAfter(p, u)
               T == Toward(p, n)'
               R == Routed'
    <3>1. A \subseteq R /\ T \subseteq R /\ A \cap T = {} /\ R \subseteq Requests
        BY <1>0 DEF AddsAfter, Toward, Routed, Reading
    <3>2. Cardinality(R) <= Concurrency
        OBVIOUS
    <3> HIDE DEF A, T, R
    <3>3. IsFiniteSet(A) /\ IsFiniteSet(T) /\ IsFiniteSet(R)
        BY <3>1, FS_Subset, HeuristicRoutingConstants
    <3>4. /\ Cardinality(A \cup T) = Cardinality(A) + Cardinality(T) - Cardinality(A \cap T)
          /\ IsFiniteSet(A \cup T)
        BY <3>3, FS_Union
    <3>5. Cardinality(A \cap T) = 0
        BY <3>1, FS_EmptySet
    <3>6. Cardinality(A \cup T) <= Cardinality(R)
        BY <3>1, <3>3, FS_Subset
    <3>7. /\ Cardinality(A) \in Nat /\ Cardinality(T) \in Nat /\ Cardinality(R) \in Nat
          /\ Concurrency \in Nat
        BY <3>3, FS_CardinalityType, HeuristicRoutingConstants
    <3>8. Cardinality(A) + Cardinality(T) <= Concurrency
        BY <3>2, <3>4, <3>5, <3>6, <3>7
    <3> QED BY <3>8 DEF A, T
  <2>8. /\ Cardinality(AddsAfter(p, u)) \in Nat /\ Cardinality(Toward(p, n)') \in Nat
        /\ Concurrency \in Nat
      BY SizeOf, HeuristicRoutingConstants DEF AddsAfter, Toward
  <2>9. running[p] + Cardinality(Toward(p, n)') <= n + unbalanced[p] + Concurrency
      BY <1>2, <2>3, <2>5, <2>6, <2>7, <2>8
  <2> QED BY <1>0, <2>3, <2>9
<1> QED BY <1>2, <1>3, <1>4

\* A request that has read no pod has no count to lean on.
LEMMA NothingRead ==
  ASSUME NEW s, s = <<>>
  PROVE  \A p : p \notin DOMAIN s
OBVIOUS

\* No step sends a pod more requests than GapsMove allows.
LEMMA MovesStep ==
  ASSUME IInv, IInv', Counting, Seen, Cardinality(Routed') <= Concurrency,
         \A p \in Pods : Sent(p)' \in Int /\ Sent(p) \in Int /\ Sent(p)' >= Sent(p),
         NEW r \in Requests, RequestStep(r)
  PROVE  Moves(r)
<1> USE DEF lmetric, mooncake, counting, request
<1>0. Threshold \in Nat
    BY HeuristicRoutingConstants
<1>1. ASSUME NEW l \in {"least", "imbalance", "ratio only", "infer", "fallback"}, Goto(r, l),
             UNCHANGED <<running, unbalanced>>
      PROVE  Moves(r)
  <2>1. pc'[r] = l /\ seen'[r] = <<>>
      BY <1>1 DEF Goto, IInv, Types
  <2>2. \A p \in Pods : p \notin DOMAIN seen'[r]
      BY <2>1, NothingRead
  <2>3. \A p \in Pods, n \in Int : On(r, p, n)' = 0
      BY <2>1, <2>2 DEF On, Toward
  <2> QED BY <1>1, <2>3, MovesStays
<1>2. CASE Dispatch(r)
    BY <1>1, <1>2 DEF Dispatch
<1>3. ASSUME NEW p \in Pods, Choose(r, p), Blindly(p), pc[r] # "chosen", UNCHANGED running
      PROVE  Moves(r)
    BY <1>3, MovesChoose
<1>4. CASE RouteThreshold(r)
    BY <1>1, <1>3, <1>4 DEF RouteThreshold, Arrive, OverHitThreshold
<1>5. ASSUME NEW p \in Pods, RouteRandom(r, p) \/ InferAnswered(r, p)
      PROVE  Moves(r)
    BY <1>3, <1>5 DEF RouteRandom, InferAnswered, Arrive
<1>6. CASE LMetricScorePods(r)
  <2>1. \E p \in Pods : Choose(r, p) /\ Blindly(p)
      BY <1>6 DEF LMetricScorePods, LMetricBest
  <2> QED BY <1>3, <1>6, <2>1 DEF LMetricScorePods, Arrive
<1>7. CASE MooncakeScorePods(r)
  <2>1. \E p \in Pods : Choose(r, p) /\ Blindly(p)
      BY <1>7 DEF MooncakeScorePods, MooncakeBest
  <2> QED BY <1>3, <1>7, <2>1 DEF MooncakeScorePods, Arrive
<1>8. ASSUME NEW p \in Pods, ReadCount(r, p)
      PROVE  Moves(r)
    BY <1>8, MovesRead
<1>9. ASSUME NEW p \in Pods, ChooseLeast(r, p)
      PROVE  Moves(r)
    BY <1>9, MovesLeast DEF ChooseLeast, AllRead
<1>10. ASSUME NEW tokens \in BOOLEAN, OnLoadImbalance(r, tokens)
       PROVE  Moves(r)
  <2>1. /\ pc[r] \in {"imbalance", "fallback"} /\ DOMAIN seen[r] = Pods
        /\ UNCHANGED <<misled, running>>
      BY <1>10 DEF OnLoadImbalance, AllRead
  <2>2. ASSUME NEW p \in Least(seen[r]), Choose(r, p), ByLoad(r, p)
        PROVE  Moves(r)
    <3>1. p \in Pods
        BY DEF Least
    <3> QED BY <2>1, <2>2, <3>1, MovesLeast
  <2>3. CASE ~Imbalanced(seen[r]) /\ Goto(r, "ratio") /\ UNCHANGED unbalanced
    <3>1. pc'[r] = "ratio" /\ misled'[r] = misled[r]
        BY <2>1, <2>3 DEF Goto, IInv, Types
    <3>2. ASSUME NEW p \in Pods, NEW q \in Pods, NEW n \in Int, n >= Sent(q)' + Threshold
          PROVE  On(r, p, n)' = 0 \/ On(r, p, n) = 1
      <4>1. CASE misled[r]
        <5>1. r \notin Toward(p, n)'
            BY <3>1, <4>1 DEF Toward
        <5> QED BY <5>1 DEF On
      <4>2. CASE ~misled[r]
        <5>1. /\ ~(seen[r][p] - seen[r][q] > Threshold) /\ seen[r][q] <= Sent(q)
              /\ seen[r][p] \in Int /\ seen[r][q] \in Int
            BY <2>1, <2>3 DEF Imbalanced, Seen
        <5>2. seen[r][p] <= n
            BY <1>0, <3>2, <5>1
        <5> QED BY <2>1, <4>2, <5>2, OnWhere
      <4> QED BY <4>1, <4>2
    <3> QED BY <2>1, <2>3, <3>2, MovesStays
  <2>4. CASE Goto(r, "least") /\ UNCHANGED unbalanced
      BY <1>1, <2>1, <2>4
  <2> QED BY <1>10, <2>2, <2>3, <2>4 DEF OnLoadImbalance
<1>11. CASE ChooseByRatio(r)
  <2>1. PICK p \in UNION {RatioAndLoad(seen[r], hit) : hit \in [Pods -> HitRatios]} :
          /\ Choose(r, p)
          /\ IF pc[r] = "ratio only" THEN Blindly(p) ELSE ByLoad(r, p)
      BY <1>11 DEF ChooseByRatio
  <2>2. p \in Pods
      BY <2>1 DEF RatioAndLoad
  <2>3. pc[r] \in {"ratio", "ratio only"} /\ UNCHANGED running
      BY <1>11 DEF ChooseByRatio, AllRead
  <2>4. CASE Blindly(p)
      BY <1>3, <2>1, <2>2, <2>3, <2>4
  <2>5. CASE ~Blindly(p)
    <3>1. pc[r] = "ratio" /\ ~misled[r] /\ UNCHANGED unbalanced
        BY <2>1, <2>3, <2>5 DEF ByLoad
    <3>2. \A n \in Int : On(r, p, n) = 1
        BY <3>1 DEF On, Toward
    <3> QED BY <2>1, <2>2, <2>3, <3>1, <3>2, MovesChoose
  <2> QED BY <2>4, <2>5
<1>12. CASE InferFallback(r)
    BY <1>1, <1>12 DEF InferFallback
<1>13. CASE Publish(r) \/ TakeEntry(r) \/ Subtract(r)
  <2>1. UNCHANGED <<running, unbalanced, target, misled, seen>>
      BY <1>13 DEF Publish, TakeEntry, Subtract
  <2>2. pc' = pc \/ pc'[r] \in {"running", "ended"}
      BY <1>13 DEF Publish, TakeEntry, Subtract, IInv, Types
  <2>3. \A p \in Pods, n \in Int : On(r, p, n)' = 0 \/ On(r, p, n) = 1
      BY <2>1, <2>2 DEF On, Toward
  <2> QED BY <2>1, <2>3, MovesStays
<1>14. ASSUME AddRequestCount(r) \/ DoneRequest(r)
       PROVE  Moves(r)
  <2>1. PICK p \in Pods : target[r] = p
      BY <1>14 DEF AddRequestCount, DoneRequest, IInv, Places, Placed
  <2>2. /\ unbalanced' = unbalanced /\ pc'[r] \in {"add", "done"}
        /\ \/ pc[r] = "chosen" /\ running' = [running EXCEPT ![p] = running[p] + 1]
           \/ pc[r] = "running" /\ running' = [running EXCEPT ![p] = running[p] + (-1)]
      BY <1>14, <2>1 DEF AddRequestCount, DoneRequest, Update, IInv, Types
  <2>3. ASSUME NEW s \in Pods, NEW n \in Int
        PROVE  running'[s] + On(r, s, n)' + unbalanced[s]
                 <= running[s] + On(r, s, n) + unbalanced'[s]
    <3>1. On(r, s, n)' = 0 /\ On(r, s, n) \in {0, 1}
        BY <2>2, OnWhere DEF On, Toward
    <3>2. pc[r] = "chosen" => On(r, s, n) = (IF s = p THEN 1 ELSE 0)
        BY <2>1 DEF On, Toward
    <3>3. running[s] \in Int /\ unbalanced[s] \in Nat /\ unbalanced'[s] = unbalanced[s]
        BY <2>2 DEF IInv, Types
    <3>4. \/ pc[r] = "chosen" /\ running'[s] = running[s] + (IF s = p THEN 1 ELSE 0)
          \/ running'[s] = running[s] - (IF s = p THEN 1 ELSE 0)
        BY <2>2, <3>3 DEF IInv, Types
    <3> QED BY <3>1, <3>2, <3>3, <3>4
  <2> QED BY <2>3 DEF Moves
<1> QED BY <1>2, <1>4, <1>5, <1>6, <1>7, <1>8, <1>9, <1>10, <1>11, <1>12, <1>13, <1>14
        DEF RequestStep

GapInv == Cardinality(Routed) <= Concurrency /\ Counting /\ Seen /\ Gaps

LEMMA GapInvNext ==
  ASSUME IInv, IInv', GapInv, [Next]_vars
  PROVE  GapInv'
<1>1. CASE UNCHANGED vars
  <2> USE <1>1 DEF vars, request, counting
  <2>1. Routed' = Routed
      BY DEF Routed
  <2>2. /\ \A p \in Pods : Owing(p)' = Owing(p) /\ Sent(p)' = Sent(p)
                           /\ LastUpdate(p)' = LastUpdate(p)
        /\ \A p \in Pods, u \in Int : AddsAfter(p, u)' = AddsAfter(p, u)
        /\ \A p \in Pods, n, u \in Int : Fresh(p, n, u)' = Fresh(p, n, u)
        /\ \A p \in Pods, n \in Int : Toward(p, n)' = Toward(p, n)
      BY DEF Owing, AddsAfter, Fresh, Sent, LastUpdate, Toward
  <2>3. Counting'
    <3>1. Numbers'
        BY <2>2 DEF GapInv, Counting, Numbers
    <3>2. Lacks'
        BY <2>2 DEF GapInv, Counting, Lacks
    <3> QED BY <3>1, <3>2 DEF Counting
  <2>4. Seen'
    <3>1. seen' = seen
        OBVIOUS
    <3> QED BY <2>2, <3>1 DEF GapInv, Seen
  <2>5. Gaps'
      BY <2>2 DEF GapInv, Gaps
  <2> QED BY <2>1, <2>3, <2>4, <2>5 DEF GapInv
<1>2. ASSUME NEW r \in Requests, RequestStep(r)
      PROVE  GapInv'
  <2>1. StepOf(r) /\ OthersSame(r)
      BY <1>2, KindOfStep, OthersAreSame DEF IInv
  <2>2. /\ Counting'
        /\ \A p \in Pods : Sent(p)' \in Int /\ Sent(p) \in Int /\ Sent(p)' >= Sent(p)
      BY <2>1, CountingStep DEF GapInv
  <2>3. Cardinality(Routed') <= Concurrency
      BY <1>2, RoutedStep DEF GapInv
  <2>4. Seen'
      BY <1>2, SeenStep DEF GapInv
  <2>5. Moves(r)
      BY <1>2, <2>2, <2>3, MovesStep DEF GapInv
  <2>6. Gaps'
      BY <2>1, <2>2, <2>5, GapsMove DEF GapInv, Moves
  <2> QED BY <2>2, <2>3, <2>4, <2>6 DEF GapInv
<1> QED BY <1>1, <1>2 DEF Next

\* No pod gets further ahead of another than Threshold and the number of requests
\* routed at a time, but for what ended on the other, was sent blindly, or followed a
\* count published out of order: for any number of requests and pods, however the
\* reads, the counting and the publishing of concurrent requests interleave.
THEOREM GapBoundedAlways == Spec => []GapBounded
<1>1. Init => GapInv
  <2> SUFFICES ASSUME Init PROVE GapInv
      OBVIOUS
  <2>0. /\ Cardinality({}) = 0 /\ Concurrency \in Nat /\ Threshold \in Nat
      BY FS_EmptySet, HeuristicRoutingConstants
  <2>1. /\ Routed = {} /\ \A p \in Pods : Owing(p) = {}
        /\ \A p \in Pods, u \in Int : AddsAfter(p, u) = {}
        /\ \A p \in Pods, n \in Int : Toward(p, n) = {}
      BY DEF Init, Routed, Reading, Owing, AddsAfter, Toward
  <2>2. \A p \in Pods : /\ running[p] = 0 /\ ended[p] = 0 /\ unbalanced[p] = 0
                        /\ published[p].value = 0 /\ published[p].update = 0
                        /\ published[p].newest = 0
      BY DEF Init
  <2>3. \A p \in Pods : Sent(p) = 0 /\ LastUpdate(p) = 0
      BY <2>2 DEF Sent, LastUpdate
  <2>4. Numbers
      BY <2>1, <2>2, <2>3 DEF Numbers
  <2>5. Lacks
    <3> SUFFICES ASSUME NEW p \in Pods, NEW n \in Int, NEW u \in Int, Fresh(p, n, u)
                 PROVE  running[p] <= n + Cardinality(AddsAfter(p, u))
        BY DEF Lacks
    <3>1. n = 0
        BY <2>1, <2>2 DEF Fresh
    <3>2. Cardinality(AddsAfter(p, u)) = 0
        BY <2>0, <2>1
    <3> QED BY <2>2, <3>1, <3>2
  <2>6. Seen
    <3>1. \A r \in Requests : seen[r] = <<>>
        BY DEF Init
    <3> QED BY <3>1 DEF Seen
  <2>7. Gaps
    <3> SUFFICES ASSUME NEW p \in Pods, NEW q \in Pods, NEW n \in Int,
                        n >= Sent(q) + Threshold
                 PROVE  running[p] + Cardinality(Toward(p, n))
                          <= n + unbalanced[p] + Concurrency
        BY DEF Gaps
    <3>1. Cardinality(Toward(p, n)) = 0
        BY <2>0, <2>1
    <3> QED BY <2>0, <2>2, <2>3, <3>1
  <2> QED BY <2>0, <2>1, <2>4, <2>5, <2>6, <2>7 DEF GapInv, Counting
<1>2. IInv /\ IInv' /\ GapInv /\ [Next]_vars => GapInv'
    BY GapInvNext
<1>3. IInv /\ GapInv => GapBounded
  <2> SUFFICES ASSUME IInv, GapInv, NEW p \in Pods, NEW q \in Pods
               PROVE  running[p] <= running[q] + ended[q] + unbalanced[p] + Threshold
                                      + Concurrency
      BY DEF GapBounded
  <2>1. PICK n \in Int : n = Sent(q) + Threshold
      BY HeuristicRoutingConstants DEF Sent, IInv, Types
  <2>2. running[p] + Cardinality(Toward(p, n)) <= n + unbalanced[p] + Concurrency
    <3>1. n >= Sent(q) + Threshold
        BY <2>1
    <3> QED BY <3>1 DEF GapInv, Gaps
  <2>3. Cardinality(Toward(p, n)) \in Nat
      BY SizeOf DEF Toward
  <2>4. /\ running[p] \in Int /\ running[q] \in Int /\ ended[q] \in Nat
        /\ unbalanced[p] \in Nat /\ Threshold \in Nat /\ Concurrency \in Nat
      BY HeuristicRoutingConstants DEF IInv, Types
  <2> QED BY <2>1, <2>2, <2>3, <2>4 DEF Sent
<1> QED BY <1>1, <1>2, <1>3, IInvAlways, PTL DEF Spec
=============================================================================
