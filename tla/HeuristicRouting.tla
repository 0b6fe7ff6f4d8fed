-------------------------- MODULE HeuristicRouting --------------------------
(***************************************************************************)
(* How the RL router of the gateway picks a pod (rl_routing.go), with the  *)
(* heuristics it dispatches to.  Requests are routed concurrently: a       *)
(* heuristic reads the request counts of the pods one by one, without a    *)
(* lock; the chosen pod is counted only after the choice, and its new      *)
(* count published after that, maybe over a newer one.  LMETRIC and        *)
(* MOONCAKE instead score and reserve in one critical section, and give    *)
(* the reservation back in two: the request's entry, then the pod's count. *)
(***************************************************************************)
EXTENDS Integers, FiniteSets, FiniteSetsExt

CONSTANTS
  Requests, Pods, NoPod,
  Policies,       \* the sub-algorithms in use
  Concurrency,    \* bound: the requests routed at a time
  Threshold,      \* podRunningRequestImbalanceAbsCount
  Factor,         \* standardDeviationFactor
  HitThreshold,   \* prefixHitThreshold, in per cent
  HitRatios,      \* the prefix hit ratios, in per cent
  PromptSizes,    \* the numbers of input tokens
  Speed           \* the speed of each pod, from its GPU model

AllPolicies ==
  {"least_request", "prefix_cache_1", "prefix_cache_2",
   "prefix_hit_threshold_or_least_request", "random", "lmetric", "mooncake",
   "lodestar"}

ASSUME HeuristicRoutingConstants ==
  /\ IsFiniteSet(Requests) /\ Policies \subseteq AllPolicies
  /\ NoPod \notin Pods /\ Concurrency \in Nat /\ Threshold \in Nat /\ Factor \in Nat
  /\ HitRatios \subseteq 0..100 /\ PromptSizes \subseteq Nat
  /\ Speed \in [Pods -> Nat \ {0}]

VARIABLES
  pc,             \* where the request is
  seen,           \* the request counts read so far
  target,         \* the chosen pod
  running,        \* the pod's runningRequests
  published,      \* the pod's RealtimeNumRequestsRunning: the value, the update of
                  \* the pod it is of, and (history) the newest update published
  owed,           \* the value and the update that the request has yet to publish
  podNewPrefillTokens, requestNewPrefillTokens,   \* LMETRIC
  mooncakeVirtualQueue, mooncakeRequestPod,       \* MOONCAKE
  taken,          \* between two locks: the tokens to subtract, the pod to release
  ended,          \* history: the requests that ended on the pod
  misled,         \* history: the request read a count published over a newer one
  unbalanced,     \* history: the requests sent to the pod without a look at its load,
                  \* or misled
  reserved        \* history: the reservations MOONCAKE made on the pod

request == <<pc, seen, target, misled>>
counting == <<running, published, owed>>
lmetric == <<podNewPrefillTokens, requestNewPrefillTokens>>
mooncake == <<mooncakeVirtualQueue, mooncakeRequestPod, reserved>>
vars == <<request, counting, lmetric, mooncake, taken, ended, unbalanced>>

\* The phases that read the counts: of prefix_cache_1 (as a policy, and as the
\* fallback of lodestar), of prefix_cache_2, and of least_request.
Reading == {"imbalance", "fallback", "ratio", "ratio only", "least"}

NothingTaken == [tokens |-> 0, pod |-> NoPod]

Init ==
  /\ pc = [r \in Requests |-> "idle"]
  /\ seen = [r \in Requests |-> <<>>] /\ target = [r \in Requests |-> NoPod]
  /\ running = [p \in Pods |-> 0]
  /\ published = [p \in Pods |-> [value |-> 0, update |-> 0, newest |-> 0]]
  /\ owed = [r \in Requests |-> [value |-> 0, update |-> 0]]
  /\ misled = [r \in Requests |-> FALSE]
  /\ podNewPrefillTokens = [p \in Pods |-> 0]
  /\ requestNewPrefillTokens = [r \in Requests |-> 0]
  /\ mooncakeVirtualQueue = [p \in Pods |-> 0]
  /\ mooncakeRequestPod = [r \in Requests |-> NoPod]
  /\ taken = [r \in Requests |-> NothingTaken]
  /\ ended = [p \in Pods |-> 0] /\ unbalanced = [p \in Pods |-> 0]
  /\ reserved = [p \in Pods |-> 0]

-----------------------------------------------------------------------------
\* The choices, given the counts read.

Least(counts) == {p \in Pods : \A q \in Pods : counts[p] <= counts[q]}

\* getTargetPodOnLoadImbalance
Imbalanced(counts) == \E p, q \in Pods : counts[p] - counts[q] > Threshold

\* More than the mean and Factor sample standard deviations, in integers.
Overloaded(counts, p) ==
  LET n == Cardinality(Pods)
      sum == MapThenSumSet(LAMBDA q : counts[q], Pods)
      squares == MapThenSumSet(LAMBDA q : counts[q] * counts[q], Pods)
      excess == n * counts[p] - sum
  IN  /\ excess > 0
      /\ excess * excess * (n - 1) > Factor * Factor * n * (n * squares - sum * sum)

\* routePrefixRatioAndLoad: the pods that come first by hit ratio, then by count,
\* among those that are not overloaded.
RatioAndLoad(counts, hit) ==
  LET fit == {p \in Pods : ~Overloaded(counts, p)}
      Before(p, q) == hit[p] > hit[q] \/ (hit[p] = hit[q] /\ counts[p] < counts[q])
  IN  {p \in fit : ~\E q \in fit : Before(q, p)}

\* The pods over the hit threshold that have the highest hit ratio.
OverHitThreshold(hit) ==
  {p \in Pods : hit[p] > HitThreshold /\ \A q \in Pods : hit[q] <= hit[p]}

NewTokens(n, hit) == (n * (100 - hit)) \div 100

\* The minimum of score, ties by the smaller batch.
LMetricBest(n, hit, batch) ==
  LET Score(p) == (podNewPrefillTokens[p] + NewTokens(n, hit[p])) * (batch[p] + 1)
      Before(p, q) == Score(p) < Score(q) \/ (Score(p) = Score(q) /\ batch[p] < batch[q])
  IN  {p \in Pods : ~\E q \in Pods : Before(q, p)}

\* Mutant of MooncakeBest: the virtual queue is left out.
MooncakeBestByBatch(batch) ==
  {p \in Pods : ~\E q \in Pods :
                    (batch[q] + 1) * Speed[p] < (batch[p] + 1) * Speed[q]}

\* The minimum of queue / speed, ties by the shorter queue (then by address).
MooncakeBest(batch) ==
  LET Queue(p) == batch[p] + mooncakeVirtualQueue[p] + 1
      Before(p, q) == \/ Queue(p) * Speed[q] < Queue(q) * Speed[p]
                      \/ Queue(p) * Speed[q] = Queue(q) * Speed[p] /\ Queue(p) < Queue(q)
  IN  {p \in Pods : ~\E q \in Pods : Before(q, p)}

\* What the scraped metrics say is running and waiting on the pods: they are as old
\* as the last scrape, and count no request that was not sent.
Batches ==
  {b \in [Pods -> 0..Cardinality(Requests)] : \A p \in Pods : b[p] <= running[p] + ended[p]}

-----------------------------------------------------------------------------
Goto(r, l) == pc' = [pc EXCEPT ![r] = l] /\ seen' = [seen EXCEPT ![r] = <<>>]

Choose(r, p) == Goto(r, "chosen") /\ target' = [target EXCEPT ![r] = p]

Blindly(p) == unbalanced' = [unbalanced EXCEPT ![p] = @ + 1]

ByLoad(r, p) == IF misled[r] THEN Blindly(p) ELSE UNCHANGED unbalanced

Routed == {r \in Requests : pc[r] \in Reading \cup {"infer", "chosen", "add"}}

\* A request of a policy comes in.
Arrive(r, policy) ==
  pc[r] = "idle" /\ policy \in Policies /\ Cardinality(Routed) < Concurrency

\* Route, up to the policy's first read of the counts or its request to the service.
Dispatch(r) ==
  /\ \/ Arrive(r, "least_request") /\ Goto(r, "least")
     \/ Arrive(r, "prefix_cache_1") /\ Goto(r, "imbalance")
     \/ Arrive(r, "prefix_cache_2") /\ Goto(r, "ratio only")
     \/ Arrive(r, "lodestar") /\ Goto(r, "infer")
  /\ UNCHANGED <<target, misled, counting, lmetric, mooncake, taken, ended, unbalanced>>

\* routePrefixHitThresholdOrLeastRequest
RouteThreshold(r) ==
  /\ Arrive(r, "prefix_hit_threshold_or_least_request")
  /\ \E hit \in [Pods -> HitRatios] :
       \/ \E p \in OverHitThreshold(hit) : Choose(r, p) /\ Blindly(p)
       \/ /\ OverHitThreshold(hit) = {}
          /\ Goto(r, "least") /\ UNCHANGED <<target, unbalanced>>
  /\ UNCHANGED <<misled, counting, lmetric, mooncake, taken, ended>>

\* selectRandomPod; so it looks for the policies that go by scraped metrics.
RouteRandom(r, p) ==
  /\ Arrive(r, "random")
  /\ Choose(r, p) /\ Blindly(p)
  /\ UNCHANGED <<misled, counting, lmetric, mooncake, taken, ended>>

\* LMetricScorePods, and the choice it stands for.
LMetricScorePods(r) ==
  /\ Arrive(r, "lmetric")
  /\ \E n \in PromptSizes, hit \in [Pods -> HitRatios], batch \in Batches :
       \E p \in LMetricBest(n, hit, batch) :
         LET new == NewTokens(n, hit[p]) IN
         /\ podNewPrefillTokens' = [podNewPrefillTokens EXCEPT ![p] = @ + new]
         /\ requestNewPrefillTokens' = [requestNewPrefillTokens EXCEPT ![r] = new]
         /\ Choose(r, p) /\ Blindly(p)
  /\ UNCHANGED <<misled, counting, mooncake, taken, ended>>

\* MooncakeScorePods, and the choice it stands for.
MooncakeScorePods(r) ==
  /\ Arrive(r, "mooncake")
  /\ \E batch \in Batches : \E p \in MooncakeBest(batch) :
       /\ mooncakeVirtualQueue' = [mooncakeVirtualQueue EXCEPT ![p] = @ + 1]
       /\ mooncakeRequestPod' = [mooncakeRequestPod EXCEPT ![r] = p]
       /\ reserved' = [reserved EXCEPT ![p] = @ + 1]
       /\ Choose(r, p) /\ Blindly(p)
  /\ UNCHANGED <<misled, counting, lmetric, taken, ended>>

\* The counts read, with pod p's.
WithCount(c, p, n) == [q \in DOMAIN c \cup {p} |-> IF q = p THEN n ELSE c[q]]

\* Mutant of ReadCount: the pod is looked up by its address, and what is not found
\* counts as 0.
ReadCountByIP(r, p) ==
  /\ pc[r] \in Reading /\ p \notin DOMAIN seen[r]
  /\ seen' = [seen EXCEPT ![r] = WithCount(@, p, 0)]
  /\ UNCHANGED <<pc, target, misled, counting, lmetric, mooncake, taken, ended,
                 unbalanced>>

\* getRequestCounts, one pod.
ReadCount(r, p) ==
  /\ pc[r] \in Reading /\ p \notin DOMAIN seen[r]
  /\ seen' = [seen EXCEPT ![r] = WithCount(@, p, published[p].value)]
  /\ misled' = [misled EXCEPT ![r] = @ \/ published[p].update < published[p].newest]
  /\ UNCHANGED <<pc, target, counting, lmetric, mooncake, taken, ended, unbalanced>>

AllRead(r, l) == pc[r] = l /\ DOMAIN seen[r] = Pods

\* selectTargetPodWithLeastRequestCount
ChooseLeast(r, p) ==
  /\ AllRead(r, "least") /\ p \in Least(seen[r])
  /\ Choose(r, p) /\ ByLoad(r, p)
  /\ UNCHANGED <<misled, counting, lmetric, mooncake, taken, ended>>

\* routeWithPrefixCache1 after getTargetPodOnLoadImbalance.  The prompt of a
\* fallback may have no tokens, and then there are no hit ratios.
OnLoadImbalance(r, tokens) ==
  /\ (tokens /\ AllRead(r, "imbalance")) \/ AllRead(r, "fallback")
  /\ \/ /\ tokens /\ Imbalanced(seen[r])
        /\ \E p \in Least(seen[r]) : Choose(r, p) /\ ByLoad(r, p)
     \/ /\ tokens /\ ~Imbalanced(seen[r])
        /\ Goto(r, "ratio") /\ UNCHANGED <<target, unbalanced>>
     \/ ~tokens /\ Goto(r, "least") /\ UNCHANGED <<target, unbalanced>>
  /\ UNCHANGED <<misled, counting, lmetric, mooncake, taken, ended>>

\* routePrefixRatioAndLoad, which reads the counts again.
ChooseByRatio(r) ==
  /\ AllRead(r, "ratio") \/ AllRead(r, "ratio only")
  /\ \E p \in UNION {RatioAndLoad(seen[r], hit) : hit \in [Pods -> HitRatios]} :
       /\ Choose(r, p)
       /\ IF pc[r] = "ratio only" THEN Blindly(p) ELSE ByLoad(r, p)
  /\ UNCHANGED <<misled, counting, lmetric, mooncake, taken, ended>>

\* The service answers with a ready pod, and the agent trusts its choice.
InferAnswered(r, p) ==
  /\ pc[r] = "infer"
  /\ Choose(r, p) /\ Blindly(p)
  /\ UNCHANGED <<misled, counting, lmetric, mooncake, taken, ended>>

\* It does not answer in time, or not with JSON, or names a pod that is not ready,
\* or says that the request is out of distribution: fallbackRouting.
InferFallback(r) ==
  /\ pc[r] = "infer"
  /\ Goto(r, "fallback")
  /\ UNCHANGED <<target, misled, counting, lmetric, mooncake, taken, ended, unbalanced>>

\* An update of a pod's runningRequests; its publication is a step of its own.
Update(r, p, d) ==
  LET n == running[p] + d IN
  /\ running' = [running EXCEPT ![p] = n]
  /\ owed' = [owed EXCEPT ![r] = [value |-> n, update |-> n + 2 * ended'[p]]]

\* AddRequestCount, after selectTargetPod has returned.
AddRequestCount(r) ==
  /\ pc[r] = "chosen"
  /\ pc' = [pc EXCEPT ![r] = "add"]
  /\ UNCHANGED ended /\ Update(r, target[r], 1)
  /\ UNCHANGED <<seen, target, misled, published, lmetric, mooncake, taken,
                 unbalanced>>

\* updatePodRecord
Publish(r) ==
  LET p == target[r] IN
  /\ pc[r] \in {"add", "done"}
  /\ pc' = [pc EXCEPT ![r] = IF @ = "add" THEN "running" ELSE "ended"]
  /\ published' = [published EXCEPT ![p] =
                     [value |-> owed[r].value, update |-> owed[r].update,
                      newest |-> Max({@.newest, owed[r].update})]]
  /\ owed' = [owed EXCEPT ![r] = [value |-> 0, update |-> 0]]
  /\ UNCHANGED <<seen, target, misled, running, lmetric, mooncake, taken, ended,
                 unbalanced>>

\* Mutant of TakeEntry: the entry is left in the map.
TakeEntryKept(r) ==
  /\ pc[r] = "running" /\ taken[r] = NothingTaken
  /\ \/ /\ requestNewPrefillTokens[r] > 0
        /\ taken' = [taken EXCEPT ![r].tokens = requestNewPrefillTokens[r]]
     \/ /\ mooncakeRequestPod[r] # NoPod
        /\ taken' = [taken EXCEPT ![r].pod = mooncakeRequestPod[r]]
  /\ UNCHANGED <<request, counting, lmetric, mooncake, ended, unbalanced>>

\* DecrementNewPrefillTokensForRequest (with the first token, or an early end) or
\* DecrementMooncakeVirtualQueue (at the end), the first lock: the entry is removed.
TakeEntry(r) ==
  /\ pc[r] = "running" /\ taken[r] = NothingTaken
  /\ \/ /\ requestNewPrefillTokens[r] > 0
        /\ taken' = [taken EXCEPT ![r].tokens = requestNewPrefillTokens[r]]
        /\ requestNewPrefillTokens' = [requestNewPrefillTokens EXCEPT ![r] = 0]
        /\ UNCHANGED mooncake
     \/ /\ mooncakeRequestPod[r] # NoPod
        /\ taken' = [taken EXCEPT ![r].pod = mooncakeRequestPod[r]]
        /\ mooncakeRequestPod' = [mooncakeRequestPod EXCEPT ![r] = NoPod]
        /\ UNCHANGED <<mooncakeVirtualQueue, reserved, requestNewPrefillTokens>>
  /\ UNCHANGED <<request, counting, podNewPrefillTokens, ended, unbalanced>>

ClampedSub(a, b) == IF a - b < 0 THEN 0 ELSE a - b

\* The second lock: the pod's counter, clamped at 0.  LMETRIC subtracts from the
\* pod the request was routed to.
Subtract(r) ==
  /\ taken[r] # NothingTaken
  /\ taken' = [taken EXCEPT ![r] = NothingTaken]
  /\ podNewPrefillTokens' =
       [podNewPrefillTokens EXCEPT ![target[r]] = ClampedSub(@, taken[r].tokens)]
  /\ mooncakeVirtualQueue' =
       [p \in Pods |-> IF p = taken[r].pod THEN ClampedSub(mooncakeVirtualQueue[p], 1)
                                           ELSE mooncakeVirtualQueue[p]]
  /\ UNCHANGED <<request, counting, requestNewPrefillTokens, mooncakeRequestPod,
                 reserved, ended, unbalanced>>

\* DoneRequestCount or DoneRequestTrace.  A plain response gives nothing back to
\* LMETRIC (GatewayRequest has the order of the cleanups).
DoneRequest(r) ==
  /\ pc[r] = "running" /\ taken[r] = NothingTaken /\ mooncakeRequestPod[r] = NoPod
  /\ pc' = [pc EXCEPT ![r] = "done"]
  /\ ended' = [ended EXCEPT ![target[r]] = @ + 1] /\ Update(r, target[r], -1)
  /\ UNCHANGED <<seen, target, misled, published, lmetric, mooncake, taken,
                 unbalanced>>

RequestStep(r) ==
  \/ Dispatch(r)
  \/ RouteThreshold(r)
  \/ \E p \in Pods : RouteRandom(r, p)
  \/ LMetricScorePods(r)
  \/ MooncakeScorePods(r)
  \/ \E p \in Pods : ReadCount(r, p)
  \/ \E p \in Pods : ChooseLeast(r, p)
  \/ \E tokens \in BOOLEAN : OnLoadImbalance(r, tokens)
  \/ ChooseByRatio(r)
  \/ \E p \in Pods : InferAnswered(r, p)
  \/ InferFallback(r)
  \/ AddRequestCount(r)
  \/ Publish(r)
  \/ TakeEntry(r)
  \/ Subtract(r)
  \/ DoneRequest(r)

Next == \E r \in Requests : RequestStep(r)

Spec == Init /\ [][Next]_vars

-----------------------------------------------------------------------------
\* The requests that chose by the counts leave no pod more than Threshold +
\* Concurrency ahead of another, however their reads and their counting interleave:
\* what a pod is ahead beyond that ended on the other, or was sent to it blindly or
\* by a count published out of order (prefix_cache.go:312-340,
\* rl_routing.go:1005-1032, cache_trace.go:46-81).
GapBounded ==
  \A p, q \in Pods :
    running[p] <= running[q] + ended[q] + unbalanced[p] + Threshold + Concurrency

\* MOONCAKE's queues stay in proportion to the speed, although the batch it reads
\* is old and counts requests the queue counts as well (kvcache.go:3551-3600).
QueuesFollowSpeed ==
  \A p, q \in Pods :
    mooncakeVirtualQueue[p] * Speed[q]
      <= (reserved[q] + running[q] + ended[q] + 1) * Speed[p]

\* What LMETRIC still has to take back for each request.
ReservedTokens ==
  [r \in Requests |-> requestNewPrefillTokens[r] + taken[r].tokens]

\* The pods' counters are what the requests' entries add up to, with what is between
\* the two locks of a release: no release is lost or made twice, and the clamp at 0
\* never hides one (kvcache.go:3450-3519, 3605-3660).
ReservationsExact ==
  \A p \in Pods :
    /\ podNewPrefillTokens[p] =
         MapThenSumSet(LAMBDA r : ReservedTokens[r], {r \in Requests : target[r] = p})
    /\ mooncakeVirtualQueue[p] =
         Cardinality({r \in Requests : p \in {mooncakeRequestPod[r], taken[r].pod}})
=============================================================================
