# Lodestar: a TLA+ verification project

Lodestar routes LLM requests to vLLM instances with a learned model. A *stateful gateway* (Go, an
Envoy external processor on top of AIBrix) tracks the load each request puts on each pod and asks a
*routing service* (Python) which pod to use; the service serves a reward predictor and retrains it
online from the latencies the gateway reports. This directory models the parts of both where
threads, frames and failures interleave, checks them with TLC and proves the central invariants
with TLAPS.

## Inventory

Paths are relative to `src/`; `agent_codes/` is `python/routing_agent_service/agent_codes/`.

| Component | State | Operations | Interacts through | Correct when |
| --- | --- | --- | --- | --- |
| **Request lifecycle** `pkg/plugins/gateway/gateway*.go` | locals of `Process` (`completed`, `requestCounted`, `inflightCleaned`), `RequestTimings` | request headers and body, response headers and body frames, deferred cleanup | one goroutine per request; shared counters | each request is counted and taken back exactly once on every exit path |
| **Load counters** `pkg/utils/kvcache.go` | inflight, prefill and decode counts per pod; LMETRIC and Mooncake reservations | increments and decrements under one mutex each | written by the lifecycle, read by the routers | they describe the requests in flight |
| **Request counts** `pkg/cache/cache_impl.go`, `cache_trace.go` | `pendingRequests`, `runningRequests`, request traces | `AddRequestCount`, `DoneRequestCount`, `DoneRequestTrace` | called by the lifecycle | balanced; a trace is recycled only when nobody uses it |
| **Per-request state** `gateway.go`, `kvcache.go` | some thirty maps keyed by the request | filled by `Route` and the handlers, emptied by the end of a body or by `cleanupPerRequestState` | read for the log line | an ended request leaves nothing behind |
| **RL routing** `algorithms/rl_routing.go` | pre-computed heuristic choice, log buffer | `Route`, `FlushLogMessageToRLAgent` | HTTP to `/infer` and `/flush` | a pod is always chosen; reservations add up; no log line is sent twice, and the buffer is emptied |
| **Heuristic routers** `algorithms/least_request.go`, `prefix_cache.go`, `kvcache.go` | none, or reservations | `Route` | read published counts, one pod at a time | load differs by no more than concurrency explains |
| **Prefix table** `utils/prefixcacheindexer/hash.go`, `utils/lrustore/lru_store.go` | blocks with the pods they were sent to, an LRU list | `AddPrefix`, `MatchPrefix`, `evict` | two locks, one inside the other | a recorded prompt is found; least recently used goes first |
| **Rate limiter** `gateway_ratelimit.go`, `ratelimiter/redis.go` | RPM and TPM counts in Redis | check, then increment | requests and gateways share Redis | a user stays within the limit |
| **Pod cache** `pkg/cache/informers.go`, `utils/registry.go` | pods, models, the mappings between them, a cached array per model | handlers of two informers; `ListPodsByModel` | one lock for the handlers, none for requests | both mappings agree; the list is current |
| **Training data** `agent_codes/routing_agent_service.py`, `replay_buffer.py` | `OFFLINE_DF`, `ONLINE_DF`, counters, replay buffer and its file | `handle_flush`, `online_train_routine` | `TRAINING_DF_LOCK`, unlocked globals, scheduler | samples are kept, bounded, and trained on; rounds start and end |
| **Reward predictor** `agent_codes/reward_predictor.py` | `_cached_agent`, reload flags, `reward_net.pth` | `infer_from_tensor`, `_async_reload`, `train` | `_agent_lock`, `MODEL_UPDATED`, the file | the model that is served is the one last saved; a round trains one model |
| **Read-write lock** `agent_codes/rwlock.py` | three counters, two condition variables | acquire and release for readers and writers | guards model creation and prediction | exclusion, writer priority, no lost wake-up |
| Preprocessing, normalisation, encoding, rewards, shift detection | numeric | batch functions | called by the trainer and `/infer` | numeric code, outside this project |
| Kubernetes controllers, webhooks, metadata service, AIBrix runtime, benchmarks, manifests | - | - | - | inherited or auxiliary, outside the router |

What is hard in this code: three Python threads (request handler, trainer, reload threads) share
globals with locks on some of the accesses; the gateway has five places that take a request's
counters back and must do it once between them; a restart keeps one file out of all the state; and
frames of a response may stop anywhere. Routers read counts that other requests are changing, and
the pod cache, the prefix table and Redis are each read in several steps under locks that do not
cover them all. `PROJECT.json` lists the hazards one by one, each at its
line, with the properties that guard against it.

## Modules

| Module | Models |
| --- | --- |
| `RWLockSpec` | abstract writer-priority lock, from the class docstring |
| `RWLock` | `rwlock.RWLock`; refines `RWLockSpec` |
| `TrainingData` | `handle_flush` and the contextual-bandit branch of `online_train_routine`, with restarts |
| `MCTrainingData` | the settings of its run: one for each of the three ways to select, one without a trainer |
| `ModelReload`, `MCModelReload` | `infer_from_tensor`, `_async_reload`, `train`, `save` and the flags between them; the second adds symmetry |
| `GatewayRequest` | `Process` and its handlers, the counters and the reservations |
| `RequestState` | extends `GatewayRequest`: the per-request maps, the path through `Route`, the log lines and their flush |
| `HeuristicRouting`, `MCHeuristicRouting` | the choices of `Route`, the counts they read and the reservations they make |
| `PrefixTable`, `MCPrefixTable` | `PrefixHashTable` over `LRUStore` |
| `RateLimit` | `checkLimits`, the token count, the fixed-window keys |
| `CacheStore`, `MCCacheStore` | the informer handlers, the pod registry, request counts on the cache |
| `ModelReloadProofs`, `RateLimitProofs`, `HeuristicRoutingProofs`, `PrefixTableProofs`, `CacheStoreProofs` | theorems about the module of that name |
| `ServiceProofs` | theorems about `RWLock` and `TrainingData` |
| `GatewayProofs` | theorems about `GatewayRequest` and `RequestState` |
| `SetSums` | lemmas: sums over finite sets, induction over finite sets |

### RWLock

A thread is idle, asleep in `wait()`, notified (`rWake`, `wWake`), or holds the lock. A critical
section under `_lock` is one step; `wait()` splits it. `notify` may wake any sleeper (CPython wakes
the oldest, the properties do not need that). Spurious wake-ups, which `threading.Condition` does
not have, are not modelled.

*Run `rwlock`* (four threads, 1078 states). The counters match the threads, writers are alone, no
wake-up is lost, a waiting writer is followed by some writer that gets the lock, readers get in once
no writer is left, and every step is a step of `RWLockSpec`. Four threads allow two readers and two
writers at once, which is what the wake-up logic distinguishes. Fairness: a notified thread runs and
a holder leaves its `with` block; no thread has to ask for the lock. The stronger claim that every
individual writer is served is not made: the mutex gives no such guarantee.

### TrainingData

A row is its id, sequence number and collection round. `handle_flush` is three steps: the locked
append, and the load and the store of `NUM_NEW_DATA += n`, because the trainer resets the variable
without a lock. The trainer is one thread with a step per critical section: guards, copy, selection
and eviction, replay update, training, statistics and monitors, publication, reset. The
gradient-based selection is any sample of the right size, the TTFT filter keeps any prefix count of a
batch. A round may fail at any step of the `try` block: before it has learned, while it learns or saves,
or after that, when the statistics are written (`TrainFail` from `"stats"`). The history variable `trained`
has the rows of the rounds that finished. `Restart` keeps `replay_buffer.pkl` and nothing else; a save of
that file that fails is taken to leave the old one, whereas `pickle.dump` writes in place
(`replay_buffer.py:329-336`) and a torn file would keep the service from starting. Flask runs with
`threaded=False`, so one flush at a time.

The settings of the environment that choose between the three ways to select, and whether
`ROUTING_STRATEGY` names a trainer (`HAS_TRAINER`), are a variable that never changes, so one run covers
them all.

*Run `training`*: two pools (FIFO_SIZE = REPLAY_SIZE = 1), no pools (MAX_TOTAL_DATA = 2), or continual
learning on the new batch only, and a strategy without a trainer, with batches of 1 or 2, three samples,
one offline row and one restart. The store and the training set are bounded, rows keep their order, no
sample is passed over (without pools), none that a finished round has trained on is repeated (continual
learning), and, with a strategy that has a trainer, a round starts when enough samples are counted and
ends even if it fails. Without one, `RoundStarts` and `RoundEnds` claim nothing: the code violates both (see below).

Pools of one row already overflow with two batches, and three rounds give a row an age of 0, 1 and
2, which is what the selection tells apart. Fairness: the scheduler calls the routine every 30 s and
both threads run; no sample has to arrive.

### ModelReload

Weights are where they came from (random or pretrained) and the list of rounds whose epochs they
have learned. The `/infer` handler, any number of reload threads and the trainer interleave at each
access to a shared variable; `_agent_lock` is explicit. `torch.save` truncates and then writes, so a
reader may meet a torn file. A round may fail while it learns, while it saves, and after the file is
complete (the rest of `save`, the plots, the statistics), when no update is published. The strategies that have a
trainer are modelled; they do not preload. The early returns of `train` (`reward_predictor.py:957-981`) need
an encoding that the routine has just written to be missing or empty, and are left out.

- `reload_scratch`: two request shapes, two reload threads, two epochs, two rounds and a failing one,
  from scratch. One reload at a time, one per published update, every answer comes from a complete
  agent, and a round that no other thread disturbs saves exactly its epochs on the right base.
- `reload_live`: continual learning, one reload thread (by `AtMostOneReload` there is never a second),
  two rounds. Every request and every reload ends, also if the reload meets a torn file, and an
  undisturbed round continues the file it started from. Fairness: threads run; a reload gets a lock
  that requests only hold for moments (strong fairness, `threading.Lock` has no queue but also no
  barging loop here).

Two epochs let a reload fall between them, two rounds separate the first round, which is always from
scratch, from the others. Requests and reload threads are interchangeable, so `reload_scratch` uses
symmetry; the liveness run does not.

### GatewayRequest

One process per request: its frames come in order, and it may exit at any point, which runs the
deferred cleanup. Every counter has its own mutex and is only added to, so a handler is one step:
other goroutines' additions commute with it. A frame carries any number of tokens, perhaps the usage,
perhaps the end, or breaks off. A plain body comes in one frame or several.

*Run `gateway`*: two requests over two pods with all sub-algorithms and all kinds of response. Inflight,
pending and running counts are exact; prefill and decode counters equal the requests and tokens in
each phase, on every pod that has had no plain response and no stream without content (`Regular`);
reservations end with their phase, with the exceptions `ReservationsMatch` names.

Two requests on one pod, or on two, are enough for one to disturb the counters of another; two
tokens separate the first from the following ones.

### RequestState

Every action is an action of `GatewayRequest` conjoined with what it does to the maps, so the two
cleanups run exactly where they do in the code. A map is its name, and the state is which maps hold
an entry for which request. `RoutePaths` are the ways through `Route`, which differ in what they fill:
it is not called, returns early for the first request, dispatches a heuristic, cannot reach the
service, gets something that does not parse, or gets an answer. The end of a body writes a log line;
the flush goroutine counts, marshals, posts and clears in separate steps, and the service may handle
the POST although the client gives up.

*Run `request_state`*: two requests, one pod, one token. `NothingElseLeft` says, for each way a request
can end, exactly which entries may remain (see below); `PostedAtMostOnce` and `LinesAreFlushed` are about
the flush. Fairness: the ticker fires and the HTTP client has a timeout of 500 ms, so the flush
goroutine always proceeds; no request has to. One token already separates the prefill from the decode
phase, and the maps of one request do not depend on the pod.

### HeuristicRouting

A request reads the published counts pod by pod, chooses, is counted, and publishes the new count,
each as a step; LMETRIC and Mooncake score and reserve in one (`LMetricScorePods` and
`MooncakeScorePods` hold their mutex throughout), and release in two. Policies that go by scraped
metrics are any choice. Hit ratios, prompt sizes and scraped batches are any of small sets; a batch is
never more than what was sent to the pod. Standard deviations are compared as integers. The history
variables `unbalanced`, `ended` and `misled` count what the bound of `GapBounded` has to allow for: requests
sent without a look at the load, requests that ended, and requests that read a count which a slower
request had published over a newer one. The rollbacks of LMETRIC and Mooncake are left out: the
pre-computed pod is one of the ready pods, so no path of `Route` overrides it; `lmetric.go`, which
holds the LMETRIC side of this, is not in the repository.

The pods are fixed: a pod update, which resets `runningRequests` and the published metric
(`informers.go:133-153`), is in `CacheStore` and not here, so `GapBounded` is about pods that are not updated
meanwhile. A scraped batch counts only what this router has sent; vLLM's metric also has the requests of
other gateways and those without a routing strategy, and `QueuesFollowSpeed` says nothing about those.

*Run `heuristic_routing`*: three requests, two of them routed at a time, three pods of two speeds, all
eight policies. Three pods are the least for which a standard deviation can exclude one and leave a
choice, and two concurrent requests are what the herd effect needs. Four requests with the
count-based policies, and two pods, were checked once with the same result.

### PrefixTable

A block's hash stands for the prefix that ends with it. A thread in `AddPrefix` or `MatchPrefix` holds the
table's lock; the eviction takes only the store's, so it runs between any two blocks and between the
`Get` and the `Put` of one. Eviction scans under the read lock and then looks at each key again.

*Run `prefix_table`*: two threads, two prompts with a common first block, two pods, room for two of
the three blocks, a clock of four ticks with a time to live of one. The capacity is exceeded by
recording both prompts and not by recording one, and entries expire and are renewed while an eviction
is half-way.

### RateLimit

Each Redis call of `checkLimits` is a step, as is the count of a response's tokens; the clock ticks
between them, and keys expire with it. A key is what it is made of: the limit's name and the user's
name, or the whole user. That the clock of the gateway is read just before the call, not with it, is
abstracted. A stream counts its tokens in every frame from the usage on; the model has at most one
before the last. A pipeline of INCRBY and EXPIRE that fails has had no effect or (`IncrRPM`, then `GiveUp`)
both; that Redis applies the first and not the second, which would leave a key without an end of life, is left out.

*Run `rate_limit`*: two users, two handlers, windows of two ticks, two bins and a clock of five: the first
bin is used again. *Violation `rate_limit_tpm`*: the token limit is never enforced.

### CacheStore

An event changes the informer's object and the map of pods, and leaves a list of operations on the
mappings, which the handler does one by one under the cache's lock; requests, which take no lock,
interleave. Objects of models are kept in the order they were made, and a model or a request holds a
place in that order, since a request may hold an object that has left the map. The
registry's cached array is reset in one step and the registry changed in the next, as in
`registry.go`. `RebuildArray` always writes the array; `registry.go:183` keeps one that another reader has
just rebuilt from a base array that is still valid, which has the same contents. A request loads the
object of its model or pod and adds to its counter in one step; in the code an update may fall in
between, and the addition then goes to the object that was replaced and is no longer read. Adapters and
labels have different names (`ASSUME`).

*Run `cache_store`*: two pods, one model, one adapter, two requests, four events. Four events are an
add, an adapter, an update and a deletion; with one model and one adapter a pod is mapped twice.
*Violation `pod_list`*: a reader between the two steps caches the old array for good.

## Disagreements met while modelling

The two violation runs are the findings of `PROJECT.json`. The models also contain the following
behaviours, for which no run is kept; each is a short sequence of the actions named.

- `routing_agent_service.py:1764`: with `ROUTING_STRATEGY=lodestar`, which `README.md:115` recommends, no
  trainer name matches and the branch returns with `TRAINING_RIGHT_NOW` set: no round ever starts again,
  although `README.md:80` says that the predictor retrains with every 1000 new samples. With the setting
  `HAS_TRAINER = FALSE`, TLC refutes `RoundStarts` and `RoundEnds` without their hypothesis.
- `routing_agent_service.py:1788`: a round that fails after `train` has learned and saved (the statistics,
  the monitors, or the plots inside `train`) does not reach `NUM_TRAINS += 1`, so its rows still count as new, and
  a continual-learning round that follows learns them a second time (`TrainModel`, `TrainFail`, `TrainStart`),
  although line 1508 says "Only train on the new batch from the latest flush". `NewDataOnly` is therefore
  about finished rounds.
- `routing_agent_service.py:1170`: the eviction writes back what is left of a copy taken under an earlier
  lock: rows flushed in between are lost (`TrainCopy`, `FlushAppend`, `TrainSelect`), although line 294
  says "Thread safety for concurrent flush/train".
- `routing_agent_service.py:461` against `:1814`: the unlocked `NUM_NEW_DATA += n` may write back the
  count that the end of a round has just reset (`FlushLoad`, `TrainReset`, `FlushStore`), so the next
  round starts without the samples that `README.md:118` asks for.
- `routing_agent_service.py:1506`: in continual learning a sample flushed after the copy and before
  `NUM_TRAINS += 1` carries the running round and is selected by no later one. `TrainedByNextRound`
  holds in the other modes only.
- `routing_agent_service.py:1628`: after `Restart`, replayed rows may carry a round above `NUM_TRAINS`,
  and their recency weight exceeds that of the newest row.
- `routing_agent_service.py:1732`: the replay buffer is filled from the whole training set;
  `README.md:83` says "from FIFO evictions".
- `gateway_rsp_body.go:891`: a plain response decrements the decode counters without having
  incremented them (`PlainEnd`) and leaves the prefill counters; `kvcache.go:2313` logs a negative count
  as an error. `PhaseCountersMatch` is therefore checked for streams with content.
- `gateway_rsp_body.go:461`: the same response keeps its LMETRIC reservation.
- `gateway.go:113`: a request that ends normally never releases Preble's counters, because
  `inflightCleaned` keeps the deferred function from `cleanupPerRequestState`; lines 388-390 say "Runs
  unconditionally (from the top-level Process defer)".
- `gateway_rsp_body.go:647`: a plain body in several frames is parsed once and then answered as one that
  could not be parsed, because the second buffer has the last frame only (`PlainFrame`, `PlainEnd`).
- `gateway.go:121`: a request whose routing fails keeps its `RequestTimings` entry (`RouteFail`, `Exit`);
  the comment above it names that entry among what is cleaned up.
- What an ended request leaves in the maps (`Leftover`): after a normal end the predicted latencies
  (`gateway_rsp_body.go:528-529` are commented out); after an abort the preemptions and four overheads,
  although `gateway.go:334` says "removes all per-request tracking state"; if it is refused before it has
  a routing context, its cached headers; and after a broken stream everything, because the error path
  takes the timing entry and so marks the request as cleaned.
- `rl_routing.go:309-328`: every failed POST drops its lines, and a successful one also those that were
  added while it ran: delivery is at most once, and lossy.
- `gateway.go:236-283`: with a single ready pod the router is not called, `received_the_first_request`
  is not set, and no line is flushed.
- `gateway_rsp_body.go:553`: the usage of a stream is cached, so each frame after it counts the same
  tokens again.
- `lru_store.go:81`: a prompt's first block is its oldest entry, so the capacity removes first the block
  without which none of the others is found.
- `prefix_cache.go:181-192`: the example of the comment (deviation 6.1, pod_2) is not what the sample
  deviation of `util.go:48` gives (pod_4).
- `cache_trace.go:58-59`: a count may be published after a newer one, and is read until the next change.
- `informers.go:132`: "Adapters will be rescaned and readded later", but the informers' resync period is
  0 (lines 58-59): a pod that is updated loses its adapters until their next event.
- `informers.go:134`: the updated pod starts with `runningRequests = 0`, and requests that it had take it
  below.
- `reward_predictor.py:1235`: a reload during a from-scratch round makes the remaining epochs train
  the loaded model; `UndisturbedRoundIsWhole` needs its hypothesis. `README.md:119` says that each
  round starts from random weights.
- `reward_predictor.py:1096`: while such a round runs, requests are answered with its untrained
  weights, and the fallback flag (`routing_agent_service.py:1071`) is only set before the first round.
- `reward_predictor.py:796`: with LOAD_PRETRAINED_MODEL=0 an agent made for another number of pods
  skips the file that online training wrote.
- `reward_predictor.py:837`: the reload that the first request starts loads the file that the same
  setting was to skip (`:689`).
- `routing_agent_service.py:890`: an update published during an `/infer` call is cleared by `InferReset`
  and not reloaded; `README.md:98` says that future calls use the updated model.

## What is proved

All theorems hold for every value of the constants that the `ASSUME`s allow: any finite sets of
threads, requests, pods and models, any number of events, rounds, epochs or samples. What the code
justifies is all they ask for: sizes and limits are natural numbers, sets of threads and requests are
finite (both hold for whatever a process can start), a window has more than one bin, and the names of
labels and adapters differ.

- **RWLock** (in `ServiceProofs`; its specification is `LockSpec`). `LockInv` says that the three counters are the cardinalities of the threads' states, that a
  writer is alone and that no wake-up is lost. Exclusion alone is not inductive: the lock tests
  counters, so the proof needs them to be exact. `RWLockRefines` maps sleeping and notified threads
  to "asking" and shows that each method step is an abstract step or a stutter.
- **TrainingData** (in `ServiceProofs`). `SeqOrderAlways`: the trainer's copy is ordered by the same sequence, which the
  eviction needs when it writes the copy back. `TrainedByNextRoundAlways`, with neither pools nor
  continual learning: a row of an older round that is not trained yet is in the copy of the running round.
  `StorageBoundedAlways` and `PoolBoundedAlways`: between copy and selection the frames outgrow the copy
  only by what is flushed, and the *n* newest rows are at most *n*, which rests on `SeqOrder` (rows
  that share a sequence number would all be newest). `NewDataOnlyAlways`: a row of a finished round that
  is still stored has a lower round number, except between the end of the `try` block and
  `NUM_TRAINS += 1`, and a flushed row is new to every process that ran before. It makes no claim about the
  rows of a round that failed: they are trained on again, learned from or not.
- **ModelReload.** `AtMostOneReloadAlways` and `OneReloadPerUpdateAlways`. The second counts tokens: an
  update stands for one reload that may still start, until the request that saw it has passed the
  place where it would start it. `AnsweredByAnAgentAlways`: an agent, once made, is never gone, and
  nothing torn leaves the file. `UndisturbedRoundIsWholeAlways`: at epoch *e* an undisturbed round has
  added exactly *e* epochs to the weights it began with.
- **GatewayRequest and RequestState.** `InflightMatchesAlways` and `PendingMatchesAlways`. The inductive
  invariant adds the life cycle (a routed request has a target; a timing entry exists until one of the
  five paths removes it; `requestCounted` is exactly "pending") and states the counters as
  cardinalities of the live sets, which each step changes by at most one element.
  `ReservationsMatchAlways` adds which reservations a request may hold in each phase.
  `PhaseCountersMatchAlways` is about sums of tokens: a step moves one request from a phase to the next,
  and the others add up to the same whatever they are. `StateImplementsGateway` carries the life cycle
  over to `RequestState`, where it tells when the deferred cleanup still runs: `NothingElseLeftAlways`
  follows from which of the two cleanups a request has met so far, and `PostedAtMostOnceAlways` from
  who holds a line, the buffer or the batch on its way.
- **RateLimit.** `ReadsThisWindowAlways`: a bin that is not empty was last counted up less than a window
  ago, at a time of its own window; with more than one bin it is therefore empty when its turn comes
  again. `RpmOvershootBoundedAlways`: the count and the handlers between check and increment together
  never exceed the limit by the number of handlers.
- **HeuristicRouting.** `ReservationsExactAlways`: the counters of a pod are sums over the requests,
  what is between the two locks of a release included. `QueuesFollowSpeedAlways`. `GapBoundedAlways` is
  the longest proof: a count that nothing newer has replaced falls short of the truth by at most the
  additions not yet published; what a request has read never exceeds what the pod was sent; and the
  bound is proved with all requests that are on their way to the pod counted in, for every level above
  the other pod at once, because each of them goes by the level it has read.
- **PrefixTable.** One invariant, `IInv`, for prompts of any length. `LeastRecentlyUsedLastAlways` rests on
  `StoreOK`: the list has no repetition, is in the order of the access times, and none of these is
  beyond the clock, so that a block put at the head is the newest; removing an element anywhere leaves
  the order of the others (`RemoveKeepsOrder`, from the position that `RemoveFirst` takes out).
  `RecordedIsFoundAlways`: every block of a recorded prompt has an access time that is not older than
  the recording (`SentOK`). `evict` compares that time again under the lock, so it cannot be the block it
  removes, whatever it found when it scanned. While the prompt is being recorded the same holds of the
  blocks already put, and what `Get` returned still covers the pods of the block at the `Put`, because
  the table's lock keeps other additions out (`AddOK`); without it a `Put` could take back a pod that
  another prompt had recorded. `MatchIsBracketedAlways`: a pod is credited with the first *k* blocks, all
  of which it had at the start, and the block that stopped it, or would have at the start, is not in
  the table (`Credit`). Evictions alone run during a match, so a missing block stays missing. Before and
  after are compared as percentages, which needs `\div` to be monotonic (`PercentMonotonic`); that a
  longest known prefix exists at all is the least number principle (`LeastOf`, `DepthExists`).
- **CacheStore.** `MappingsAgreeAlways`: whenever the two directions disagree about a pod and a model, the
  operation that settles it is still on the list of the handler that holds the lock.
  `NeverOvercountsAlways`: a request counts on the object it holds, and an object made for a model or a
  pod that comes back starts from zero.
- **SetSums.** `MapThenSumSet` of the community modules, by its recursive definition, is a function of
  the set: an element that joins adds its value. Induction over finite sets is stated for a *set* of
  good subsets, from the well-foundedness of the strict subset relation, because a theorem with an
  operator as a parameter cannot be used.

Every safety invariant that a passing run checks is a theorem. Model-checked only:

- liveness (`WritersServed`, `ReadersServedWhenQuiet`, `RoundStarts`, `RoundEnds`, `InferEnds`,
  `ReloadEnds`, `LinesAreFlushed`) and the fair part of the refinement `ImplementsRWLockSpec`, which are
  out of this prover's reach;
- the two violation runs, whose counterexamples are TLC's.

The stronger invariants that the proofs rest on (`BoundInv`, `LearnInv`, `GapInv`, `IInv` of `PrefixTable` and their like) were
tried with TLC on the instances of the runs before they were proved.

## Plan

Done: all modules above, and theorems for the safety properties of all of them. Next: an abstract
specification of the pod cache that `CacheStore` implements once `ArrayIsCurrent` is repaired, and one
of the prefix table that says what a `MatchPrefix` may return.

Modules left: `CacheTrace` (recycling of request traces against late `DoneRequestTrace` calls; tracing is
off by default), the `latency_predictor` branch and `RETRAIN_AT_STARTUP` in `TrainingData`, preload in
`ModelReload`.

## Not modelled

The network, its gradients and plots; numeric preprocessing and shift detection; requests without a
routing strategy; the `scalable_rl_agent` sub-algorithm and its live requests; the background scraper,
whose metrics are any old value; Preble's radix tree and the prefix groups; the memory that arrays of
the registry may share; `NumTrains`, which a late answer may set back and only the log carries;
Kubernetes controllers, webhooks, the AIBrix runtime, benchmarks and manifests. Most of the repository's Python is offline
analysis and plotting scripts and earlier versions of the network, which have no state to model.
`lmetric.go`, to which `rl_routing.go` refers,
is not in the repository.

## Running

`tlc -config X.cfg M` for each run of `PROJECT.json` (module `M`, config `X.cfg`); `tlapm M.tla` for
`SetSums` and the `*Proofs` modules.
