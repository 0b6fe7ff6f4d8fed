---------------------------- MODULE RequestState ----------------------------
(***************************************************************************)
(* What the gateway remembers about a request beside its load counters.    *)
(* Some thirty maps, keyed by the request, are filled while it is routed   *)
(* and answered, and emptied by whichever of two cleanups its end reaches. *)
(* A response that ends well leaves a log line, which the flush goroutine  *)
(* of rl_routing.go posts to the routing service.  Every action is an      *)
(* action of GatewayRequest together with what it does to the maps.        *)
(***************************************************************************)
EXTENDS GatewayRequest

CONSTANTS
  MinLines       \* minNumLogMessagesToFlush

ASSUME RequestStateConstants == MinLines \in Nat

VARIABLES
  stored,        \* the maps that have an entry for the request
  routerCtx,     \* the request has a routing context
  firstReceived, \* received_the_first_request
  lines,         \* RequestToLogMessage: the requests it has a line of
  flusher,       \* where the flush goroutine is
  batch,         \* the lines of the POST being made
  logged,        \* history: the requests a line was written of
  posts          \* history: the POSTs that carried a request's line

maps == <<stored, routerCtx, firstReceived>>
flush == <<flusher, batch, posts>>
logs == <<lines, logged>>
stateVars == <<vars, maps, logs, flush>>

-----------------------------------------------------------------------------
\* The maps, by where they are filled.

ServerMaps ==
  {"requestHeaders", "routingContexts", "selectedPodIP", "statusCode",
   "streamingUsageCache", "requestBuffers"}

TokenMaps == {"NumPrefillTokens", "ByteArrayPrefillTokens"}

SnapshotMaps ==
  {"PodIP", "PrefillRequests", "DecodeRequests", "PrefillTokens", "DecodeTokens"}

VLLMMaps ==
  {"GPUKVCacheUsage", "NumRequestsRunning", "NumRequestsWaiting", "NumPreemptions"}

PrefixMaps ==
  {"HashOfPrefixHashes", "KVCacheHitRatio", "KVCacheLastAccess", "PrefixGroupHash"}

OverheadMaps ==
  {"EndToEndOverhead", "VLLMScrapingOverhead", "FeaturePrepOverhead",
   "HTTPRoundTripOverhead"}

FallbackMaps == {"OODFallback", "FailureFallback"}

LatencyMaps == {"PredictedLatencies", "ChosenPodPredictedLatency"}

PredictionMaps ==
  LatencyMaps \cup {"Exploration", "PredictedRewards", "ChosenPodPredictedReward",
                    "SelectedPodGPU"}

Maps ==
  UNION {ServerMaps, TokenMaps, SnapshotMaps, VLLMMaps, PrefixMaps, OverheadMaps,
         FallbackMaps, PredictionMaps, {"RequestPodMetrics"}}

\* How far the RL router gets.  selectTargetPod may not call it (no pod is ready,
\* one is, or the request names another router); it returns early for the first
\* request of the process; a heuristic does not ask the routing service; the
\* service cannot be reached, answers something that does not parse, or answers.
RoutePaths == {"bypassed", "first", "heuristic", "unreachable", "garbled", "answered"}

\* Route up to the choice: copyBgMetricsToRequest (or a scrape), the pods' metrics
\* and the prefix match.
ScrapeAndMatch ==
  VLLMMaps \cup PrefixMaps \cup {"RequestPodMetrics", "VLLMScrapingOverhead"}

\* The maps Route has filled when it returns.
RouteStores(path) ==
  CASE path \in {"bypassed", "first"} -> {}
    [] path = "heuristic"   -> ScrapeAndMatch \cup OverheadMaps
                                 \cup {"FailureFallback"}
    [] path = "unreachable" -> ScrapeAndMatch \cup OverheadMaps
    [] path = "garbled"     -> ScrapeAndMatch \cup OverheadMaps \cup FallbackMaps
    [] path = "answered"    -> ScrapeAndMatch \cup OverheadMaps \cup FallbackMaps
                                 \cup PredictionMaps

\* Mutant of EndOfStreamClears: the vLLM metrics are left to the other cleanup.
EndOfStreamClearsFewer ==
  UNION {ServerMaps, TokenMaps, SnapshotMaps, PrefixMaps, OverheadMaps, FallbackMaps,
         PredictionMaps \ LatencyMaps, {"RequestPodMetrics"}}

\* The maps that the end of a body clears.
EndOfStreamClears ==
  UNION {ServerMaps, TokenMaps, SnapshotMaps, VLLMMaps, PrefixMaps, OverheadMaps,
         FallbackMaps, PredictionMaps \ LatencyMaps, {"RequestPodMetrics"}}

\* The maps that cleanupPerRequestState clears.
PerRequestClears ==
  UNION {ServerMaps, TokenMaps, SnapshotMaps, VLLMMaps \ {"NumPreemptions"},
         PrefixMaps, FallbackMaps, PredictionMaps, {"RequestPodMetrics"}}

-----------------------------------------------------------------------------
Store(r, s) == stored' = [stored EXCEPT ![r] = @ \cup s]

Clear(r, s) == stored' = [stored EXCEPT ![r] = @ \ s]

StateInit ==
  /\ Init
  /\ stored = [r \in Requests |-> {}] /\ routerCtx = [r \in Requests |-> FALSE]
  /\ firstReceived = FALSE
  /\ lines = {} /\ logged = {} /\ flusher = "idle" /\ batch = {}
  /\ posts = [r \in Requests |-> 0]

\* The request is refused by its headers or its body, before or after the
\* routing context is made.
RefuseState(r, ctx) ==
  /\ Refuse(r)
  /\ Store(r, {"requestHeaders"})
  /\ routerCtx' = [routerCtx EXCEPT ![r] = ctx]
  /\ UNCHANGED <<firstReceived, logs, flush>>

\* What HandleRequestBody stores before selectTargetPod returns.
BeforeRoute == TokenMaps \cup {"requestHeaders", "routingContexts", "selectedPodIP"}

\* received_the_first_request is read and set without a lock, so a request that
\* read it early still takes the path of the first one.
Routing(r, path) ==
  /\ path \in {"bypassed", "first"} \/ firstReceived
  /\ firstReceived' = (firstReceived \/ path = "first")
  /\ routerCtx' = [routerCtx EXCEPT ![r] = TRUE]

RouteFailState(r, n) ==
  /\ RouteFail(r, n) /\ Routing(r, "bypassed")
  /\ Store(r, BeforeRoute)
  /\ UNCHANGED <<logs, flush>>

RouteState(r, p, k, n, alg, path) ==
  /\ RouteRequest(r, p, k, n, alg) /\ Routing(r, path)
  /\ Store(r, BeforeRoute \cup RouteStores(path) \cup SnapshotMaps)
  /\ UNCHANGED <<logs, flush>>

ResponseHeadersState(r, err) ==
  /\ ResponseHeaders(r, err)
  /\ Store(r, {"statusCode"})
  /\ UNCHANGED <<routerCtx, firstReceived, logs, flush>>

ErrorBodyState(r, eos) ==
  /\ ErrorBody(r, eos)
  /\ IF inflightCleaned[r] THEN UNCHANGED stored ELSE Clear(r, PerRequestClears)
  /\ UNCHANGED <<routerCtx, firstReceived, logs, flush>>

\* The end of a body: AddRequestLogMessage, then the cleanups.
EndOfStream(r) ==
  /\ lines' = lines \cup {r} /\ logged' = logged \cup {r}
  /\ Clear(r, EndOfStreamClears)

StreamFrameState(r, toks, usage, eos) ==
  /\ StreamFrame(r, toks, usage, eos)
  /\ IF eos THEN EndOfStream(r)
            ELSE Store(r, {"streamingUsageCache"}) /\ UNCHANGED logs
  /\ UNCHANGED <<routerCtx, firstReceived, flush>>

StreamErrorState(r, toks, eos) ==
  /\ StreamError(r, toks, eos)
  /\ Store(r, {"streamingUsageCache"})
  /\ UNCHANGED <<routerCtx, firstReceived, logs, flush>>

StreamLateState(r, late, eos) ==
  StreamLate(r, late, eos) /\ UNCHANGED <<maps, logs, flush>>

PlainFrameState(r) ==
  /\ PlainFrame(r)
  /\ Store(r, {"requestBuffers"})
  /\ UNCHANGED <<routerCtx, firstReceived, logs, flush>>

PlainEndState(r, good) ==
  /\ PlainEnd(r, good)
  /\ IF good THEN EndOfStream(r)
             ELSE Clear(r, {"requestBuffers"}) /\ UNCHANGED logs
  /\ UNCHANGED <<routerCtx, firstReceived, flush>>

\* The deferred function of Process: cleanupPerRequestState for a request that
\* was never routed, and for one that was and is not marked as cleaned.
ExitState(r) ==
  /\ Exit(r)
  /\ IF routerCtx[r] /\ ~inflightCleaned[r]
     THEN Clear(r, PerRequestClears)
     ELSE UNCHANGED stored
  /\ UNCHANGED <<routerCtx, firstReceived, logs, flush>>

RequestStep(r) ==
  \/ \E ctx \in BOOLEAN : RefuseState(r, ctx)
  \/ \E n \in PromptSizes : RouteFailState(r, n)
  \/ \E p \in Pods, k \in Kinds, n \in PromptSizes, alg \in SubAlgorithms,
        path \in RoutePaths : RouteState(r, p, k, n, alg, path)
  \/ \E err \in BOOLEAN : ResponseHeadersState(r, err)
  \/ \E eos \in BOOLEAN : ErrorBodyState(r, eos)
  \/ \E toks \in 0..MaxTokens, usage, eos \in BOOLEAN :
       StreamFrameState(r, toks, usage, eos)
  \/ \E toks \in 0..MaxTokens, eos \in BOOLEAN : StreamErrorState(r, toks, eos)
  \/ \E late, eos \in BOOLEAN : StreamLateState(r, late, eos)
  \/ PlainFrameState(r)
  \/ \E good \in BOOLEAN : PlainEndState(r, good)
  \/ ExitState(r)

-----------------------------------------------------------------------------
(* FlushLogMessageToRLAgent.  The count and the marshalling are two critical *)
(* sections; the POST takes up to 500 ms, during which lines are added.      *)

FlushTick ==
  /\ flusher = "idle" /\ firstReceived /\ Cardinality(lines) > MinLines
  /\ flusher' = "marshal"
  /\ UNCHANGED <<vars, maps, logs, batch, posts>>

FlushMarshal ==
  /\ flusher = "marshal"
  /\ flusher' = "post" /\ batch' = lines
  /\ UNCHANGED <<vars, maps, logs, posts>>

\* The routing service handles the POST; it may still do so, once, after the
\* client has given up.
FlushDeliver ==
  /\ flusher = "post"
  /\ flusher' = "answer"
  /\ posts' = [r \in Requests |-> IF r \in batch THEN posts[r] + 1 ELSE posts[r]]
  /\ UNCHANGED <<vars, maps, logs, batch>>

\* Mutant of FlushClean: a failed POST keeps the lines for the next one.
FlushCleanIfSent(ok) ==
  /\ flusher \in IF ok THEN {"answer"} ELSE {"post", "answer"}
  /\ flusher' = "idle" /\ batch' = {}
  /\ lines' = IF ok THEN {} ELSE lines
  /\ UNCHANGED <<vars, maps, logged, posts>>

\* Mutant of FlushClean: a failed POST ends the goroutine.
FlushCleanOrStop(ok) ==
  /\ flusher \in IF ok THEN {"answer"} ELSE {"post", "answer"}
  /\ flusher' = IF ok THEN "idle" ELSE "stopped"
  /\ batch' = {} /\ lines' = {}
  /\ UNCHANGED <<vars, maps, logged, posts>>

\* CleanupAllRequestLogMessage, after a good answer, an error status, a failed
\* send, or an answer that came too late.
FlushClean(ok) ==
  /\ flusher \in IF ok THEN {"answer"} ELSE {"post", "answer"}
  /\ flusher' = "idle"
  /\ batch' = {} /\ lines' = {}
  /\ UNCHANGED <<vars, maps, logged, posts>>

FlushStep ==
  FlushTick \/ FlushMarshal \/ FlushDeliver \/ \E ok \in BOOLEAN : FlushClean(ok)

StateNext == FlushStep \/ \E r \in Requests : RequestStep(r)

\* The ticker fires every flushPeriod, and the HTTP client has a timeout.
StateSpec == StateInit /\ [][StateNext]_stateVars /\ WF_stateVars(FlushStep)

-----------------------------------------------------------------------------
\* What an ended request may leave behind: nothing where both cleanups ran; the
\* predicted latencies where only the end of the body did (gateway_rsp_body.go
\* does not remove them); the preemptions and the overheads where only
\* cleanupPerRequestState did; the cached headers where there was no routing
\* context to clean up by; and everything after a stream error, which removes the
\* timing entry and so disables the deferred cleanup.
Leftover(r) ==
  IF reply[r] = "streaming" /\ inflightCleaned[r] THEN Maps
  ELSE IF ~routerCtx[r] THEN {"requestHeaders"}
  ELSE IF r \in logged
       THEN IF inflightCleaned[r] THEN LatencyMaps ELSE {}
  ELSE OverheadMaps \cup {"NumPreemptions"}

\* Whatever path Route took, and wherever the response stopped, an ended request
\* has no entry in any of the maps but those listed above (gateway.go:110-145,
\* gateway_rsp_body.go:504-551).
NothingElseLeft ==
  \A r \in Requests : pc[r] = "done" => stored[r] \subseteq Leftover(r)

\* The log line of a request is posted at most once, although a POST may fail
\* after the service has handled it: training counts no sample twice.
PostedAtMostOnce == \A r \in Requests : posts[r] <= 1

\* Once there are more lines than the minimum, and a request has reached the RL
\* router, the buffer is emptied, whatever the routing service answers.
LinesAreFlushed == Cardinality(lines) > MinLines /\ firstReceived ~> lines = {}
=============================================================================
