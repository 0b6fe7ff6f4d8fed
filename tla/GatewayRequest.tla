--------------------------- MODULE GatewayRequest ---------------------------
(***************************************************************************)
(* The life of a request in the gateway's external-processing server       *)
(* (pkg/plugins/gateway): Process handles the frames Envoy sends for one   *)
(* request in order, one goroutine per request, and its deferred function  *)
(* runs once on every exit.  What requests share are the per-pod load      *)
(* counters of utils/kvcache.go, the pending and running counts of the     *)
(* cache, and the reservations of the LMETRIC, Mooncake and Preble         *)
(* routers.  Every counter is behind its own mutex or atomic and is only   *)
(* added to, so a handler is one step.  Requests without a routing         *)
(* strategy, and the rate limiter, are not part of this module.            *)
(***************************************************************************)
EXTENDS Integers, FiniteSets, FiniteSetsExt

CONSTANTS
  Requests, Pods,
  NoPod,          \* nilPod: the request has not been routed
  Kinds,          \* the kinds of response: "stream", "plain"
  SubAlgorithms,  \* "none", "lmetric", "mooncake", "preble"
  PromptSizes,    \* prompt lengths, in tokens
  EmptyStreams,   \* a stream may end with no content token at all
  MaxTokens       \* bound: content tokens of a response

ASSUME GatewayConstants ==
  /\ IsFiniteSet(Requests) /\ IsFiniteSet(Pods) /\ NoPod \notin Pods
  /\ Kinds \subseteq {"stream", "plain"}
  /\ SubAlgorithms \subseteq {"none", "lmetric", "mooncake", "preble"}
  /\ PromptSizes \subseteq Nat /\ EmptyStreams \in BOOLEAN /\ MaxTokens \in Nat

VARIABLES
  pc,               \* the frame Process waits for
  kind, target,     \* stream; routerCtx.targetPod
  timing,           \* RequestTimings: no entry, firstTokenTime zero or set
  prompt, decoded,  \* prefillTokenCount, decodeTokenCount of the entry
  usageCached,      \* streamingUsageCache holds a non-zero usage
  split,            \* an earlier frame of a plain body has been buffered
  parsed,           \* history: the whole plain body was parsed
  reply,            \* history: what the last frame was answered with
  isRespError, completed, requestCounted, inflightCleaned,
  held,             \* the router's reservation the request still holds
  load,             \* the counters of kvcache.go, by pod
  pendingRequests, runningRequests

request == <<kind, target, prompt>>
body == <<decoded, usageCached, split, parsed, reply>>
flags == <<isRespError, requestCounted, inflightCleaned, completed>>
counts == <<pendingRequests, runningRequests>>
vars == <<pc, request, timing, body, flags, held, load, counts>>

\* podInflightRequests, podTotalPrefillRequests, podTotalPrefillTokens,
\* podTotalDecodeRequests and podTotalDecodeTokens of a pod; decodeKey says
\* whether the decode maps have an entry for it.
Load ==
  [inflight : Int, prefillRequests : Int, prefillTokens : Int,
   decodeRequests : Int, decodeTokens : Int, decodeKey : BOOLEAN]

TypeOK ==
  /\ pc \in [Requests -> {"start", "unrouted", "routed", "body", "eos", "done"}]
  /\ kind \in [Requests -> {"stream", "plain"}]
  /\ target \in [Requests -> Pods \cup {NoPod}]
  /\ timing \in [Requests -> {"none", "prefill", "decode"}]
  /\ prompt \in [Requests -> Nat] /\ decoded \in [Requests -> Nat]
  /\ usageCached \in [Requests -> BOOLEAN] /\ split \in [Requests -> BOOLEAN]
  /\ parsed \in [Requests -> BOOLEAN]
  /\ reply \in [Requests -> {"none", "body", "unmarshal", "streaming"}]
  /\ isRespError \in [Requests -> BOOLEAN] /\ completed \in [Requests -> BOOLEAN]
  /\ requestCounted \in [Requests -> BOOLEAN]
  /\ inflightCleaned \in [Requests -> BOOLEAN]
  /\ held \in [Requests -> {"none", "lmetric", "mooncake", "preble"}]
  /\ load \in [Pods -> Load]
  /\ pendingRequests \in Int /\ runningRequests \in [Pods -> Int]

Init ==
  /\ pc = [r \in Requests |-> "start"]
  /\ kind = [r \in Requests |-> "stream"] /\ target = [r \in Requests |-> NoPod]
  /\ timing = [r \in Requests |-> "none"]
  /\ prompt = [r \in Requests |-> 0] /\ decoded = [r \in Requests |-> 0]
  /\ usageCached = [r \in Requests |-> FALSE]
  /\ split = [r \in Requests |-> FALSE] /\ parsed = [r \in Requests |-> FALSE]
  /\ reply = [r \in Requests |-> "none"]
  /\ isRespError = [r \in Requests |-> FALSE]
  /\ completed = [r \in Requests |-> FALSE]
  /\ requestCounted = [r \in Requests |-> FALSE]
  /\ inflightCleaned = [r \in Requests |-> FALSE]
  /\ held = [r \in Requests |-> "none"]
  /\ load = [p \in Pods |->
       [inflight |-> 0, prefillRequests |-> 0, prefillTokens |-> 0,
        decodeRequests |-> 0, decodeTokens |-> 0, decodeKey |-> FALSE]]
  /\ pendingRequests = 0 /\ runningRequests = [p \in Pods |-> 0]

-----------------------------------------------------------------------------
(* The counters of kvcache.go: increments create a pod's entry; a decrement *)
(* without an entry, or of more prefill tokens than there are, does nothing.*)

Enter(c, n) ==
  [c EXCEPT !.inflight = @ + 1, !.prefillRequests = @ + 1,
            !.prefillTokens = @ + n]

Leave(c) == [c EXCEPT !.inflight = @ - 1]

EndPrefill(c, n) ==
  [c EXCEPT !.prefillRequests = @ - 1,
            !.prefillTokens = IF @ < n THEN @ ELSE @ - n]

BeginDecode(c) == [c EXCEPT !.decodeRequests = @ + 1, !.decodeKey = TRUE]

AddDecodeTokens(c, n) == [c EXCEPT !.decodeTokens = @ + n]

EndDecode(c, n) ==
  IF c.decodeKey
  THEN [c EXCEPT !.decodeRequests = @ - 1, !.decodeTokens = @ - n]
  ELSE c

\* Mutant of AfterAbort: the phase is not looked at.
AfterAbortAlwaysPrefill(c, phase, n, d) == Leave(EndPrefill(c, n))

\* What cleanupInflightCounters and the streaming error path take back, for a
\* request in this phase with n prompt tokens and d decoded ones.
AfterAbort(c, phase, n, d) ==
  Leave(IF phase = "prefill" THEN EndPrefill(c, n) ELSE EndDecode(c, d))

\* The reservation that is left when the request ends in this phase: Mooncake's
\* is always given back, LMETRIC's only in the prefill phase.
AfterAbortHeld(h, phase) ==
  IF h = "mooncake" \/ (h = "lmetric" /\ phase = "prefill") THEN "none" ELSE h

\* PrebleOnRequestComplete.
PrebleOnRequestComplete(h) == IF h = "preble" THEN "none" ELSE h

\* cleanupInflightCounters: RequestTimings.LoadAndDelete decides.
CleanupInflightCounters(r) ==
  IF timing[r] = "none"
  THEN UNCHANGED <<timing, load>>
  ELSE /\ timing' = [timing EXCEPT ![r] = "none"]
       /\ load' = [load EXCEPT ![target[r]] =
                     AfterAbort(@, timing[r], prompt[r], decoded[r])]

\* cleanupInflightCounters followed by cleanupPerRequestState, of which the
\* usage cache and Preble's reservation are modelled.
CleanupRequest(r) ==
  /\ CleanupInflightCounters(r)
  /\ usageCached' = [usageCached EXCEPT ![r] = FALSE]
  /\ held' = [held EXCEPT ![r] = PrebleOnRequestComplete(
       IF timing[r] = "none" THEN @ ELSE AfterAbortHeld(@, timing[r]))]

\* DoneRequestCount and DoneRequestTrace, for the pod the request went to.
DoneRequest(r) ==
  /\ pendingRequests' = pendingRequests - 1
  /\ runningRequests' = [runningRequests EXCEPT ![target[r]] = @ - 1]

-----------------------------------------------------------------------------
\* HandleRequestHeaders or HandleRequestBody refuses the request, with no
\* routing context (no model, no pods) or with one that holds nothing yet.
Refuse(r) ==
  /\ pc[r] = "start"
  /\ pc' = [pc EXCEPT ![r] = "unrouted"]
  /\ UNCHANGED <<request, timing, body, flags, held, load, counts>>

\* HandleRequestBody stores the timing entry, and selectTargetPod fails.
RouteFail(r, n) ==
  /\ pc[r] = "start"
  /\ pc' = [pc EXCEPT ![r] = "unrouted"]
  /\ timing' = [timing EXCEPT ![r] = "prefill"]
  /\ prompt' = [prompt EXCEPT ![r] = n]
  /\ UNCHANGED <<kind, target, body, flags, held, load, counts>>

\* HandleRequestBody with a pod selected: the counters, AddRequestCount, and in
\* Process requestCounted, which follows HasRouted.
RouteRequest(r, p, k, n, alg) ==
  /\ pc[r] = "start"
  /\ pc' = [pc EXCEPT ![r] = "routed"]
  /\ kind' = [kind EXCEPT ![r] = k] /\ target' = [target EXCEPT ![r] = p]
  /\ timing' = [timing EXCEPT ![r] = "prefill"]
  /\ prompt' = [prompt EXCEPT ![r] = n]
  /\ held' = [held EXCEPT ![r] = alg]
  /\ load' = [load EXCEPT ![p] = Enter(@, n)]
  /\ requestCounted' = [requestCounted EXCEPT ![r] = TRUE]
  /\ pendingRequests' = pendingRequests + 1
  /\ runningRequests' = [runningRequests EXCEPT ![p] = @ + 1]
  /\ UNCHANGED <<body, isRespError, inflightCleaned, completed>>

\* HandleResponseHeaders: any status but 200 is an error.
ResponseHeaders(r, err) ==
  /\ pc[r] = "routed"
  /\ pc' = [pc EXCEPT ![r] = "body"]
  /\ isRespError' = [isRespError EXCEPT ![r] = err]
  /\ UNCHANGED <<request, timing, body, requestCounted, inflightCleaned,
                 completed, held, load, counts>>

\* After a body frame Process waits for the next, or for the end of the stream.
NextFrame(r, eos) == pc' = [pc EXCEPT ![r] = IF eos THEN "eos" ELSE "body"]

\* A body frame of an error response: the cleanup runs with the first.
ErrorBody(r, eos) ==
  /\ pc[r] = "body" /\ isRespError[r]
  /\ NextFrame(r, eos)
  /\ IF inflightCleaned[r]
     THEN UNCHANGED <<timing, load, usageCached, held, inflightCleaned>>
     ELSE /\ CleanupRequest(r)
          /\ inflightCleaned' = [inflightCleaned EXCEPT ![r] = TRUE]
  /\ UNCHANGED <<request, decoded, split, parsed, reply, isRespError,
                 requestCounted, completed, counts>>

\* Mutant of Finish: requestCounted stays set.
FinishStillCounted(r, complete) ==
  /\ completed' = [completed EXCEPT ![r] = complete]
  /\ IF complete /\ ~completed[r]
     THEN /\ DoneRequest(r)
          /\ inflightCleaned' = [inflightCleaned EXCEPT ![r] = timing'[r] = "none"]
     ELSE UNCHANGED <<counts, inflightCleaned>>
  /\ UNCHANGED <<request, isRespError, requestCounted>>

\* HandleResponseBody returns complete: its deferred DoneRequestTrace, and what
\* Process does when the request has just been completed.
Finish(r, complete) ==
  /\ completed' = [completed EXCEPT ![r] = complete]
  /\ IF complete /\ ~completed[r]
     THEN /\ DoneRequest(r)
          /\ requestCounted' = [requestCounted EXCEPT ![r] = FALSE]
          /\ inflightCleaned' = [inflightCleaned EXCEPT ![r] = timing'[r] = "none"]
     ELSE UNCHANGED <<counts, requestCounted, inflightCleaned>>
  /\ UNCHANGED <<request, isRespError>>

\* The streamed tokens of a frame: the first ends the prefill phase.
AfterTokens(c, phase, n, toks) ==
  IF toks = 0 THEN c
  ELSE AddDecodeTokens(
         IF phase = "prefill" THEN BeginDecode(EndPrefill(c, n)) ELSE c, toks)

PhaseAfter(phase, toks) == IF toks = 0 THEN phase ELSE "decode"

\* Mutant of HeldAfter: the first token gives nothing back.
HeldAfterKept(h, toks) == h

\* LMETRIC's reservation is given back with the first token.
HeldAfter(h, toks) == IF h = "lmetric" /\ toks > 0 THEN "none" ELSE h

\* Mutant of AfterEnd: the inflight request is left to the deferred cleanup.
AfterEndStillInflight(c, d) == EndDecode(c, d)

\* calculateTimingMetrics at the end of a body: always the decode counters.
AfterEnd(c, d) == Leave(EndDecode(c, d))

\* A frame of a good response Process has not seen the end of.
Body(r, k) == pc[r] = "body" /\ ~isRespError[r] /\ kind[r] = k

\* handleStreamingResponse and HandleResponseBody on a frame that parses, with
\* toks content tokens, maybe the usage, maybe the end.
StreamFrame(r, toks, usage, eos) ==
  LET d == decoded[r] + toks
      phase == PhaseAfter(timing[r], toks)
      c == AfterTokens(load[target[r]], timing[r], prompt[r], toks)
      h == HeldAfter(held[r], toks)
      cached == usageCached[r] \/ usage
  IN  /\ Body(r, "stream") /\ timing[r] # "none" /\ d <= MaxTokens
      /\ eos /\ phase = "prefill" => EmptyStreams
      /\ NextFrame(r, eos)
      /\ decoded' = [decoded EXCEPT ![r] = d]
      /\ timing' = [timing EXCEPT ![r] = IF eos THEN "none" ELSE phase]
      /\ load' = [load EXCEPT ![target[r]] = IF eos THEN AfterEnd(c, d) ELSE c]
      /\ held' = [held EXCEPT ![r] = IF eos /\ h = "mooncake" THEN "none" ELSE h]
      /\ usageCached' = [usageCached EXCEPT ![r] = cached /\ ~eos]
      /\ Finish(r, cached \/ eos)
      /\ UNCHANGED <<split, parsed, reply>>

\* A frame that breaks off after toks content tokens.
StreamError(r, toks, eos) ==
  LET d == decoded[r] + toks
      phase == PhaseAfter(timing[r], toks)
      c == AfterTokens(load[target[r]], timing[r], prompt[r], toks)
      h == HeldAfter(held[r], toks)
  IN  /\ Body(r, "stream") /\ timing[r] # "none" /\ d <= MaxTokens
      /\ NextFrame(r, eos)
      /\ decoded' = [decoded EXCEPT ![r] = d]
      /\ timing' = [timing EXCEPT ![r] = "none"]
      /\ load' = [load EXCEPT ![target[r]] = AfterAbort(c, phase, prompt[r], d)]
      /\ held' = [held EXCEPT ![r] = AfterAbortHeld(h, phase)]
      /\ reply' = [reply EXCEPT ![r] = "streaming"]
      /\ Finish(r, TRUE)
      /\ UNCHANGED <<usageCached, split, parsed>>

\* A frame after the timing entry is gone: only the second pass over the body
\* is left, and a usage, an error or the end completes the request.
StreamLate(r, done, eos) ==
  /\ Body(r, "stream") /\ timing[r] = "none"
  /\ NextFrame(r, eos)
  /\ Finish(r, completed[r] \/ done \/ eos)
  /\ UNCHANGED <<timing, body, held, load>>

\* A frame of a plain body that is not the last is buffered.
PlainFrame(r) ==
  /\ Body(r, "plain")
  /\ split' = [split EXCEPT ![r] = TRUE]
  /\ UNCHANGED <<pc, request, timing, decoded, usageCached, parsed, reply, flags,
                 held, load, counts>>

\* What the second parse of a plain body makes of it: its buffer has the last
\* frame only.
SecondParse(r) == IF split[r] THEN "unmarshal" ELSE "body"

\* The last frame of a plain body.  firstTokenTime is set first.  A body that
\* does not parse completes the request at once; otherwise the counters are
\* taken back, and the body is parsed a second time.
PlainEnd(r, good) ==
  /\ Body(r, "plain") /\ NextFrame(r, TRUE)
  /\ parsed' = [parsed EXCEPT ![r] = good]
  /\ reply' = [reply EXCEPT ![r] = IF good THEN SecondParse(r) ELSE "unmarshal"]
  /\ split' = [split EXCEPT ![r] = FALSE]
  /\ timing' = [timing EXCEPT ![r] = IF good THEN "none" ELSE "decode"]
  /\ IF good
     THEN /\ load' = [load EXCEPT ![target[r]] = AfterEnd(@, decoded[r])]
          /\ held' = [held EXCEPT ![r] = IF @ = "mooncake" THEN "none" ELSE @]
     ELSE UNCHANGED <<load, held>>
  /\ Finish(r, TRUE)
  /\ UNCHANGED <<decoded, usageCached>>

\* Process returns, at any point: the client or Envoy closed the stream, Recv or
\* Send failed.  Its deferred function; an unrouted request has nothing that
\* cleanupPerRequestState would remove here.
Exit(r) ==
  /\ pc[r] # "done"
  /\ pc' = [pc EXCEPT ![r] = "done"]
  /\ IF target[r] # NoPod /\ ~inflightCleaned[r]
     THEN CleanupRequest(r)
     ELSE UNCHANGED <<timing, load, usageCached, held>>
  /\ IF requestCounted[r] THEN DoneRequest(r) ELSE UNCHANGED counts
  /\ UNCHANGED <<request, decoded, split, parsed, reply, flags>>

ProcessStep(r) ==
  \/ Refuse(r)
  \/ \E n \in PromptSizes : RouteFail(r, n)
  \/ \E p \in Pods, k \in Kinds, n \in PromptSizes, alg \in SubAlgorithms :
       RouteRequest(r, p, k, n, alg)
  \/ \E err \in BOOLEAN : ResponseHeaders(r, err)
  \/ \E eos \in BOOLEAN : ErrorBody(r, eos)
  \/ \E toks \in 0..MaxTokens, usage, eos \in BOOLEAN :
       StreamFrame(r, toks, usage, eos)
  \/ \E toks \in 0..MaxTokens, eos \in BOOLEAN : StreamError(r, toks, eos)
  \/ \E late, eos \in BOOLEAN : StreamLate(r, late, eos)
  \/ PlainFrame(r)
  \/ \E good \in BOOLEAN : PlainEnd(r, good)
  \/ Exit(r)

Next == \E r \in Requests : ProcessStep(r)

Spec == Init /\ [][Next]_vars

-----------------------------------------------------------------------------
\* The requests that podInflightRequests should count for a pod.
Live(p) == {r \in Requests : target[r] = p /\ timing[r] # "none"}

InPhase(p, phase) == {r \in Live(p) : timing[r] = phase}

\* Routed, not completed by a response, and Process has not returned.
Pending == {r \in Requests : /\ pc[r] \in {"routed", "body", "eos"}
                             /\ ~completed[r]}

\* podInflightRequests counts each routed request exactly once until it is taken
\* back, whichever of the five paths does it (end of stream, stream error, error
\* response, refused body, deferred cleanup), and nothing is counted for a
\* request whose Process has returned.
InflightMatches ==
  /\ \A p \in Pods : load[p].inflight = Cardinality(Live(p))
  /\ \A r \in Requests : pc[r] = "done" /\ target[r] # NoPod => timing[r] = "none"

\* AddRequestCount is balanced by exactly one DoneRequestCount or
\* DoneRequestTrace, although one is called from the response path and the other
\* from the deferred function (gateway.go:102-108).
PendingMatches ==
  /\ pendingRequests = Cardinality(Pending)
  /\ \A p \in Pods :
       runningRequests[p] = Cardinality({r \in Pending : target[r] = p})

\* No response of this pod was a plain body or a stream that ended without a
\* content token: those end the decode phase without having begun it.
Regular(p) ==
  \A r \in Requests : target[r] = p =>
    /\ kind[r] = "stream"
    /\ \/ decoded[r] > 0 \/ timing[r] # "none" \/ ~completed[r]
       \/ reply[r] = "streaming"

\* The prefill and decode counters of a pod are those of the requests in each
\* phase, and none is negative, as long as its responses are streams with content,
\* wherever these streams break off.
PhaseCountersMatch ==
  \A p \in Pods : Regular(p) =>
    /\ load[p].prefillRequests = Cardinality(InPhase(p, "prefill"))
    /\ load[p].prefillTokens = MapThenSumSet(LAMBDA r : prompt[r],
                                             InPhase(p, "prefill"))
    /\ load[p].decodeRequests = Cardinality(InPhase(p, "decode"))
    /\ load[p].decodeTokens = MapThenSumSet(LAMBDA r : decoded[r],
                                            InPhase(p, "decode"))

\* The ledger of reservations: Mooncake's virtual queue holds a request exactly
\* while it is in flight; LMETRIC's tokens are held until the first content token,
\* and kept for good only by a response that completes without one; Preble's
\* counters outlive the request only if a response took its inflight entry back.
ReservationsMatch ==
  \A r \in Requests :
    /\ held[r] = "mooncake" => timing[r] # "none"
    /\ held[r] = "lmetric" =>
         \/ timing[r] = "prefill"
         \/ completed[r] /\ (kind[r] = "plain" \/ decoded[r] = 0)
    /\ held[r] = "preble" /\ pc[r] = "done" => completed[r]
=============================================================================
