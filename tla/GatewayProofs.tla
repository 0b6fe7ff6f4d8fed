--------------------------- MODULE GatewayProofs ---------------------------
(***************************************************************************)
(* Theorems about GatewayRequest and RequestState, for any finite sets of  *)
(* requests and pods and any kind of response.                             *)
(*                                                                         *)
(* The inflight counter of a pod and the pending and running counts are    *)
(* exact.  Neither is inductive: that a request is taken back once depends *)
(* on how the flags of Process, the timing entry and the frame it waits    *)
(* for go together, which LifeCycle states.  On it rest the ledger of the  *)
(* routers' reservations, with what Ledger adds, and the counters of the   *)
(* two phases, in requests and in tokens: a step moves one request from a  *)
(* phase to the next, whatever the others add up to (PhaseStep).           *)
(*                                                                         *)
(* The steps of RequestState are steps of GatewayRequest, so IInv holds    *)
(* there too: it says when the deferred cleanup of Process still runs.     *)
(* What a request may leave in the maps depends on which of the two        *)
(* cleanups it has met so far, which StateOf keeps track of; that a line   *)
(* is posted once depends on who has it, the buffer or the batch, which    *)
(* FlushOf says.                                                           *)
(***************************************************************************)
EXTENDS RequestState, SetSums

InflightCount == \A p \in Pods : load[p].inflight = Cardinality(Live(p))

LifeCycle ==
  \A r \in Requests :
    /\ pc[r] = "start" => /\ target[r] = NoPod /\ timing[r] = "none"
                          /\ ~completed[r] /\ ~inflightCleaned[r]
                          /\ ~requestCounted[r]
    /\ pc[r] = "unrouted" => target[r] = NoPod /\ ~requestCounted[r]
    /\ pc[r] \in {"routed", "body", "eos"} =>
         target[r] \in Pods /\ (requestCounted[r] <=> ~completed[r])
    /\ pc[r] = "routed" => timing[r] = "prefill" /\ ~completed[r]
    /\ pc[r] = "body" /\ kind[r] = "plain" /\ ~isRespError[r] =>
         timing[r] = "prefill" /\ ~completed[r]
    /\ pc[r] = "body" /\ completed[r] /\ timing[r] # "none" => usageCached[r]
    /\ inflightCleaned[r] => timing[r] = "none"
    /\ pc[r] = "done" /\ target[r] # NoPod => timing[r] = "none"

IInv == TypeOK /\ InflightCount /\ PendingMatches /\ LifeCycle

-----------------------------------------------------------------------------
\* How the size of a set of requests moves when a request enters or leaves it.
LEMMA RequestSets ==
  \A S \in SUBSET Requests :
    /\ \A r \in Requests \ S : Cardinality(S \cup {r}) = Cardinality(S) + 1
    /\ \A r \in S : Cardinality(S \ {r}) = Cardinality(S) - 1
<1> SUFFICES ASSUME NEW S \in SUBSET Requests
             PROVE  /\ \A r \in Requests \ S :
                         Cardinality(S \cup {r}) = Cardinality(S) + 1
                    /\ \A r \in S : Cardinality(S \ {r}) = Cardinality(S) - 1
    OBVIOUS
<1>1. IsFiniteSet(S)
    BY FS_Subset, GatewayConstants
<1> QED
    BY <1>1, FS_CardinalityType, FS_AddElement, FS_RemoveElement

\* What the operations on a pod's counters do to its inflight count.
LEMMA LoadOps ==
  ASSUME NEW c \in Load, NEW n \in Nat, NEW d \in Nat, NEW phase
  PROVE  /\ Enter(c, n) \in Load /\ Enter(c, n).inflight = c.inflight + 1
         /\ AfterAbort(c, phase, n, d) \in Load
         /\ AfterAbort(c, phase, n, d).inflight = c.inflight - 1
         /\ AfterEnd(c, d) \in Load /\ AfterEnd(c, d).inflight = c.inflight - 1
         /\ AfterTokens(c, phase, n, d) \in Load
         /\ AfterTokens(c, phase, n, d).inflight = c.inflight
<1>1. \A e \in Load : Leave(e) \in Load /\ Leave(e).inflight = e.inflight - 1
    BY DEF Load, Leave
<1>p. ASSUME NEW e \in Load
      PROVE  EndPrefill(e, n) \in Load /\ EndPrefill(e, n).inflight = e.inflight
  <2> DEFINE f == [e EXCEPT !.prefillRequests = @ - 1]
  <2>1. f \in Load /\ f.inflight = e.inflight
      BY DEF Load
  <2>2. EndPrefill(e, n) =
          [f EXCEPT !.prefillTokens = IF @ < n THEN @ ELSE @ - n]
      BY DEF Load, EndPrefill
  <2> HIDE DEF f
  <2> QED BY <2>1, <2>2 DEF Load
<1>d. ASSUME NEW e \in Load
      PROVE  EndDecode(e, d) \in Load /\ EndDecode(e, d).inflight = e.inflight
  <2> DEFINE f == [e EXCEPT !.decodeRequests = @ - 1]
  <2>1. f \in Load /\ f.inflight = e.inflight
      BY DEF Load
  <2>2. EndDecode(e, d) =
          IF e.decodeKey THEN [f EXCEPT !.decodeTokens = @ - d] ELSE e
      BY DEF Load, EndDecode
  <2> HIDE DEF f
  <2> QED BY <2>1, <2>2 DEF Load
<1>b. ASSUME NEW e \in Load
      PROVE  BeginDecode(e) \in Load /\ BeginDecode(e).inflight = e.inflight
  <2> DEFINE f == [e EXCEPT !.decodeRequests = @ + 1]
  <2>1. f \in Load /\ f.inflight = e.inflight
      BY DEF Load
  <2>2. BeginDecode(e) = [f EXCEPT !.decodeKey = TRUE]
      BY DEF Load, BeginDecode
  <2> HIDE DEF f
  <2> QED BY <2>1, <2>2 DEF Load
<1>a. ASSUME NEW e \in Load
      PROVE  /\ AddDecodeTokens(e, d) \in Load
             /\ AddDecodeTokens(e, d).inflight = e.inflight
    BY DEF Load, AddDecodeTokens
<1>2. Enter(c, n) \in Load /\ Enter(c, n).inflight = c.inflight + 1
  <2> DEFINE f == [c EXCEPT !.inflight = @ + 1]
             g == [f EXCEPT !.prefillRequests = @ + 1]
  <2>1. f \in Load /\ f.inflight = c.inflight + 1
      BY DEF Load
  <2>2. Enter(c, n) = [g EXCEPT !.prefillTokens = @ + n]
      BY DEF Load, Enter
  <2> HIDE DEF f
  <2>3. g \in Load /\ g.inflight = c.inflight + 1
      BY <2>1 DEF Load
  <2> HIDE DEF g
  <2> QED BY <2>2, <2>3 DEF Load
<1>3. /\ AfterAbort(c, phase, n, d) \in Load
      /\ AfterAbort(c, phase, n, d).inflight = c.inflight - 1
    BY <1>1, <1>p, <1>d DEF AfterAbort
<1>4. AfterEnd(c, d) \in Load /\ AfterEnd(c, d).inflight = c.inflight - 1
    BY <1>1, <1>d DEF AfterEnd
<1>5. /\ AfterTokens(c, phase, n, d) \in Load
      /\ AfterTokens(c, phase, n, d).inflight = c.inflight
    BY <1>p, <1>b, <1>a DEF AfterTokens
<1> QED BY <1>2, <1>3, <1>4, <1>5

\* A routed request enters the count of its pod.
LEMMA InflightJoin ==
  ASSUME TypeOK, InflightCount, NEW r \in Requests, NEW p \in Pods,
         timing[r] = "none",
         target' = [target EXCEPT ![r] = p],
         timing' = [timing EXCEPT ![r] = "prefill"],
         \A q \in Pods : load'[q].inflight =
                           load[q].inflight + (IF q = p THEN 1 ELSE 0)
  PROVE  InflightCount'
<1> SUFFICES ASSUME NEW q \in Pods
             PROVE  load'[q].inflight = Cardinality(Live(q)')
    BY DEF InflightCount
<1>1. Live(q) \in SUBSET Requests /\ r \notin Live(q)
    BY DEF Live
<1>2. Live(q)' = IF q = p THEN Live(q) \cup {r} ELSE Live(q)
    BY DEF Live, TypeOK
<1>3. load[q].inflight = Cardinality(Live(q)) /\ load[q].inflight \in Int
    BY DEF InflightCount, TypeOK, Load
<1> QED BY <1>1, <1>2, <1>3, RequestSets

\* A request whose timing entry is deleted leaves the count of its pod.
LEMMA InflightLeave ==
  ASSUME TypeOK, InflightCount, NEW r \in Requests,
         target[r] \in Pods, timing[r] # "none", target' = target,
         timing' = [timing EXCEPT ![r] = "none"],
         \A q \in Pods : load'[q].inflight =
                           load[q].inflight - (IF q = target[r] THEN 1 ELSE 0)
  PROVE  InflightCount'
<1> SUFFICES ASSUME NEW q \in Pods
             PROVE  load'[q].inflight = Cardinality(Live(q)')
    BY DEF InflightCount
<1>1. Live(q) \in SUBSET Requests /\ (q = target[r] => r \in Live(q))
    BY DEF Live
<1>2. Live(q)' = IF q = target[r] THEN Live(q) \ {r} ELSE Live(q)
    BY DEF Live, TypeOK
<1>3. load[q].inflight = Cardinality(Live(q)) /\ load[q].inflight \in Int
    BY DEF InflightCount, TypeOK, Load
<1> QED BY <1>1, <1>2, <1>3, RequestSets

\* Steps that neither add nor delete a routed request's timing entry.
LEMMA InflightStay ==
  ASSUME InflightCount,
         \A q \in Pods : load'[q].inflight = load[q].inflight,
         \A q \in Pods : Live(q)' = Live(q)
  PROVE  InflightCount'
BY DEF InflightCount

\* A routed request becomes pending.
LEMMA PendingJoin ==
  ASSUME TypeOK, PendingMatches, NEW r \in Requests, NEW p \in Pods,
         r \notin Pending, Pending' = Pending \cup {r},
         target' = [target EXCEPT ![r] = p],
         pendingRequests' = pendingRequests + 1,
         runningRequests' = [runningRequests EXCEPT ![p] = @ + 1]
  PROVE  PendingMatches'
<1>1. Pending \in SUBSET Requests
    BY DEF Pending
<1>2. pendingRequests' = Cardinality(Pending')
    BY <1>1, RequestSets DEF PendingMatches
<1>3. ASSUME NEW q \in Pods
      PROVE  runningRequests'[q] = Cardinality({s \in Pending' : target'[s] = q})
  <2> DEFINE S == {s \in Pending : target[s] = q}
  <2>1. S \in SUBSET Requests /\ r \notin S
      BY <1>1
  <2>2. {s \in Pending' : target'[s] = q} = IF q = p THEN S \cup {r} ELSE S
      BY <1>1 DEF TypeOK
  <2>3. runningRequests[q] = Cardinality(S)
      BY DEF PendingMatches
  <2>4. runningRequests'[q] =
          IF q = p THEN runningRequests[q] + 1 ELSE runningRequests[q]
      BY DEF TypeOK
  <2> HIDE DEF S
  <2> QED BY <2>1, <2>2, <2>3, <2>4, RequestSets
<1> QED BY <1>2, <1>3 DEF PendingMatches

\* A request is counted out by DoneRequest.
LEMMA PendingLeave ==
  ASSUME TypeOK, PendingMatches, NEW r \in Requests,
         r \in Pending, Pending' = Pending \ {r}, target[r] \in Pods,
         target' = target, DoneRequest(r)
  PROVE  PendingMatches'
<1>1. Pending \in SUBSET Requests
    BY DEF Pending
<1>2. pendingRequests' = Cardinality(Pending')
    BY <1>1, RequestSets DEF PendingMatches, DoneRequest
<1>3. ASSUME NEW q \in Pods
      PROVE  runningRequests'[q] = Cardinality({s \in Pending' : target'[s] = q})
  <2> DEFINE S == {s \in Pending : target[s] = q}
  <2>1. S \in SUBSET Requests /\ (q = target[r] => r \in S)
      BY <1>1
  <2>2. {s \in Pending' : target'[s] = q} = IF q = target[r] THEN S \ {r} ELSE S
      BY <1>1
  <2>3. runningRequests[q] = Cardinality(S)
      BY DEF PendingMatches
  <2>4. runningRequests'[q] =
          IF q = target[r] THEN runningRequests[q] - 1 ELSE runningRequests[q]
      BY DEF TypeOK, DoneRequest
  <2> HIDE DEF S
  <2> QED BY <2>1, <2>2, <2>3, <2>4, RequestSets
<1> QED BY <1>2, <1>3 DEF PendingMatches

\* Steps after which the same requests are pending, at the same pods.
LEMMA PendingStay ==
  ASSUME TypeOK, PendingMatches, UNCHANGED counts,
         Pending' = Pending, \A s \in Pending : target'[s] = target[s]
  PROVE  PendingMatches'
<1>1. \A q \in Pods : {s \in Pending' : target'[s] = q}
                        = {s \in Pending : target[s] = q}
    OBVIOUS
<1> QED BY <1>1 DEF PendingMatches, counts

-----------------------------------------------------------------------------
\* A refusal touches no counter.
LEMMA RefuseStep ==
  ASSUME IInv, NEW r \in Requests, Refuse(r)
  PROVE  IInv'
<1> USE DEF IInv
<1>1. TypeOK'
    BY DEF TypeOK, Refuse, request, body, flags, counts
<1>2. InflightCount'
    BY InflightStay DEF Refuse, Live, request
<1>3. PendingMatches'
  <2>1. Pending' = Pending /\ target' = target
      BY DEF Pending, Refuse, request, flags, TypeOK
  <2> QED BY <2>1, PendingStay DEF Refuse
<1>4. LifeCycle'
    BY DEF LifeCycle, Refuse, request, body, flags, TypeOK
<1> QED BY <1>1, <1>2, <1>3, <1>4

\* A routing failure leaves a timing entry, but with no pod to count it.
LEMMA RouteFailStep ==
  ASSUME IInv, NEW r \in Requests, NEW n \in PromptSizes, RouteFail(r, n)
  PROVE  IInv'
<1> USE DEF IInv
<1>1. TypeOK'
    BY GatewayConstants DEF TypeOK, RouteFail, body, flags, counts
<1>2. InflightCount'
  <2>1. \A q \in Pods : Live(q)' = Live(q)
      BY GatewayConstants DEF Live, RouteFail, LifeCycle, TypeOK
  <2> QED BY <2>1, InflightStay DEF RouteFail
<1>3. PendingMatches'
  <2>1. Pending' = Pending /\ target' = target
      BY DEF Pending, RouteFail, flags, TypeOK
  <2> QED BY <2>1, PendingStay DEF RouteFail
<1>4. LifeCycle'
    BY DEF LifeCycle, RouteFail, body, flags, TypeOK
<1> QED BY <1>1, <1>2, <1>3, <1>4

\* A routed request joins both counts.
LEMMA RouteRequestStep ==
  ASSUME IInv, NEW r \in Requests, NEW p \in Pods, NEW k \in Kinds,
         NEW n \in PromptSizes, NEW alg \in SubAlgorithms,
         RouteRequest(r, p, k, n, alg)
  PROVE  IInv'
<1> USE DEF IInv
<1>1. n \in Nat /\ load[p] \in Load
    BY GatewayConstants DEF TypeOK
<1>2. /\ load' \in [Pods -> Load]
      /\ \A q \in Pods : load'[q].inflight =
                          load[q].inflight + (IF q = p THEN 1 ELSE 0)
  <2>1. Enter(load[p], n) \in Load
        /\ Enter(load[p], n).inflight = load[p].inflight + 1
      BY <1>1, LoadOps
  <2>2. load' = [load EXCEPT ![p] = Enter(load[p], n)]
      BY DEF RouteRequest
  <2>3. \A q \in Pods : load[q].inflight \in Int
      BY DEF TypeOK, Load
  <2> QED BY <2>1, <2>2, <2>3 DEF TypeOK
<1>3. TypeOK'
    BY <1>1, <1>2, GatewayConstants
    DEF TypeOK, RouteRequest, body
<1>4. InflightCount'
    BY <1>2, InflightJoin DEF RouteRequest, LifeCycle
<1>5. PendingMatches'
  <2>1. r \notin Pending /\ Pending' = Pending \cup {r}
      BY DEF Pending, RouteRequest, LifeCycle, TypeOK
  <2> QED BY <2>1, PendingJoin DEF RouteRequest
<1>6. LifeCycle'
    BY DEF LifeCycle, RouteRequest, body, TypeOK
<1> QED BY <1>3, <1>4, <1>5, <1>6

\* The response headers touch no counter.
LEMMA ResponseHeadersStep ==
  ASSUME IInv, NEW r \in Requests, NEW err \in BOOLEAN, ResponseHeaders(r, err)
  PROVE  IInv'
<1> USE DEF IInv
<1>1. TypeOK'
    BY DEF TypeOK, ResponseHeaders, request, body, counts
<1>2. InflightCount'
    BY InflightStay DEF ResponseHeaders, Live, request
<1>3. PendingMatches'
  <2>1. Pending' = Pending /\ target' = target
      BY DEF Pending, ResponseHeaders, request, TypeOK
  <2> QED BY <2>1, PendingStay DEF ResponseHeaders
<1>4. LifeCycle'
    BY DEF LifeCycle, ResponseHeaders, request, body, TypeOK
<1> QED BY <1>1, <1>2, <1>3, <1>4

-----------------------------------------------------------------------------
\* The cleanup takes a routed request back once, or finds nothing to do.
LEMMA CleanupMoves ==
  ASSUME TypeOK, InflightCount, NEW r \in Requests, target[r] \in Pods,
         target' = target, CleanupInflightCounters(r)
  PROVE  /\ load' \in [Pods -> Load]
         /\ timing' = [timing EXCEPT ![r] = "none"]
         /\ InflightCount'
<1>1. CASE timing[r] = "none"
  <2>1. timing' = timing /\ load' = load
      BY <1>1 DEF CleanupInflightCounters
  <2>2. timing = [timing EXCEPT ![r] = "none"]
      BY <1>1 DEF TypeOK
  <2> QED BY <2>1, <2>2, InflightStay DEF Live, TypeOK
<1>2. CASE timing[r] # "none"
  <2> DEFINE c == AfterAbort(load[target[r]], timing[r], prompt[r], decoded[r])
  <2>1. c \in Load /\ c.inflight = load[target[r]].inflight - 1
      BY LoadOps DEF TypeOK
  <2>2. /\ timing' = [timing EXCEPT ![r] = "none"]
        /\ load' = [load EXCEPT ![target[r]] = c]
      BY <1>2 DEF CleanupInflightCounters
  <2> HIDE DEF c
  <2>3. \A q \in Pods : load[q].inflight \in Int
      BY DEF TypeOK, Load
  <2>4. /\ load' \in [Pods -> Load]
        /\ \A q \in Pods : load'[q].inflight =
             load[q].inflight - (IF q = target[r] THEN 1 ELSE 0)
      BY <2>1, <2>2, <2>3 DEF TypeOK
  <2> QED BY <1>2, <2>2, <2>4, InflightLeave
<1> QED BY <1>1, <1>2

\* What Finish does, when a completed request does not become uncompleted.
LEMMA FinishMoves ==
  ASSUME TypeOK, PendingMatches, LifeCycle, NEW r \in Requests,
         NEW complete \in BOOLEAN, NEW eos \in BOOLEAN, pc[r] = "body",
         NextFrame(r, eos), Finish(r, complete), completed[r] => complete
  PROVE  /\ PendingMatches'
         /\ completed' = [completed EXCEPT ![r] = complete]
         /\ requestCounted' \in [Requests -> BOOLEAN]
         /\ inflightCleaned' \in [Requests -> BOOLEAN]
         /\ pendingRequests' \in Int /\ runningRequests' \in [Pods -> Int]
         /\ requestCounted'[r] <=> ~complete
         /\ inflightCleaned'[r] => inflightCleaned[r] \/ timing'[r] = "none"
         /\ \A s \in Requests \ {r} : /\ requestCounted'[s] = requestCounted[s]
                                      /\ inflightCleaned'[s] = inflightCleaned[s]
         /\ UNCHANGED <<kind, target, prompt, isRespError>>
<1>1. target[r] \in Pods /\ (requestCounted[r] <=> ~completed[r])
    BY DEF LifeCycle
<1>2. CASE complete /\ ~completed[r]
  <2>1. /\ completed' = [completed EXCEPT ![r] = complete]
        /\ DoneRequest(r)
        /\ requestCounted' = [requestCounted EXCEPT ![r] = FALSE]
        /\ inflightCleaned' = [inflightCleaned EXCEPT ![r] = timing'[r] = "none"]
        /\ UNCHANGED <<kind, target, prompt, isRespError>>
      BY <1>2 DEF Finish, request
  <2>2. r \in Pending /\ Pending' = Pending \ {r}
      BY <1>2, <2>1 DEF Pending, NextFrame, TypeOK
  <2>3. PendingMatches'
      BY <1>1, <2>1, <2>2, PendingLeave
  <2>4. pendingRequests' \in Int /\ runningRequests' \in [Pods -> Int]
      BY <1>1, <2>1 DEF DoneRequest, TypeOK
  <2> QED BY <1>2, <2>1, <2>3, <2>4 DEF TypeOK
<1>3. CASE ~(complete /\ ~completed[r])
  <2>1. /\ completed' = [completed EXCEPT ![r] = complete]
        /\ UNCHANGED <<counts, requestCounted, inflightCleaned>>
        /\ UNCHANGED <<kind, target, prompt, isRespError>>
      BY <1>3 DEF Finish, request
  <2>2. complete = completed[r]
      BY <1>3 DEF TypeOK
  <2>3. Pending' = Pending
      BY <2>1, <2>2 DEF Pending, NextFrame, TypeOK
  <2>4. PendingMatches'
      BY <2>1, <2>3, PendingStay
  <2> QED BY <1>1, <2>1, <2>2, <2>4 DEF TypeOK, counts
<1> QED BY <1>2, <1>3

\* The first frame of an error response takes the request back.
LEMMA ErrorBodyStep ==
  ASSUME IInv, NEW r \in Requests, NEW eos \in BOOLEAN, ErrorBody(r, eos)
  PROVE  IInv'
<1> USE DEF IInv
<1>1. /\ pc[r] = "body" /\ isRespError[r] /\ target[r] \in Pods
      /\ pc' = [pc EXCEPT ![r] = IF eos THEN "eos" ELSE "body"]
      /\ UNCHANGED <<request, decoded, split, parsed, reply, isRespError,
                     requestCounted, completed, counts>>
    BY DEF ErrorBody, LifeCycle, NextFrame
<1>2. /\ load' \in [Pods -> Load] /\ InflightCount'
      /\ timing' = [timing EXCEPT ![r] = "none"]
      /\ inflightCleaned' = [inflightCleaned EXCEPT ![r] = TRUE]
      /\ usageCached' \in [Requests -> BOOLEAN]
      /\ \A s \in Requests \ {r} : usageCached'[s] = usageCached[s]
      /\ held' \in [Requests -> {"none", "lmetric", "mooncake", "preble"}]
  <2>1. CASE inflightCleaned[r]
    <3>1. UNCHANGED <<timing, load, usageCached, held, inflightCleaned>>
        BY <2>1 DEF ErrorBody
    <3>2. timing[r] = "none"
        BY <2>1 DEF LifeCycle
    <3>3. InflightCount'
        BY <1>1, <3>1, InflightStay DEF Live, request
    <3> QED BY <2>1, <3>1, <3>2, <3>3 DEF TypeOK
  <2>2. CASE ~inflightCleaned[r]
    <3>1. /\ CleanupRequest(r)
          /\ inflightCleaned' = [inflightCleaned EXCEPT ![r] = TRUE]
        BY <2>2 DEF ErrorBody
    <3>2. /\ load' \in [Pods -> Load] /\ InflightCount'
          /\ timing' = [timing EXCEPT ![r] = "none"]
        BY <1>1, <3>1, CleanupMoves DEF CleanupRequest, request
    <3>3. held' \in [Requests -> {"none", "lmetric", "mooncake", "preble"}]
        BY <3>1
        DEF CleanupRequest, TypeOK, AfterAbortHeld, PrebleOnRequestComplete
    <3> QED BY <3>1, <3>2, <3>3 DEF CleanupRequest, TypeOK
  <2> QED BY <2>1, <2>2
<1>3. TypeOK'
    BY <1>1, <1>2 DEF TypeOK, request, counts
<1>4. PendingMatches'
  <2>1. Pending' = Pending /\ target' = target
      BY <1>1 DEF Pending, request, TypeOK
  <2> QED BY <1>1, <2>1, PendingStay
<1>5. LifeCycle'
    BY <1>1, <1>2 DEF LifeCycle, request, TypeOK
<1> QED BY <1>2, <1>3, <1>4, <1>5

\* A streamed frame: the last one takes the request back, any other may move it
\* from prefill to decode.
LEMMA StreamFrameStep ==
  ASSUME IInv, NEW r \in Requests, NEW toks \in 0..MaxTokens,
         NEW usage \in BOOLEAN, NEW eos \in BOOLEAN,
         StreamFrame(r, toks, usage, eos)
  PROVE  IInv'
<1> USE DEF IInv
<1> DEFINE d == decoded[r] + toks
           phase == PhaseAfter(timing[r], toks)
           c == AfterTokens(load[target[r]], timing[r], prompt[r], toks)
           e == IF eos THEN AfterEnd(c, d) ELSE c
           cached == usageCached[r] \/ usage
<1>1. /\ pc[r] = "body" /\ ~isRespError[r] /\ kind[r] = "stream"
      /\ timing[r] # "none" /\ target[r] \in Pods
      /\ NextFrame(r, eos) /\ Finish(r, cached \/ eos)
      /\ decoded' = [decoded EXCEPT ![r] = d]
      /\ timing' = [timing EXCEPT ![r] = IF eos THEN "none" ELSE phase]
      /\ load' = [load EXCEPT ![target[r]] = e]
      /\ usageCached' = [usageCached EXCEPT ![r] = cached /\ ~eos]
      /\ held' \in [Requests -> {"none", "lmetric", "mooncake", "preble"}]
      /\ UNCHANGED <<split, parsed, reply>>
    BY DEF StreamFrame, Body, LifeCycle, TypeOK, HeldAfter
<1>2. /\ toks \in Nat /\ d \in Nat /\ prompt[r] \in Nat
      /\ load[target[r]] \in Load /\ cached \in BOOLEAN
    BY <1>1, GatewayConstants DEF TypeOK
<1>3. phase \in {"prefill", "decode"}
    BY <1>1 DEF PhaseAfter, TypeOK
<1>4. e \in Load /\ e.inflight = load[target[r]].inflight - (IF eos THEN 1 ELSE 0)
  <2>1. c \in Load /\ c.inflight = load[target[r]].inflight
      BY <1>2, LoadOps
  <2>2. AfterEnd(c, d) \in Load /\ AfterEnd(c, d).inflight = c.inflight - 1
      BY <1>2, <2>1, LoadOps
  <2>3. load[target[r]].inflight \in Int
      BY <1>2 DEF Load
  <2> HIDE DEF c, d
  <2> QED BY <2>1, <2>2, <2>3
<1> HIDE DEF e, d, phase, cached
<1>5. (completed[r] => cached \/ eos) /\ (cached \/ eos) \in BOOLEAN
    BY <1>1, <1>2 DEF LifeCycle, cached
<1>6. /\ PendingMatches'
      /\ completed' = [completed EXCEPT ![r] = cached \/ eos]
      /\ requestCounted' \in [Requests -> BOOLEAN]
      /\ inflightCleaned' \in [Requests -> BOOLEAN]
      /\ pendingRequests' \in Int /\ runningRequests' \in [Pods -> Int]
      /\ requestCounted'[r] <=> ~(cached \/ eos)
      /\ inflightCleaned'[r] => inflightCleaned[r] \/ timing'[r] = "none"
      /\ \A s \in Requests \ {r} : /\ requestCounted'[s] = requestCounted[s]
                                   /\ inflightCleaned'[s] = inflightCleaned[s]
      /\ UNCHANGED <<kind, target, prompt, isRespError>>
    BY <1>1, <1>5, FinishMoves
<1>7. load' \in [Pods -> Load]
    BY <1>1, <1>4 DEF TypeOK
<1>8. InflightCount'
  <2>1. \A q \in Pods : load[q].inflight \in Int
      BY DEF TypeOK, Load
  <2>2. CASE eos
    <3>1. \A q \in Pods : load'[q].inflight =
             load[q].inflight - (IF q = target[r] THEN 1 ELSE 0)
        BY <1>1, <1>4, <2>1, <2>2 DEF TypeOK
    <3> QED BY <1>1, <1>6, <2>2, <3>1, InflightLeave
  <2>3. CASE ~eos
    <3>1. \A q \in Pods : load'[q].inflight = load[q].inflight
        BY <1>1, <1>4, <2>1, <2>3 DEF TypeOK
    <3>2. \A q \in Pods : Live(q)' = Live(q)
        BY <1>1, <1>3, <1>6, <2>3 DEF Live, TypeOK
    <3> QED BY <3>1, <3>2, InflightStay
  <2> QED BY <2>2, <2>3
<1>9. TypeOK'
    BY <1>1, <1>2, <1>3, <1>6, <1>7 DEF TypeOK, NextFrame
<1>10. LifeCycle'
    BY <1>1, <1>2, <1>3, <1>6 DEF LifeCycle, TypeOK, NextFrame
<1> QED BY <1>6, <1>8, <1>9, <1>10

\* A frame that breaks off takes the request back, in whichever phase it is.
LEMMA StreamErrorStep ==
  ASSUME IInv, NEW r \in Requests, NEW toks \in 0..MaxTokens,
         NEW eos \in BOOLEAN, StreamError(r, toks, eos)
  PROVE  IInv'
<1> USE DEF IInv
<1> DEFINE d == decoded[r] + toks
           phase == PhaseAfter(timing[r], toks)
           c == AfterTokens(load[target[r]], timing[r], prompt[r], toks)
           e == AfterAbort(c, phase, prompt[r], d)
<1>1. /\ pc[r] = "body" /\ ~isRespError[r] /\ kind[r] = "stream"
      /\ timing[r] # "none" /\ target[r] \in Pods
      /\ NextFrame(r, eos) /\ Finish(r, TRUE)
      /\ decoded' = [decoded EXCEPT ![r] = d]
      /\ timing' = [timing EXCEPT ![r] = "none"]
      /\ load' = [load EXCEPT ![target[r]] = e]
      /\ held' \in [Requests -> {"none", "lmetric", "mooncake", "preble"}]
      /\ reply' = [reply EXCEPT ![r] = "streaming"]
      /\ UNCHANGED <<usageCached, split, parsed>>
    BY DEF StreamError, Body, LifeCycle, TypeOK, HeldAfter, AfterAbortHeld
<1>2. /\ toks \in Nat /\ d \in Nat /\ prompt[r] \in Nat
      /\ load[target[r]] \in Load
    BY <1>1, GatewayConstants DEF TypeOK
<1>3. e \in Load /\ e.inflight = load[target[r]].inflight - 1
  <2>1. c \in Load /\ c.inflight = load[target[r]].inflight
      BY <1>2, LoadOps
  <2> HIDE DEF c
  <2> QED BY <1>2, <2>1, LoadOps
<1> HIDE DEF e, d
<1>4. /\ PendingMatches'
      /\ completed' = [completed EXCEPT ![r] = TRUE]
      /\ requestCounted' \in [Requests -> BOOLEAN]
      /\ inflightCleaned' \in [Requests -> BOOLEAN]
      /\ pendingRequests' \in Int /\ runningRequests' \in [Pods -> Int]
      /\ ~requestCounted'[r]
      /\ \A s \in Requests \ {r} : /\ requestCounted'[s] = requestCounted[s]
                                   /\ inflightCleaned'[s] = inflightCleaned[s]
      /\ UNCHANGED <<kind, target, prompt, isRespError>>
    BY <1>1, FinishMoves
<1>5. load' \in [Pods -> Load]
    BY <1>1, <1>3 DEF TypeOK
<1>6. InflightCount'
  <2>1. \A q \in Pods : load[q].inflight \in Int
      BY DEF TypeOK, Load
  <2>2. \A q \in Pods : load'[q].inflight =
           load[q].inflight - (IF q = target[r] THEN 1 ELSE 0)
      BY <1>1, <1>3, <2>1 DEF TypeOK
  <2> QED BY <1>1, <1>4, <2>2, InflightLeave
<1>7. TypeOK'
    BY <1>1, <1>2, <1>4, <1>5 DEF TypeOK, NextFrame
<1>8. LifeCycle'
    BY <1>1, <1>4 DEF LifeCycle, TypeOK, NextFrame
<1> QED BY <1>4, <1>6, <1>7, <1>8

\* A frame after the timing entry is gone only completes the request.
LEMMA StreamLateStep ==
  ASSUME IInv, NEW r \in Requests, NEW late \in BOOLEAN, NEW eos \in BOOLEAN,
         StreamLate(r, late, eos)
  PROVE  IInv'
<1> USE DEF IInv
<1> DEFINE complete == completed[r] \/ late \/ eos
<1>1. /\ pc[r] = "body" /\ ~isRespError[r] /\ kind[r] = "stream"
      /\ timing[r] = "none" /\ target[r] \in Pods
      /\ NextFrame(r, eos) /\ Finish(r, complete)
      /\ UNCHANGED <<timing, body, held, load>>
    BY DEF StreamLate, Body, LifeCycle
<1>2. complete \in BOOLEAN /\ (completed[r] => complete)
    BY DEF TypeOK
<1> HIDE DEF complete
<1>3. /\ PendingMatches'
      /\ completed' = [completed EXCEPT ![r] = complete]
      /\ requestCounted' \in [Requests -> BOOLEAN]
      /\ inflightCleaned' \in [Requests -> BOOLEAN]
      /\ pendingRequests' \in Int /\ runningRequests' \in [Pods -> Int]
      /\ requestCounted'[r] <=> ~complete
      /\ \A s \in Requests \ {r} : /\ requestCounted'[s] = requestCounted[s]
                                   /\ inflightCleaned'[s] = inflightCleaned[s]
      /\ UNCHANGED <<kind, target, prompt, isRespError>>
    BY <1>1, <1>2, FinishMoves
<1>4. InflightCount'
    BY <1>1, <1>3, InflightStay DEF Live
<1>5. TypeOK'
    BY <1>1, <1>2, <1>3 DEF TypeOK, NextFrame, body
<1>6. LifeCycle'
    BY <1>1, <1>2, <1>3 DEF LifeCycle, TypeOK, NextFrame, body
<1> QED BY <1>3, <1>4, <1>5, <1>6

\* A buffered frame touches no counter.
LEMMA PlainFrameStep ==
  ASSUME IInv, NEW r \in Requests, PlainFrame(r)
  PROVE  IInv'
<1> USE DEF IInv
<1>1. TypeOK'
    BY DEF TypeOK, PlainFrame, request, flags, counts
<1>2. InflightCount'
    BY InflightStay DEF PlainFrame, Live, request
<1>3. PendingMatches'
  <2>1. Pending' = Pending /\ target' = target
      BY DEF Pending, PlainFrame, request, flags
  <2> QED BY <2>1, PendingStay DEF PlainFrame
<1>4. LifeCycle'
    BY DEF LifeCycle, PlainFrame, request, flags
<1> QED BY <1>1, <1>2, <1>3, <1>4

\* The end of a plain body: taken back if it parses, left to Exit if not.
LEMMA PlainEndStep ==
  ASSUME IInv, NEW r \in Requests, NEW good \in BOOLEAN, PlainEnd(r, good)
  PROVE  IInv'
<1> USE DEF IInv
<1> DEFINE e == AfterEnd(load[target[r]], decoded[r])
<1>1. /\ pc[r] = "body" /\ ~isRespError[r] /\ kind[r] = "plain"
      /\ timing[r] = "prefill" /\ target[r] \in Pods /\ ~completed[r]
      /\ NextFrame(r, TRUE) /\ Finish(r, TRUE)
      /\ timing' = [timing EXCEPT ![r] = IF good THEN "none" ELSE "decode"]
      /\ IF good THEN load' = [load EXCEPT ![target[r]] = e] ELSE load' = load
      /\ UNCHANGED <<decoded, usageCached>>
    BY DEF PlainEnd, SecondParse, Body, LifeCycle
<1>2. /\ split' \in [Requests -> BOOLEAN] /\ parsed' \in [Requests -> BOOLEAN]
      /\ reply' \in [Requests -> {"none", "body", "unmarshal", "streaming"}]
      /\ held' \in [Requests -> {"none", "lmetric", "mooncake", "preble"}]
    BY DEF PlainEnd, SecondParse, TypeOK
<1>3. e \in Load /\ e.inflight = load[target[r]].inflight - 1
  <2>1. load[target[r]] \in Load /\ decoded[r] \in Nat
      BY <1>1 DEF TypeOK
  <2> QED BY <2>1, LoadOps
<1> HIDE DEF e
<1>4. /\ PendingMatches'
      /\ completed' = [completed EXCEPT ![r] = TRUE]
      /\ requestCounted' \in [Requests -> BOOLEAN]
      /\ inflightCleaned' \in [Requests -> BOOLEAN]
      /\ pendingRequests' \in Int /\ runningRequests' \in [Pods -> Int]
      /\ ~requestCounted'[r]
      /\ inflightCleaned'[r] => inflightCleaned[r] \/ timing'[r] = "none"
      /\ \A s \in Requests \ {r} : /\ requestCounted'[s] = requestCounted[s]
                                   /\ inflightCleaned'[s] = inflightCleaned[s]
      /\ UNCHANGED <<kind, target, prompt, isRespError>>
    BY <1>1, FinishMoves
<1>5. load' \in [Pods -> Load]
    BY <1>1, <1>3 DEF TypeOK
<1>6. InflightCount'
  <2>1. \A q \in Pods : load[q].inflight \in Int
      BY DEF TypeOK, Load
  <2>2. CASE good
    <3>1. \A q \in Pods : load'[q].inflight =
             load[q].inflight - (IF q = target[r] THEN 1 ELSE 0)
        BY <1>1, <1>3, <2>1, <2>2 DEF TypeOK
    <3> QED BY <1>1, <1>4, <2>2, <3>1, InflightLeave
  <2>3. CASE ~good
    <3>1. load' = load
        BY <1>1, <2>3
    <3>2. \A q \in Pods : Live(q)' = Live(q)
        BY <1>1, <1>4, <2>3 DEF Live, TypeOK
    <3> QED BY <3>1, <3>2, InflightStay
  <2> QED BY <2>2, <2>3
<1>7. TypeOK'
    BY <1>1, <1>2, <1>4, <1>5 DEF TypeOK, NextFrame
<1>8. LifeCycle'
    BY <1>1, <1>4 DEF LifeCycle, TypeOK, NextFrame
<1> QED BY <1>4, <1>6, <1>7, <1>8

\* The deferred function of Process.
LEMMA ExitStep ==
  ASSUME IInv, NEW r \in Requests, Exit(r)
  PROVE  IInv'
<1> USE DEF IInv
<1>1. /\ pc[r] # "done" /\ pc' = [pc EXCEPT ![r] = "done"]
      /\ UNCHANGED <<request, decoded, split, parsed, reply, flags>>
      /\ target[r] = NoPod \/ target[r] \in Pods
    BY DEF Exit, TypeOK
<1>2. /\ load' \in [Pods -> Load] /\ InflightCount'
      /\ timing' \in [Requests -> {"none", "prefill", "decode"}]
      /\ \A s \in Requests \ {r} : /\ timing'[s] = timing[s]
                                   /\ usageCached'[s] = usageCached[s]
      /\ target[r] # NoPod => timing'[r] = "none"
      /\ inflightCleaned[r] => timing'[r] = "none"
      /\ usageCached' \in [Requests -> BOOLEAN]
      /\ held' \in [Requests -> {"none", "lmetric", "mooncake", "preble"}]
  <2>1. CASE target[r] # NoPod /\ ~inflightCleaned[r]
    <3>1. CleanupRequest(r)
        BY <2>1 DEF Exit
    <3>2. /\ load' \in [Pods -> Load] /\ InflightCount'
          /\ timing' = [timing EXCEPT ![r] = "none"]
        BY <1>1, <2>1, <3>1, CleanupMoves DEF CleanupRequest, request
    <3>3. held' \in [Requests -> {"none", "lmetric", "mooncake", "preble"}]
        BY <3>1
        DEF CleanupRequest, TypeOK, AfterAbortHeld, PrebleOnRequestComplete
    <3> QED BY <3>1, <3>2, <3>3 DEF CleanupRequest, TypeOK
  <2>2. CASE ~(target[r] # NoPod /\ ~inflightCleaned[r])
    <3>1. UNCHANGED <<timing, load, usageCached, held>>
        BY <2>2 DEF Exit
    <3>2. InflightCount'
        BY <1>1, <3>1, InflightStay DEF Live, request
    <3> QED BY <2>2, <3>1, <3>2 DEF TypeOK, LifeCycle
  <2> QED BY <2>1, <2>2
<1>3. PendingMatches' /\ pendingRequests' \in Int
      /\ runningRequests' \in [Pods -> Int]
  <2>1. requestCounted[r] => target[r] \in Pods /\ r \in Pending
      BY <1>1 DEF LifeCycle, Pending, TypeOK
  <2>2. CASE requestCounted[r]
    <3>1. DoneRequest(r)
        BY <2>2 DEF Exit
    <3>2. Pending' = Pending \ {r}
        BY <1>1 DEF Pending, flags, TypeOK
    <3>3. PendingMatches'
        BY <1>1, <2>1, <2>2, <3>1, <3>2, PendingLeave DEF request
    <3> QED BY <2>1, <2>2, <3>1, <3>3 DEF DoneRequest, TypeOK
  <2>3. CASE ~requestCounted[r]
    <3>1. UNCHANGED counts
        BY <2>3 DEF Exit
    <3>2. Pending' = Pending
        BY <1>1, <2>3 DEF Pending, flags, TypeOK, LifeCycle
    <3>3. PendingMatches'
        BY <1>1, <3>1, <3>2, PendingStay DEF request
    <3> QED BY <3>1, <3>3 DEF TypeOK, counts
  <2> QED BY <2>2, <2>3
<1>4. TypeOK'
    BY <1>1, <1>2, <1>3 DEF TypeOK, request, flags
<1>5. LifeCycle'
    BY <1>1, <1>2 DEF LifeCycle, TypeOK, request, flags
<1> QED BY <1>2, <1>3, <1>4, <1>5

-----------------------------------------------------------------------------
\* No request has started: every count is zero and every set is empty.
LEMMA InitIInv == Init => IInv
<1> SUFFICES ASSUME Init PROVE IInv
    OBVIOUS
<1>1. TypeOK
    BY GatewayConstants DEF Init, TypeOK, Load
<1>2. (\A q \in Pods : Live(q) = {}) /\ Pending = {}
    BY DEF Init, Live, Pending
<1>3. Cardinality({}) = 0
    BY FS_EmptySet
<1>4. InflightCount
    BY <1>2, <1>3 DEF InflightCount, Init
<1>5. PendingMatches
  <2>1. \A q \in Pods : {s \in Pending : target[s] = q} = {}
      BY <1>2
  <2> QED BY <1>2, <1>3, <2>1 DEF PendingMatches, Init
<1>6. LifeCycle
    BY DEF LifeCycle, Init
<1> QED BY <1>1, <1>4, <1>5, <1>6 DEF IInv

\* Every step of a request, and a stuttering step, keeps the invariant.
LEMMA NextIInv == IInv /\ [Next]_vars => IInv'
<1> SUFFICES ASSUME IInv, [Next]_vars PROVE IInv'
    OBVIOUS
<1>1. ASSUME NEW r \in Requests, ProcessStep(r)
      PROVE  IInv'
    BY <1>1, RefuseStep, RouteFailStep, RouteRequestStep, ResponseHeadersStep,
       ErrorBodyStep, StreamFrameStep, StreamErrorStep, StreamLateStep,
       PlainFrameStep, PlainEndStep, ExitStep
    DEF ProcessStep
<1>2. CASE UNCHANGED vars
  <2>1. /\ \A q \in Pods : Live(q)' = Live(q)
        /\ Pending' = Pending
      BY <1>2 DEF vars, request, flags, Live, Pending
  <2>2. InflightCount' /\ PendingMatches'
      BY <1>2, <2>1, InflightStay, PendingStay
      DEF IInv, vars, request, counts
  <2>3. TypeOK'
      BY <1>2 DEF IInv, TypeOK, vars, request, body, flags, counts
  <2>4. LifeCycle'
      BY <1>2 DEF IInv, LifeCycle, vars, request, body, flags, counts
  <2> QED BY <2>2, <2>3, <2>4 DEF IInv
<1> QED BY <1>1, <1>2 DEF Next

\* The inductive invariant holds throughout.
THEOREM IInvAlways == Spec => []IInv
BY InitIInv, NextIInv, PTL DEF Spec

\* podInflightRequests is exact for every pod, and a routed request is taken back
\* by the time Process has returned, whatever the response and however it ends.
THEOREM InflightMatchesAlways == Spec => []InflightMatches
<1>1. IInv => InflightMatches
    BY DEF IInv, InflightCount, InflightMatches, LifeCycle
<1> QED BY <1>1, IInvAlways, PTL

\* pendingRequests and runningRequests are exact: each routed request is counted
\* in once and counted out once.
THEOREM PendingMatchesAlways == Spec => []PendingMatches
<1>1. IInv => PendingMatches
    BY DEF IInv
<1> QED BY <1>1, IInvAlways, PTL

-----------------------------------------------------------------------------
\* What the ledger of reservations rests on: nothing is decoded in the prefill
\* phase, only routed requests hold a reservation, and a response that took the
\* inflight entry back while Preble's was held has completed the request.
Ledger ==
  \A r \in Requests :
    /\ pc[r] = "start" \/ timing[r] = "prefill" => decoded[r] = 0
    /\ target[r] = NoPod => held[r] = "none"
    /\ inflightCleaned[r] /\ held[r] = "preble" => completed[r]

\* What one request's step does to the ledger is a matter of that request.
LEMMA LedgerOthers ==
  ASSUME Ledger, ReservationsMatch, NEW r \in Requests,
         \A s \in Requests \ {r} :
           /\ pc'[s] = pc[s] /\ timing'[s] = timing[s] /\ decoded'[s] = decoded[s]
           /\ target'[s] = target[s] /\ held'[s] = held[s] /\ kind'[s] = kind[s]
           /\ inflightCleaned'[s] = inflightCleaned[s]
           /\ completed'[s] = completed[s],
         /\ pc'[r] = "start" \/ timing'[r] = "prefill" => decoded'[r] = 0
         /\ target'[r] = NoPod => held'[r] = "none"
         /\ inflightCleaned'[r] /\ held'[r] = "preble" => completed'[r],
         /\ held'[r] = "mooncake" => timing'[r] # "none"
         /\ held'[r] = "lmetric" =>
              \/ timing'[r] = "prefill"
              \/ completed'[r] /\ (kind'[r] = "plain" \/ decoded'[r] = 0)
         /\ held'[r] = "preble" /\ pc'[r] = "done" => completed'[r]
  PROVE  Ledger' /\ ReservationsMatch'
BY DEF Ledger, ReservationsMatch

\* Every step keeps the ledger.
LEMMA LedgerNext ==
  ASSUME IInv, Ledger, ReservationsMatch, [Next]_vars
  PROVE  Ledger' /\ ReservationsMatch'
<1> USE DEF request, body, flags, counts
<1>1. ASSUME NEW r \in Requests, ProcessStep(r)
      PROVE  Ledger' /\ ReservationsMatch'
  <2>0. /\ pc[r] = "start" \/ timing[r] = "prefill" => decoded[r] = 0
        /\ target[r] = NoPod => held[r] = "none"
        /\ inflightCleaned[r] /\ held[r] = "preble" => completed[r]
        /\ held[r] = "mooncake" => timing[r] # "none"
        /\ held[r] = "lmetric" =>
             \/ timing[r] = "prefill"
             \/ completed[r] /\ (kind[r] = "plain" \/ decoded[r] = 0)
        /\ held[r] = "preble" /\ pc[r] = "done" => completed[r]
      BY DEF Ledger, ReservationsMatch
  <2>1. CASE Refuse(r)
      BY <2>0, <2>1, LedgerOthers DEF Refuse, IInv, TypeOK, LifeCycle
  <2>2. ASSUME NEW n \in PromptSizes, RouteFail(r, n)
        PROVE  Ledger' /\ ReservationsMatch'
      BY <2>0, <2>2, LedgerOthers DEF RouteFail, IInv, TypeOK, LifeCycle
  <2>3. ASSUME NEW p \in Pods, NEW k \in Kinds, NEW n \in PromptSizes,
               NEW alg \in SubAlgorithms, RouteRequest(r, p, k, n, alg)
        PROVE  Ledger' /\ ReservationsMatch'
      BY <2>0, <2>3, LedgerOthers, GatewayConstants
      DEF RouteRequest, IInv, TypeOK, LifeCycle
  <2>4. ASSUME NEW err \in BOOLEAN, ResponseHeaders(r, err)
        PROVE  Ledger' /\ ReservationsMatch'
      BY <2>0, <2>4, LedgerOthers DEF ResponseHeaders, IInv, TypeOK
  <2>5. ASSUME NEW eos \in BOOLEAN, ErrorBody(r, eos)
        PROVE  Ledger' /\ ReservationsMatch'
    <3>1. CASE inflightCleaned[r]
        BY <2>0, <2>5, <3>1, LedgerOthers DEF ErrorBody, NextFrame, IInv, TypeOK
    <3>2. CASE ~inflightCleaned[r]
        BY <2>0, <2>5, <3>2, LedgerOthers
        DEF ErrorBody, NextFrame, CleanupRequest, CleanupInflightCounters,
            AfterAbortHeld, PrebleOnRequestComplete, IInv, TypeOK
    <3> QED BY <3>1, <3>2
  <2>6. ASSUME NEW toks \in 0..MaxTokens, NEW usage \in BOOLEAN, NEW eos \in BOOLEAN,
               StreamFrame(r, toks, usage, eos)
        PROVE  Ledger' /\ ReservationsMatch'
    <3>1. /\ pc[r] = "body" /\ kind[r] = "stream" /\ timing[r] # "none"
          /\ pc' = [pc EXCEPT ![r] = IF eos THEN "eos" ELSE "body"]
          /\ decoded' = [decoded EXCEPT ![r] = decoded[r] + toks]
          /\ timing' = [timing EXCEPT ![r] =
                          IF eos THEN "none" ELSE PhaseAfter(timing[r], toks)]
          /\ held' = [held EXCEPT ![r] =
               IF eos /\ HeldAfter(held[r], toks) = "mooncake" THEN "none"
               ELSE HeldAfter(held[r], toks)]
          /\ Finish(r, (usageCached[r] \/ usage) \/ eos)
        BY <2>6 DEF StreamFrame, Body, NextFrame
    <3>2. /\ UNCHANGED <<kind, target>>
          /\ completed' = [completed EXCEPT ![r] = (usageCached[r] \/ usage) \/ eos]
          /\ \/ /\ completed'[r]
                /\ inflightCleaned' = [inflightCleaned EXCEPT ![r] = timing'[r] = "none"]
             \/ inflightCleaned' = inflightCleaned
        BY <3>1 DEF Finish, IInv, TypeOK
    <3>3. completed[r] => completed'[r]
        BY <3>1, <3>2 DEF IInv, TypeOK, LifeCycle
    <3>4. toks \in Nat /\ decoded[r] \in Nat
        BY GatewayConstants DEF IInv, TypeOK
    <3>5. target[r] \in Pods /\ NoPod \notin Pods
        BY <3>1, GatewayConstants DEF IInv, LifeCycle
    <3> QED BY <2>0, <3>1, <3>2, <3>3, <3>4, <3>5, LedgerOthers
            DEF PhaseAfter, HeldAfter, IInv, TypeOK
  <2>7. ASSUME NEW toks \in 0..MaxTokens, NEW eos \in BOOLEAN, StreamError(r, toks, eos)
        PROVE  Ledger' /\ ReservationsMatch'
    <3>1. /\ pc[r] = "body" /\ kind[r] = "stream" /\ timing[r] # "none"
          /\ pc' = [pc EXCEPT ![r] = IF eos THEN "eos" ELSE "body"]
          /\ decoded' = [decoded EXCEPT ![r] = decoded[r] + toks]
          /\ timing' = [timing EXCEPT ![r] = "none"]
          /\ held' = [held EXCEPT ![r] =
               AfterAbortHeld(HeldAfter(held[r], toks), PhaseAfter(timing[r], toks))]
          /\ Finish(r, TRUE)
        BY <2>7 DEF StreamError, Body, NextFrame
    <3>2. /\ UNCHANGED <<kind, target>>
          /\ completed' = [completed EXCEPT ![r] = TRUE]
          /\ \/ inflightCleaned' = [inflightCleaned EXCEPT ![r] = timing'[r] = "none"]
             \/ inflightCleaned' = inflightCleaned
        BY <3>1 DEF Finish, IInv, TypeOK
    <3>4. toks \in Nat /\ decoded[r] \in Nat
        BY GatewayConstants DEF IInv, TypeOK
    <3>5. target[r] \in Pods /\ NoPod \notin Pods
        BY <3>1, GatewayConstants DEF IInv, LifeCycle
    <3>6. completed'[r] = TRUE /\ timing'[r] = "none" /\ pc'[r] # "start"
        BY <3>1, <3>2 DEF IInv, TypeOK
    <3>7. /\ decoded'[r] = decoded[r] + toks /\ target'[r] # NoPod
          /\ held'[r] = AfterAbortHeld(HeldAfter(held[r], toks), PhaseAfter(timing[r], toks))
        BY <3>1, <3>2, <3>5 DEF IInv, TypeOK
    <3>8. /\ held'[r] # "mooncake"
          /\ held'[r] = "lmetric" => decoded'[r] = 0
        BY <2>0, <3>1, <3>4, <3>7 DEF PhaseAfter, HeldAfter, AfterAbortHeld, IInv, TypeOK
    <3>9. \A s \in Requests \ {r} :
            /\ pc'[s] = pc[s] /\ timing'[s] = timing[s] /\ decoded'[s] = decoded[s]
            /\ target'[s] = target[s] /\ held'[s] = held[s] /\ kind'[s] = kind[s]
            /\ inflightCleaned'[s] = inflightCleaned[s]
            /\ completed'[s] = completed[s]
        BY <3>1, <3>2 DEF IInv, TypeOK
    <3> QED BY <3>6, <3>7, <3>8, <3>9, LedgerOthers
  <2>8. ASSUME NEW late \in BOOLEAN, NEW eos \in BOOLEAN, StreamLate(r, late, eos)
        PROVE  Ledger' /\ ReservationsMatch'
    <3>1. /\ pc[r] = "body" /\ UNCHANGED <<decoded, timing, held>>
          /\ pc' = [pc EXCEPT ![r] = IF eos THEN "eos" ELSE "body"]
          /\ Finish(r, completed[r] \/ late \/ eos)
        BY <2>8 DEF StreamLate, Body, NextFrame
    <3>2. /\ UNCHANGED <<kind, target>>
          /\ completed' = [completed EXCEPT ![r] = completed[r] \/ late \/ eos]
          /\ \/ /\ completed'[r]
                /\ inflightCleaned' = [inflightCleaned EXCEPT ![r] = timing'[r] = "none"]
             \/ inflightCleaned' = inflightCleaned
        BY <3>1 DEF Finish, IInv, TypeOK
    <3> QED BY <2>0, <3>1, <3>2, LedgerOthers DEF IInv, TypeOK
  <2>9. CASE PlainFrame(r)
      BY <2>0, <2>9, LedgerOthers DEF PlainFrame
  <2>10. ASSUME NEW good \in BOOLEAN, PlainEnd(r, good)
         PROVE  Ledger' /\ ReservationsMatch'
    <3>1. /\ pc[r] = "body" /\ kind[r] = "plain" /\ decoded' = decoded
          /\ pc' = [pc EXCEPT ![r] = "eos"]
          /\ timing' = [timing EXCEPT ![r] = IF good THEN "none" ELSE "decode"]
          /\ held' = IF good
                     THEN [held EXCEPT ![r] = IF @ = "mooncake" THEN "none" ELSE @]
                     ELSE held
          /\ Finish(r, TRUE)
        BY <2>10 DEF PlainEnd, Body, NextFrame
    <3>2. /\ UNCHANGED <<kind, target>>
          /\ completed' = [completed EXCEPT ![r] = TRUE]
          /\ \/ inflightCleaned' = [inflightCleaned EXCEPT ![r] = timing'[r] = "none"]
             \/ inflightCleaned' = inflightCleaned
        BY <3>1 DEF Finish, IInv, TypeOK
    <3>3. target[r] \in Pods /\ NoPod \notin Pods
        BY <3>1, GatewayConstants DEF IInv, LifeCycle
    <3>4. /\ completed'[r] = TRUE /\ pc'[r] = "eos" /\ kind'[r] = "plain"
          /\ target'[r] # NoPod /\ timing'[r] # "prefill"
        BY <3>1, <3>2, <3>3 DEF IInv, TypeOK
    <3>5. held'[r] = "mooncake" => timing'[r] # "none"
        BY <3>1 DEF IInv, TypeOK
    <3>6. \A s \in Requests \ {r} :
            /\ pc'[s] = pc[s] /\ timing'[s] = timing[s] /\ decoded'[s] = decoded[s]
            /\ target'[s] = target[s] /\ held'[s] = held[s] /\ kind'[s] = kind[s]
            /\ inflightCleaned'[s] = inflightCleaned[s]
            /\ completed'[s] = completed[s]
        BY <3>1, <3>2 DEF IInv, TypeOK
    <3> QED BY <3>4, <3>5, <3>6, LedgerOthers
  <2>11. CASE Exit(r)
    <3>1. /\ pc' = [pc EXCEPT ![r] = "done"]
          /\ UNCHANGED <<kind, target, decoded, inflightCleaned, completed>>
        BY <2>11 DEF Exit
    <3>2. CASE target[r] # NoPod /\ ~inflightCleaned[r]
        BY <2>0, <2>11, <3>1, <3>2, LedgerOthers
        DEF Exit, CleanupRequest, CleanupInflightCounters, AfterAbortHeld,
            PrebleOnRequestComplete, IInv, TypeOK
    <3>3. CASE ~(target[r] # NoPod /\ ~inflightCleaned[r])
        BY <2>0, <2>11, <3>1, <3>3, LedgerOthers DEF Exit, IInv, TypeOK
    <3> QED BY <3>2, <3>3
  <2> QED BY <1>1, <2>1, <2>2, <2>3, <2>4, <2>5, <2>6, <2>7, <2>8, <2>9, <2>10, <2>11
          DEF ProcessStep
<1>2. CASE UNCHANGED vars
    BY <1>2 DEF vars, Ledger, ReservationsMatch
<1> QED BY <1>1, <1>2 DEF Next

\* The ledger of reservations is right for any number of requests, whatever the
\* response and however it ends: Mooncake's is held exactly while the request is in
\* flight; LMETRIC's outlives the prefill phase only with a response that completed
\* without a content token; Preble's outlives the request only if it completed.
THEOREM ReservationsMatchAlways == Spec => []ReservationsMatch
<1>1. Init => Ledger /\ ReservationsMatch
    BY DEF Init, Ledger, ReservationsMatch
<1>2. IInv /\ Ledger /\ ReservationsMatch /\ [Next]_vars => Ledger' /\ ReservationsMatch'
    BY LedgerNext
<1> QED BY <1>1, <1>2, IInvAlways, PTL DEF Spec

-----------------------------------------------------------------------------
(* The counters of the two phases.  A pod's are what one request adds to   *)
(* those of the others: Shows says so for one request, Matches for all.    *)

\* What the counters of a phase depend on.
Views ==
  [target : [Requests -> Pods \cup {NoPod}], prompt : [Requests -> Nat],
   timing : [Requests -> {"none", "prefill", "decode"}], decoded : [Requests -> Nat]]

View == [target |-> target, prompt |-> prompt, timing |-> timing, decoded |-> decoded]

Phased(v, p, phase) == {r \in Requests : v.target[r] = p /\ v.timing[r] = phase}

Matches(c, v, p) ==
  /\ c.prefillRequests = Cardinality(Phased(v, p, "prefill"))
  /\ c.prefillTokens = SumOver(v.prompt, Phased(v, p, "prefill"))
  /\ c.decodeRequests = Cardinality(Phased(v, p, "decode"))
  /\ c.decodeTokens = SumOver(v.decoded, Phased(v, p, "decode"))
  /\ c.decodeRequests > 0 => c.decodeKey

Shares == [prefills : Nat, prompts : Nat, decodes : Nat, decoded : Nat]

\* What the other requests add up to on a pod.
OthersOn(v, p, r) ==
  [prefills |-> Cardinality(Phased(v, p, "prefill") \ {r}),
   prompts |-> SumOver(v.prompt, Phased(v, p, "prefill") \ {r}),
   decodes |-> Cardinality(Phased(v, p, "decode") \ {r}),
   decoded |-> SumOver(v.decoded, Phased(v, p, "decode") \ {r})]

\* The counters of a pod: the others, and a request in this phase with n prompt
\* tokens and d decoded ones.
Shows(c, phase, n, d, others) ==
  /\ c.prefillRequests = others.prefills + (IF phase = "prefill" THEN 1 ELSE 0)
  /\ c.prefillTokens = others.prompts + (IF phase = "prefill" THEN n ELSE 0)
  /\ c.decodeRequests = others.decodes + (IF phase = "decode" THEN 1 ELSE 0)
  /\ c.decodeTokens = others.decoded + (IF phase = "decode" THEN d ELSE 0)
  /\ c.decodeRequests > 0 => c.decodeKey

PhaseOn(v, p, r) == IF v.target[r] = p THEN v.timing[r] ELSE "none"

\* Sums of numbers of tokens are numbers, and one request's can be told from the rest.
LEMMA SumSplit ==
  ASSUME NEW f \in [Requests -> Nat], NEW S \in SUBSET Requests, NEW r \in Requests
  PROVE  /\ SumOver(f, S \ {r}) \in Nat /\ Cardinality(S \ {r}) \in Nat
         /\ SumOver(f, S) = SumOver(f, S \ {r}) + (IF r \in S THEN f[r] ELSE 0)
         /\ Cardinality(S) = Cardinality(S \ {r}) + (IF r \in S THEN 1 ELSE 0)
<1>1. IsFiniteSet(S) /\ IsFiniteSet(S \ {r})
    BY FS_Subset, GatewayConstants
<1>2. SumOver(f, S \ {r}) \in Nat /\ Cardinality(S \ {r}) \in Nat
    BY <1>1, SumNat, FS_CardinalityType
<1>3. CASE r \in S
  <2>1. SumOver(f, S) = f[r] + SumOver(f, S \ {r})
      BY <1>1, <1>3, SumRemove
  <2>2. Cardinality(S \ {r}) = Cardinality(S) - 1 /\ Cardinality(S) \in Nat
      BY <1>1, <1>3, FS_RemoveElement, FS_CardinalityType
  <2> QED BY <1>2, <1>3, <2>1, <2>2
<1>4. CASE r \notin S
  <2>1. S \ {r} = S
      BY <1>4
  <2> QED BY <1>2, <1>4, <2>1
<1> QED BY <1>2, <1>3, <1>4

LEMMA MatchesShows ==
  ASSUME NEW v \in Views, NEW p \in Pods, NEW r \in Requests, NEW c
  PROVE  /\ OthersOn(v, p, r) \in Shares
         /\ Matches(c, v, p) <=>
              Shows(c, PhaseOn(v, p, r), v.prompt[r], v.decoded[r], OthersOn(v, p, r))
<1> DEFINE P == Phased(v, p, "prefill")
           D == Phased(v, p, "decode")
<1>1. /\ v.prompt \in [Requests -> Nat] /\ v.decoded \in [Requests -> Nat]
      /\ P \in SUBSET Requests /\ D \in SUBSET Requests
    BY DEF Views, Phased
<1>2. /\ (r \in P) <=> (PhaseOn(v, p, r) = "prefill")
      /\ (r \in D) <=> (PhaseOn(v, p, r) = "decode")
    BY DEF Phased, PhaseOn
<1>3. /\ OthersOn(v, p, r).prefills = Cardinality(P \ {r})
      /\ OthersOn(v, p, r).prompts = SumOver(v.prompt, P \ {r})
      /\ OthersOn(v, p, r).decodes = Cardinality(D \ {r})
      /\ OthersOn(v, p, r).decoded = SumOver(v.decoded, D \ {r})
    BY DEF OthersOn
<1> HIDE DEF P, D
<1>4. /\ SumOver(v.prompt, P \ {r}) \in Nat /\ Cardinality(P \ {r}) \in Nat
      /\ SumOver(v.prompt, P) = SumOver(v.prompt, P \ {r}) + (IF r \in P THEN v.prompt[r] ELSE 0)
      /\ Cardinality(P) = Cardinality(P \ {r}) + (IF r \in P THEN 1 ELSE 0)
    BY <1>1, SumSplit
<1>5. /\ SumOver(v.decoded, D \ {r}) \in Nat /\ Cardinality(D \ {r}) \in Nat
      /\ SumOver(v.decoded, D) = SumOver(v.decoded, D \ {r}) + (IF r \in D THEN v.decoded[r] ELSE 0)
      /\ Cardinality(D) = Cardinality(D \ {r}) + (IF r \in D THEN 1 ELSE 0)
    BY <1>1, SumSplit
<1>6. OthersOn(v, p, r) \in Shares
    BY <1>4, <1>5 DEF OthersOn, Shares, P, D
<1>7. Matches(c, v, p) <=>
        /\ c.prefillRequests = Cardinality(P) /\ c.prefillTokens = SumOver(v.prompt, P)
        /\ c.decodeRequests = Cardinality(D) /\ c.decodeTokens = SumOver(v.decoded, D)
        /\ c.decodeRequests > 0 => c.decodeKey
    BY DEF Matches, P, D
<1> QED BY <1>2, <1>3, <1>4, <1>5, <1>6, <1>7 DEF Shows

\* What the others add up to does not depend on the request.
LEMMA SameOthers ==
  ASSUME NEW v \in Views, NEW w \in Views, NEW p \in Pods, NEW r \in Requests,
         \A s \in Requests \ {r} : /\ v.target[s] = w.target[s] /\ v.timing[s] = w.timing[s]
                                   /\ v.prompt[s] = w.prompt[s] /\ v.decoded[s] = w.decoded[s]
  PROVE  OthersOn(v, p, r) = OthersOn(w, p, r)
<1> DEFINE P == Phased(v, p, "prefill") \ {r}
           D == Phased(v, p, "decode") \ {r}
<1>1. P = Phased(w, p, "prefill") \ {r} /\ D = Phased(w, p, "decode") \ {r}
    BY DEF Phased
<1>2. P \subseteq Requests \ {r} /\ D \subseteq Requests \ {r}
    BY DEF Phased
<1>3. IsFiniteSet(P) /\ IsFiniteSet(D)
    BY <1>2, FS_Subset, GatewayConstants
<1> HIDE DEF P, D
<1>4. SumOver(v.prompt, P) = SumOver(w.prompt, P)
    BY <1>2, <1>3, SumSame
<1>5. SumOver(v.decoded, D) = SumOver(w.decoded, D)
    BY <1>2, <1>3, SumSame
<1> QED BY <1>1, <1>4, <1>5 DEF OthersOn, P, D

\* The counters after each operation on them, field by field.
LEMMA LeaveFields ==
  ASSUME NEW c \in Load
  PROVE  /\ Leave(c).prefillRequests = c.prefillRequests
         /\ Leave(c).prefillTokens = c.prefillTokens
         /\ Leave(c).decodeRequests = c.decodeRequests
         /\ Leave(c).decodeTokens = c.decodeTokens
         /\ Leave(c).decodeKey = c.decodeKey
BY DEF Load, Leave

LEMMA AddTokensFields ==
  ASSUME NEW c \in Load, NEW d \in Nat
  PROVE  /\ AddDecodeTokens(c, d).prefillRequests = c.prefillRequests
         /\ AddDecodeTokens(c, d).prefillTokens = c.prefillTokens
         /\ AddDecodeTokens(c, d).decodeRequests = c.decodeRequests
         /\ AddDecodeTokens(c, d).decodeTokens = c.decodeTokens + d
         /\ AddDecodeTokens(c, d).decodeKey = c.decodeKey
BY DEF Load, AddDecodeTokens

LEMMA EndPrefillFields ==
  ASSUME NEW c \in Load, NEW n \in Nat
  PROVE  /\ EndPrefill(c, n) \in Load
         /\ EndPrefill(c, n).prefillRequests = c.prefillRequests - 1
         /\ EndPrefill(c, n).prefillTokens =
              IF c.prefillTokens < n THEN c.prefillTokens ELSE c.prefillTokens - n
         /\ EndPrefill(c, n).decodeRequests = c.decodeRequests
         /\ EndPrefill(c, n).decodeTokens = c.decodeTokens
         /\ EndPrefill(c, n).decodeKey = c.decodeKey
<1> DEFINE f == [c EXCEPT !.prefillRequests = @ - 1]
<1>1. /\ f \in Load /\ f.prefillRequests = c.prefillRequests - 1
      /\ f.prefillTokens = c.prefillTokens /\ f.decodeRequests = c.decodeRequests
      /\ f.decodeTokens = c.decodeTokens /\ f.decodeKey = c.decodeKey
    BY DEF Load
<1>2. EndPrefill(c, n) = [f EXCEPT !.prefillTokens = IF @ < n THEN @ ELSE @ - n]
    BY DEF Load, EndPrefill
<1> HIDE DEF f
<1> QED BY <1>1, <1>2 DEF Load

\* EndDecode where the pod has an entry.
DecodeEnded(c, d) == [c EXCEPT !.decodeRequests = @ - 1, !.decodeTokens = @ - d]

LEMMA EndDecodeFields ==
  ASSUME NEW c \in Load, NEW d \in Nat
  PROVE  /\ DecodeEnded(c, d) \in Load
         /\ DecodeEnded(c, d).prefillRequests = c.prefillRequests
         /\ DecodeEnded(c, d).prefillTokens = c.prefillTokens
         /\ DecodeEnded(c, d).decodeRequests = c.decodeRequests - 1
         /\ DecodeEnded(c, d).decodeTokens = c.decodeTokens - d
         /\ DecodeEnded(c, d).decodeKey = c.decodeKey
<1> DEFINE f == [c EXCEPT !.decodeRequests = @ - 1]
<1>1. /\ f \in Load /\ f.prefillRequests = c.prefillRequests
      /\ f.prefillTokens = c.prefillTokens /\ f.decodeRequests = c.decodeRequests - 1
      /\ f.decodeTokens = c.decodeTokens /\ f.decodeKey = c.decodeKey
    BY DEF Load
<1>2. DecodeEnded(c, d) = [f EXCEPT !.decodeTokens = @ - d]
    BY DEF Load, DecodeEnded
<1> HIDE DEF f
<1> QED BY <1>1, <1>2 DEF Load

LEMMA BeginDecodeFields ==
  ASSUME NEW c \in Load
  PROVE  /\ BeginDecode(c) \in Load
         /\ BeginDecode(c).prefillRequests = c.prefillRequests
         /\ BeginDecode(c).prefillTokens = c.prefillTokens
         /\ BeginDecode(c).decodeRequests = c.decodeRequests + 1
         /\ BeginDecode(c).decodeTokens = c.decodeTokens
         /\ BeginDecode(c).decodeKey
<1> DEFINE f == [c EXCEPT !.decodeRequests = @ + 1]
<1>1. /\ f \in Load /\ f.prefillRequests = c.prefillRequests
      /\ f.prefillTokens = c.prefillTokens /\ f.decodeRequests = c.decodeRequests + 1
      /\ f.decodeTokens = c.decodeTokens
    BY DEF Load
<1>2. BeginDecode(c) = [f EXCEPT !.decodeKey = TRUE]
    BY DEF Load, BeginDecode
<1> HIDE DEF f
<1> QED BY <1>1, <1>2 DEF Load

LEMMA EnterFields ==
  ASSUME NEW c \in Load, NEW n \in Nat
  PROVE  /\ Enter(c, n).prefillRequests = c.prefillRequests + 1
         /\ Enter(c, n).prefillTokens = c.prefillTokens + n
         /\ Enter(c, n).decodeRequests = c.decodeRequests
         /\ Enter(c, n).decodeTokens = c.decodeTokens
         /\ Enter(c, n).decodeKey = c.decodeKey
<1> DEFINE f == [c EXCEPT !.inflight = @ + 1]
           g == [f EXCEPT !.prefillRequests = @ + 1]
<1>1. /\ f \in Load /\ f.prefillRequests = c.prefillRequests
      /\ f.prefillTokens = c.prefillTokens /\ f.decodeRequests = c.decodeRequests
      /\ f.decodeTokens = c.decodeTokens /\ f.decodeKey = c.decodeKey
    BY DEF Load
<1>2. Enter(c, n) = [g EXCEPT !.prefillTokens = @ + n]
    BY DEF Load, Enter
<1> HIDE DEF f
<1>3. /\ g \in Load /\ g.prefillRequests = f.prefillRequests + 1
      /\ g.prefillTokens = f.prefillTokens /\ g.decodeRequests = f.decodeRequests
      /\ g.decodeTokens = f.decodeTokens /\ g.decodeKey = f.decodeKey
    BY <1>1 DEF Load
<1> HIDE DEF g
<1> QED BY <1>1, <1>2, <1>3 DEF Load

\* The operations of the gateway on a pod's counters, when these show one of its
\* requests in the phase it is in, show it in the phase it goes to.
LEMMA ShowsOps ==
  ASSUME NEW c \in Load, NEW n \in Nat, NEW d \in Nat, NEW others \in Shares
  PROVE  /\ Shows(c, "none", n, d, others) => Shows(Enter(c, n), "prefill", n, d, others)
         /\ Shows(c, "prefill", n, d, others) =>
              Shows(AfterAbort(c, "prefill", n, d), "none", n, d, others)
         /\ Shows(c, "decode", n, d, others) =>
              /\ Shows(AfterAbort(c, "decode", n, d), "none", n, d, others)
              /\ Shows(AfterEnd(c, d), "none", n, d, others)
<1>0. /\ others.prefills \in Nat /\ others.prompts \in Nat
      /\ others.decodes \in Nat /\ others.decoded \in Nat
      /\ c.prefillRequests \in Int /\ c.prefillTokens \in Int
      /\ c.decodeRequests \in Int /\ c.decodeTokens \in Int
    BY DEF Shares, Load
<1>1. Shows(c, "none", n, d, others) => Shows(Enter(c, n), "prefill", n, d, others)
    BY <1>0, EnterFields DEF Shows
<1>2. ASSUME Shows(c, "prefill", n, d, others)
      PROVE  Shows(AfterAbort(c, "prefill", n, d), "none", n, d, others)
  <2> DEFINE f == EndPrefill(c, n)
  <2>1. /\ f \in Load /\ f.prefillRequests = c.prefillRequests - 1
        /\ f.prefillTokens = IF c.prefillTokens < n THEN c.prefillTokens ELSE c.prefillTokens - n
        /\ f.decodeRequests = c.decodeRequests /\ f.decodeTokens = c.decodeTokens
        /\ f.decodeKey = c.decodeKey
      BY EndPrefillFields
  <2>2. AfterAbort(c, "prefill", n, d) = Leave(f)
      BY DEF AfterAbort
  <2> HIDE DEF f
  <2> QED BY <1>0, <1>2, <2>1, <2>2, LeaveFields DEF Shows
<1>3. ASSUME Shows(c, "decode", n, d, others)
      PROVE  /\ Shows(AfterAbort(c, "decode", n, d), "none", n, d, others)
             /\ Shows(AfterEnd(c, d), "none", n, d, others)
  <2> DEFINE f == EndDecode(c, d)
  <2>0. c.decodeKey
      BY <1>0, <1>3 DEF Shows
  <2>1. /\ f \in Load /\ f.prefillRequests = c.prefillRequests
        /\ f.prefillTokens = c.prefillTokens
        /\ f.decodeRequests = c.decodeRequests - 1 /\ f.decodeTokens = c.decodeTokens - d
        /\ f.decodeKey = c.decodeKey
    <3>1. f = DecodeEnded(c, d)
        BY <2>0 DEF EndDecode, DecodeEnded
    <3> QED BY <3>1, EndDecodeFields
  <2>2. AfterAbort(c, "decode", n, d) = Leave(f) /\ AfterEnd(c, d) = Leave(f)
      BY DEF AfterAbort, AfterEnd
  <2> HIDE DEF f
  <2>3. /\ Leave(f).prefillRequests = f.prefillRequests
        /\ Leave(f).prefillTokens = f.prefillTokens
        /\ Leave(f).decodeRequests = f.decodeRequests
        /\ Leave(f).decodeTokens = f.decodeTokens /\ Leave(f).decodeKey = f.decodeKey
      BY <2>1, LeaveFields
  <2>4. Leave(f).decodeKey
      BY <2>0, <2>1, <2>3
  <2>5. Shows(Leave(f), "none", n, d, others)
      BY <1>0, <1>3, <2>1, <2>3, <2>4 DEF Shows
  <2> QED BY <2>2, <2>5
<1> QED BY <1>1, <1>2, <1>3

\* A frame with tokens: the first begins the decode phase.
LEMMA ShowsTokens ==
  ASSUME NEW c \in Load, NEW phase \in {"prefill", "decode"}, NEW n \in Nat, NEW d \in Nat,
         NEW toks \in Nat, NEW others \in Shares, phase = "prefill" => d = 0,
         Shows(c, phase, n, d, others)
  PROVE  Shows(AfterTokens(c, phase, n, toks), PhaseAfter(phase, toks), n, d + toks, others)
<1>0. /\ others.prefills \in Nat /\ others.prompts \in Nat
      /\ others.decodes \in Nat /\ others.decoded \in Nat
      /\ c.prefillRequests \in Int /\ c.prefillTokens \in Int
      /\ c.decodeRequests \in Int /\ c.decodeTokens \in Int
    BY DEF Shares, Load
<1>1. CASE toks = 0
    BY <1>1 DEF AfterTokens, PhaseAfter, Shows
<1>2. CASE toks > 0 /\ phase = "prefill"
  <2> DEFINE f == EndPrefill(c, n)
             g == BeginDecode(f)
  <2>1. /\ f \in Load /\ f.prefillRequests = c.prefillRequests - 1
        /\ f.prefillTokens = IF c.prefillTokens < n THEN c.prefillTokens ELSE c.prefillTokens - n
        /\ f.decodeRequests = c.decodeRequests /\ f.decodeTokens = c.decodeTokens
      BY EndPrefillFields
  <2>2. /\ AfterTokens(c, phase, n, toks) = AddDecodeTokens(g, toks)
        /\ PhaseAfter(phase, toks) = "decode"
      BY <1>2 DEF AfterTokens, PhaseAfter
  <2> HIDE DEF f
  <2>3. /\ g \in Load /\ g.prefillRequests = f.prefillRequests
        /\ g.prefillTokens = f.prefillTokens
        /\ g.decodeRequests = f.decodeRequests + 1 /\ g.decodeTokens = f.decodeTokens
        /\ g.decodeKey
      BY <2>1, BeginDecodeFields
  <2> HIDE DEF g
  <2>4. /\ c.prefillRequests = others.prefills + 1 /\ c.prefillTokens = others.prompts + n
        /\ c.decodeRequests = others.decodes /\ c.decodeTokens = others.decoded /\ d = 0
      BY <1>0, <1>2 DEF Shows
  <2>5. Shows(AddDecodeTokens(g, toks), "decode", n, d + toks, others)
      BY <1>0, <2>1, <2>3, <2>4, AddTokensFields DEF Shows
  <2> QED BY <2>2, <2>5
<1>3. CASE toks > 0 /\ phase = "decode"
  <2>1. /\ AfterTokens(c, phase, n, toks) = AddDecodeTokens(c, toks)
        /\ PhaseAfter(phase, toks) = "decode"
      BY <1>3 DEF AfterTokens, PhaseAfter
  <2>2. Shows(AddDecodeTokens(c, toks), "decode", n, d + toks, others)
      BY <1>0, <1>3, AddTokensFields DEF Shows
  <2> QED BY <2>1, <2>2
<1> QED BY <1>1, <1>2, <1>3
-----------------------------------------------------------------------------
\* What Regular asks of one request of the pod.
Fit(r) ==
  /\ kind[r] = "stream"
  /\ \/ decoded[r] > 0 \/ timing[r] # "none" \/ ~completed[r]
     \/ reply[r] = "streaming"

\* The counters of a pod match its requests as long as all of them are fit, and a
\* stream that was broken off had begun and has no timing entry left.
PhaseInv ==
  /\ \A p \in Pods : Regular(p) => Matches(load[p], View, p)
  /\ \A r \in Requests : reply[r] = "streaming" => pc[r] # "start" /\ timing[r] = "none"

\* What the other requests are to a step of one request.
PhaseOthers(r) ==
  \A s \in Requests \ {r} :
    /\ target'[s] = target[s] /\ timing'[s] = timing[s] /\ prompt'[s] = prompt[s]
    /\ decoded'[s] = decoded[s] /\ kind'[s] = kind[s] /\ completed'[s] = completed[s]
    /\ reply'[s] = reply[s] /\ pc'[s] = pc[s]

\* It is enough that a step takes the counters of the request's pod from one phase
\* of the request to the next, whatever the others add up to.
LEMMA PhaseStep ==
  ASSUME IInv, IInv', PhaseInv, NEW r \in Requests, PhaseOthers(r),
         target[r] \in {NoPod, target'[r]}, pc'[r] # "start",
         reply'[r] = "streaming" => timing'[r] = "none",
         \A p \in Pods : p # target'[r] => load'[p] = load[p],
         target[r] # NoPod /\ Fit(r)' => Fit(r),
         \A p \in Pods, k \in Shares :
           /\ target'[r] = p /\ Fit(r)'
           /\ Shows(load[p], PhaseOn(View, p, r), prompt[r], decoded[r], k)
           => Shows(load'[p], timing'[r], prompt'[r], decoded'[r], k)
  PROVE  PhaseInv'
<1>0. View \in Views /\ View' \in Views
    BY DEF IInv, TypeOK, View, Views
<1>1. \A s \in Requests : (reply[s] = "streaming" => pc[s] # "start" /\ timing[s] = "none")'
    BY DEF PhaseInv, PhaseOthers
<1>2. ASSUME NEW p \in Pods, Regular(p)'
      PROVE  Matches(load'[p], View', p)
  <2>1. Regular(p)
    <3>1. \A s \in Requests \ {r} : target[s] = p => Fit(s)
        BY <1>2 DEF Regular, Fit, PhaseOthers
    <3>2. target[r] = p => target'[r] = p /\ target[r] # NoPod
        BY GatewayConstants
    <3>3. target'[r] = p => Fit(r)'
        BY <1>2 DEF Regular, Fit
    <3>4. \A s \in Requests : target[s] = p => Fit(s)
        BY <3>1, <3>2, <3>3
    <3> QED BY <3>4 DEF Regular, Fit
  <2>2. Shows(load[p], PhaseOn(View, p, r), prompt[r], decoded[r], OthersOn(View, p, r))
        /\ OthersOn(View, p, r) \in Shares
    <3>1. Matches(load[p], View, p)
        BY <2>1 DEF PhaseInv
    <3>2. View.prompt[r] = prompt[r] /\ View.decoded[r] = decoded[r]
        BY DEF View
    <3> QED BY <1>0, <3>1, <3>2, MatchesShows
  <2>3. OthersOn(View', p, r) = OthersOn(View, p, r)
    <3>1. /\ View.target = target /\ View.prompt = prompt
          /\ View.timing = timing /\ View.decoded = decoded
          /\ View'.target = target' /\ View'.prompt = prompt'
          /\ View'.timing = timing' /\ View'.decoded = decoded'
        BY DEF View
    <3>2. \A s \in Requests \ {r} :
            /\ View.target[s] = View'.target[s] /\ View.timing[s] = View'.timing[s]
            /\ View.prompt[s] = View'.prompt[s] /\ View.decoded[s] = View'.decoded[s]
        BY <3>1 DEF PhaseOthers
    <3> QED BY <1>0, <3>2, SameOthers
  <2>4. Shows(load'[p], PhaseOn(View', p, r), prompt'[r], decoded'[r], OthersOn(View, p, r))
    <3>1. CASE target'[r] = p
      <4>1. PhaseOn(View', p, r) = timing'[r]
          BY <3>1 DEF PhaseOn, View
      <4>2. Fit(r)'
          BY <1>2, <3>1 DEF Regular, Fit
      <4> QED BY <2>2, <3>1, <4>1, <4>2
    <3>2. CASE target'[r] # p
      <4>1. PhaseOn(View', p, r) = "none" /\ PhaseOn(View, p, r) = "none"
          BY <3>2, GatewayConstants DEF PhaseOn, View
      <4>2. load'[p] = load[p]
          BY <3>2
      <4> QED BY <2>2, <4>1, <4>2 DEF Shows
    <3> QED BY <3>1, <3>2
  <2>5. View'.prompt[r] = prompt'[r] /\ View'.decoded[r] = decoded'[r]
      BY DEF View
  <2> QED BY <1>0, <2>3, <2>4, <2>5, MatchesShows
<1> QED BY <1>1, <1>2 DEF PhaseInv

\* Steps that move no request from one phase to another.
LEMMA PhaseKept ==
  ASSUME IInv, IInv', PhaseInv, NEW r \in Requests, PhaseOthers(r),
         UNCHANGED <<target, timing, prompt, decoded, kind, reply, load>>,
         completed[r] => completed'[r], pc'[r] # "start"
  PROVE  PhaseInv'
<1>1. target[r] # NoPod /\ Fit(r)' => Fit(r)
    BY DEF Fit
<1>2. \A p \in Pods : target[r] = p => PhaseOn(View, p, r) = timing[r]
    BY DEF PhaseOn, View
<1>3. reply'[r] = "streaming" => timing'[r] = "none"
    BY DEF PhaseInv
<1> QED BY <1>1, <1>2, <1>3, PhaseStep

\* The cleanup, of a request that is fit or not.
LEMMA PhaseCleanup ==
  ASSUME IInv, IInv', PhaseInv, NEW r \in Requests, PhaseOthers(r), target[r] \in Pods,
         pc'[r] # "start",
         UNCHANGED <<target, prompt, decoded, kind, reply, completed>>,
         CleanupInflightCounters(r)
  PROVE  PhaseInv'
<1>1. CASE timing[r] = "none"
    BY <1>1, PhaseKept DEF CleanupInflightCounters
<1>2. CASE timing[r] # "none"
  <2>1. PICK p \in Pods : target[r] = p
      OBVIOUS
  <2>2. /\ load' = [load EXCEPT ![p] = AfterAbort(load[p], timing[r], prompt[r], decoded[r])]
        /\ timing' = [timing EXCEPT ![r] = "none"]
      BY <1>2, <2>1 DEF CleanupInflightCounters
  <2>3. /\ timing'[r] = "none" /\ timing[r] \in {"prefill", "decode"}
        /\ prompt[r] \in Nat /\ decoded[r] \in Nat /\ load[p] \in Load
        /\ load'[p] = AfterAbort(load[p], timing[r], prompt[r], decoded[r])
        /\ \A q \in Pods : q # p => load'[q] = load[q]
      BY <1>2, <2>2 DEF IInv, TypeOK
  <2>4. ASSUME NEW k \in Shares, Shows(load[p], PhaseOn(View, p, r), prompt[r], decoded[r], k)
        PROVE  Shows(load'[p], timing'[r], prompt'[r], decoded'[r], k)
    <3>1. PhaseOn(View, p, r) = timing[r]
        BY <2>1 DEF PhaseOn, View
    <3> QED BY <2>3, <2>4, <3>1, ShowsOps
  <2>5. Fit(r)' => Fit(r)
      BY <1>2 DEF Fit
  <2> QED BY <2>1, <2>3, <2>4, <2>5, GatewayConstants, PhaseStep
<1> QED BY <1>1, <1>2
\* A frame of a stream, whole or broken off: the tokens, then the end or the abort.
LEMMA PhaseFrame ==
  ASSUME IInv, IInv', Ledger, PhaseInv, NEW r \in Requests, PhaseOthers(r),
         NEW p \in Pods, target[r] = p, timing[r] # "none", pc'[r] # "start", NEW toks \in Nat,
         NEW ended \in BOOLEAN, NEW broken \in BOOLEAN,
         UNCHANGED <<target, prompt>>, kind'[r] = kind[r],
         decoded'[r] = decoded[r] + toks,
         timing'[r] = IF ended \/ broken THEN "none" ELSE PhaseAfter(timing[r], toks),
         reply'[r] = IF broken THEN "streaming" ELSE reply[r],
         ended \/ broken => completed'[r] = TRUE,
         load' = [load EXCEPT ![p] =
           LET c == AfterTokens(load[p], timing[r], prompt[r], toks)
           IN  IF broken
               THEN AfterAbort(c, PhaseAfter(timing[r], toks), prompt[r], decoded[r] + toks)
               ELSE IF ended THEN AfterEnd(c, decoded[r] + toks) ELSE c]
  PROVE  PhaseInv'
<1> DEFINE c == AfterTokens(load[p], timing[r], prompt[r], toks)
           phase == PhaseAfter(timing[r], toks)
           d == decoded[r] + toks
<1>1. /\ timing[r] \in {"prefill", "decode"} /\ prompt[r] \in Nat /\ decoded[r] \in Nat
      /\ load[p] \in Load /\ d \in Nat /\ reply[r] # "streaming"
      /\ timing[r] = "prefill" => decoded[r] = 0
    BY DEF IInv, TypeOK, PhaseInv, Ledger
<1>2. c \in Load /\ phase \in {"prefill", "decode"} /\ (phase = "prefill" => d = 0)
    BY <1>1, LoadOps DEF PhaseAfter
<1>3. /\ load'[p] = IF broken THEN AfterAbort(c, phase, prompt[r], d)
                    ELSE IF ended THEN AfterEnd(c, d) ELSE c
      /\ \A q \in Pods : q # p => load'[q] = load[q]
    BY DEF IInv, TypeOK
<1>4. ASSUME NEW k \in Shares, Fit(r)',
             Shows(load[p], PhaseOn(View, p, r), prompt[r], decoded[r], k)
      PROVE  Shows(load'[p], timing'[r], prompt'[r], decoded'[r], k)
  <2>1. PhaseOn(View, p, r) = timing[r]
      BY DEF PhaseOn, View
  <2>2. Shows(c, phase, prompt[r], d, k)
      BY <1>1, <1>4, <2>1, ShowsTokens
  <2>3. ended /\ ~broken => phase = "decode"
    <3>1. CASE phase = "prefill" /\ ended /\ ~broken
      <4>1. /\ decoded'[r] = 0 /\ timing'[r] = "none" /\ completed'[r] = TRUE
            /\ reply'[r] # "streaming"
          BY <1>1, <1>2, <3>1
      <4> QED BY <1>4, <4>1 DEF Fit
    <3> QED BY <1>2, <3>1
  <2> HIDE DEF c, phase, d
  <2>4. CASE broken
    <3>1. Shows(AfterAbort(c, phase, prompt[r], d), "none", prompt[r], d, k)
        BY <1>1, <1>2, <2>2, ShowsOps
    <3> QED BY <1>3, <2>4, <3>1 DEF d
  <2>5. CASE ~broken /\ ended
    <3>1. Shows(AfterEnd(c, d), "none", prompt[r], d, k)
        BY <1>1, <1>2, <2>2, <2>3, <2>5, ShowsOps
    <3> QED BY <1>3, <2>5, <3>1 DEF d
  <2>6. CASE ~broken /\ ~ended
      BY <1>3, <2>2, <2>6 DEF d, phase
  <2> QED BY <2>4, <2>5, <2>6
<1>5. Fit(r)' => Fit(r)
    BY DEF Fit
<1>6. reply'[r] = "streaming" => timing'[r] = "none"
    BY <1>1
<1> QED BY <1>3, <1>4, <1>5, <1>6, PhaseStep

\* Every step of a request keeps the counters of the phases.
LEMMA PhaseNext ==
  ASSUME IInv, IInv', Ledger, PhaseInv, [Next]_vars
  PROVE  PhaseInv'
<1> USE DEF request, body, flags, counts
<1>1. ASSUME NEW r \in Requests, ProcessStep(r)
      PROVE  PhaseInv'
  <2>1. CASE Refuse(r)
      BY <2>1, PhaseKept DEF Refuse, PhaseOthers, IInv, TypeOK
  <2>2. ASSUME NEW n \in PromptSizes, RouteFail(r, n)
        PROVE  PhaseInv'
    <3>1. PhaseOthers(r)
        BY <2>2 DEF RouteFail, PhaseOthers, IInv, TypeOK
    <3>2. target'[r] = NoPod /\ target[r] = NoPod
        BY <2>2 DEF RouteFail, IInv, LifeCycle
    <3>3. reply'[r] # "streaming" /\ pc'[r] # "start"
        BY <2>2 DEF RouteFail, PhaseInv, IInv, TypeOK
    <3>4. load' = load
        BY <2>2 DEF RouteFail
    <3> QED BY <3>1, <3>2, <3>3, <3>4, PhaseStep, GatewayConstants
  <2>3. ASSUME NEW p \in Pods, NEW k \in Kinds, NEW n \in PromptSizes,
               NEW alg \in SubAlgorithms, RouteRequest(r, p, k, n, alg)
        PROVE  PhaseInv'
    <3>1. PhaseOthers(r)
        BY <2>3 DEF RouteRequest, PhaseOthers, IInv, TypeOK
    <3>2. /\ target'[r] = p /\ target[r] = NoPod /\ timing'[r] = "prefill"
          /\ prompt'[r] = n /\ decoded'[r] = decoded[r] /\ n \in Nat
          /\ load[p] \in Load /\ decoded[r] \in Nat
        BY <2>3, GatewayConstants DEF RouteRequest, IInv, LifeCycle, TypeOK
    <3>3. reply'[r] # "streaming" /\ pc'[r] # "start"
        BY <2>3 DEF RouteRequest, PhaseInv, IInv, TypeOK
    <3>4. load'[p] = Enter(load[p], n) /\ \A q \in Pods : q # p => load'[q] = load[q]
        BY <2>3 DEF RouteRequest, IInv, TypeOK
    <3>5. ASSUME NEW e \in Shares,
                 Shows(load[p], PhaseOn(View, p, r), prompt[r], decoded[r], e)
          PROVE  Shows(load'[p], timing'[r], prompt'[r], decoded'[r], e)
      <4>1. PhaseOn(View, p, r) = "none"
          BY <3>2, GatewayConstants DEF PhaseOn, View
      <4>2. Shows(load[p], "none", n, decoded[r], e)
          BY <3>5, <4>1 DEF Shows
      <4> QED BY <3>2, <3>4, <4>2, ShowsOps
    <3> QED BY <3>1, <3>2, <3>3, <3>4, <3>5, PhaseStep
  <2>4. ASSUME NEW err \in BOOLEAN, ResponseHeaders(r, err)
        PROVE  PhaseInv'
      BY <2>4, PhaseKept DEF ResponseHeaders, PhaseOthers, IInv, TypeOK
  <2>5. ASSUME NEW eos \in BOOLEAN, ErrorBody(r, eos)
        PROVE  PhaseInv'
    <3>1. /\ target[r] \in Pods /\ UNCHANGED <<target, prompt, decoded, kind, reply, completed>>
          /\ pc'[r] # "start" /\ \A s \in Requests \ {r} : pc'[s] = pc[s]
        BY <2>5 DEF ErrorBody, NextFrame, IInv, LifeCycle, TypeOK
    <3>2. CASE inflightCleaned[r]
        BY <2>5, <3>1, <3>2, PhaseKept DEF ErrorBody, PhaseOthers
    <3>3. CASE ~inflightCleaned[r]
      <4>1. CleanupInflightCounters(r)
          BY <2>5, <3>3 DEF ErrorBody, CleanupRequest
      <4>2. PhaseOthers(r)
          BY <3>1, <4>1 DEF PhaseOthers, CleanupInflightCounters, IInv, TypeOK
      <4> QED BY <3>1, <4>1, <4>2, PhaseCleanup
    <3> QED BY <3>2, <3>3
  <2>6. ASSUME NEW toks \in 0..MaxTokens, NEW usage \in BOOLEAN, NEW eos \in BOOLEAN,
               StreamFrame(r, toks, usage, eos)
        PROVE  PhaseInv'
    <3>1. /\ pc[r] = "body" /\ timing[r] # "none" /\ NextFrame(r, eos)
          /\ decoded' = [decoded EXCEPT ![r] = decoded[r] + toks]
          /\ timing' = [timing EXCEPT ![r] =
                          IF eos THEN "none" ELSE PhaseAfter(timing[r], toks)]
          /\ Finish(r, (usageCached[r] \/ usage) \/ eos) /\ reply' = reply
        BY <2>6 DEF StreamFrame, Body
    <3>2. PICK p \in Pods : target[r] = p
        BY <3>1 DEF IInv, LifeCycle
    <3>3. load' = [load EXCEPT ![p] =
            LET c == AfterTokens(load[p], timing[r], prompt[r], toks)
            IN  IF eos THEN AfterEnd(c, decoded[r] + toks) ELSE c]
        BY <2>6, <3>2 DEF StreamFrame
    <3>4. /\ UNCHANGED <<target, prompt, kind>>
          /\ completed' = [completed EXCEPT ![r] = (usageCached[r] \/ usage) \/ eos]
        BY <3>1 DEF Finish
    <3>5. PhaseOthers(r) /\ pc'[r] # "start"
        BY <3>1, <3>4 DEF PhaseOthers, NextFrame, IInv, TypeOK
    <3>6. /\ toks \in Nat /\ decoded'[r] = decoded[r] + toks
          /\ timing'[r] = IF eos THEN "none" ELSE PhaseAfter(timing[r], toks)
        BY <3>1, GatewayConstants DEF IInv, TypeOK
    <3>7. eos => completed'[r] = TRUE
      <4>1. completed'[r] = ((usageCached[r] \/ usage) \/ eos)
          BY <3>4 DEF IInv, TypeOK
      <4> QED BY <4>1
    <3>8. load' = [load EXCEPT ![p] =
           LET c == AfterTokens(load[p], timing[r], prompt[r], toks)
           IN  IF FALSE
               THEN AfterAbort(c, PhaseAfter(timing[r], toks), prompt[r], decoded[r] + toks)
               ELSE IF eos THEN AfterEnd(c, decoded[r] + toks) ELSE c]
        BY <3>3
    <3> QED BY <3>1, <3>2, <3>4, <3>5, <3>6, <3>7, <3>8, PhaseFrame
  <2>7. ASSUME NEW toks \in 0..MaxTokens, NEW eos \in BOOLEAN, StreamError(r, toks, eos)
        PROVE  PhaseInv'
    <3>1. /\ pc[r] = "body" /\ timing[r] # "none" /\ NextFrame(r, eos)
          /\ decoded' = [decoded EXCEPT ![r] = decoded[r] + toks]
          /\ timing' = [timing EXCEPT ![r] = "none"]
          /\ reply' = [reply EXCEPT ![r] = "streaming"]
          /\ Finish(r, TRUE)
        BY <2>7 DEF StreamError, Body
    <3>2. PICK p \in Pods : target[r] = p
        BY <3>1 DEF IInv, LifeCycle
    <3>3. load' = [load EXCEPT ![p] =
            AfterAbort(AfterTokens(load[p], timing[r], prompt[r], toks),
                       PhaseAfter(timing[r], toks), prompt[r], decoded[r] + toks)]
        BY <2>7, <3>2 DEF StreamError
    <3>4. /\ UNCHANGED <<target, prompt, kind>>
          /\ completed' = [completed EXCEPT ![r] = TRUE]
        BY <3>1 DEF Finish
    <3>5. PhaseOthers(r) /\ pc'[r] # "start"
        BY <3>1, <3>4 DEF PhaseOthers, NextFrame, IInv, TypeOK
    <3>6. /\ toks \in Nat /\ decoded'[r] = decoded[r] + toks
          /\ timing'[r] = "none" /\ reply'[r] = "streaming" /\ completed'[r] = TRUE
        BY <3>1, <3>4, GatewayConstants DEF IInv, TypeOK
    <3>8. load' = [load EXCEPT ![p] =
           LET c == AfterTokens(load[p], timing[r], prompt[r], toks)
           IN  IF TRUE
               THEN AfterAbort(c, PhaseAfter(timing[r], toks), prompt[r], decoded[r] + toks)
               ELSE IF FALSE THEN AfterEnd(c, decoded[r] + toks) ELSE c]
        BY <3>3
    <3> QED BY <3>1, <3>2, <3>4, <3>5, <3>6, <3>8, PhaseFrame
  <2>8. ASSUME NEW late \in BOOLEAN, NEW eos \in BOOLEAN, StreamLate(r, late, eos)
        PROVE  PhaseInv'
    <3>1. /\ UNCHANGED <<target, timing, prompt, decoded, kind, reply, load>>
          /\ completed' = [completed EXCEPT ![r] = completed[r] \/ late \/ eos]
          /\ NextFrame(r, eos)
        BY <2>8 DEF StreamLate, Finish
    <3>2. PhaseOthers(r) /\ (completed[r] => completed'[r]) /\ pc'[r] # "start"
        BY <3>1 DEF PhaseOthers, NextFrame, IInv, TypeOK
    <3> QED BY <3>1, <3>2, PhaseKept
  <2>9. CASE PlainFrame(r)
      BY <2>9, PhaseKept DEF PlainFrame, Body, PhaseOthers
  <2>10. ASSUME NEW good \in BOOLEAN, PlainEnd(r, good)
         PROVE  PhaseInv'
    <3>1. /\ pc[r] = "body" /\ kind[r] = "plain" /\ decoded' = decoded /\ NextFrame(r, TRUE)
          /\ timing' = [timing EXCEPT ![r] = IF good THEN "none" ELSE "decode"]
          /\ reply' = [reply EXCEPT ![r] = IF good THEN SecondParse(r) ELSE "unmarshal"]
          /\ Finish(r, TRUE)
        BY <2>10 DEF PlainEnd, Body
    <3>2. /\ UNCHANGED <<target, prompt, kind>>
          /\ completed' = [completed EXCEPT ![r] = TRUE]
        BY <3>1 DEF Finish
    <3>3. PhaseOthers(r) /\ pc'[r] # "start"
        BY <3>1, <3>2 DEF PhaseOthers, NextFrame, IInv, TypeOK
    <3>4. reply'[r] # "streaming" /\ ~Fit(r)'
        BY <3>1, <3>2 DEF SecondParse, Fit, IInv, TypeOK
    <3>5. \A q \in Pods : q # target'[r] => load'[q] = load[q]
        BY <2>10, <3>2 DEF PlainEnd, IInv, TypeOK
    <3> QED BY <3>2, <3>3, <3>4, <3>5, PhaseStep
  <2>11. CASE Exit(r)
    <3>1. /\ UNCHANGED <<target, prompt, decoded, kind, reply, completed>>
          /\ pc'[r] # "start" /\ \A s \in Requests \ {r} : pc'[s] = pc[s]
        BY <2>11 DEF Exit, IInv, TypeOK
    <3>2. CASE target[r] # NoPod /\ ~inflightCleaned[r]
      <4>1. CleanupInflightCounters(r) /\ target[r] \in Pods
          BY <2>11, <3>2 DEF Exit, CleanupRequest, IInv, TypeOK
      <4>2. PhaseOthers(r)
          BY <3>1, <4>1 DEF PhaseOthers, CleanupInflightCounters, IInv, TypeOK
      <4> QED BY <3>1, <4>1, <4>2, PhaseCleanup
    <3>3. CASE ~(target[r] # NoPod /\ ~inflightCleaned[r])
        BY <2>11, <3>1, <3>3, PhaseKept DEF Exit, PhaseOthers
    <3> QED BY <3>2, <3>3
  <2> QED BY <1>1, <2>1, <2>2, <2>3, <2>4, <2>5, <2>6, <2>7, <2>8, <2>9, <2>10, <2>11
          DEF ProcessStep
<1>2. CASE UNCHANGED vars
  <2>1. /\ View' = View /\ UNCHANGED <<load, reply, timing, pc>>
        /\ \A p \in Pods : Regular(p)' <=> Regular(p)
      BY <1>2 DEF vars, View, Regular
  <2> QED BY <2>1 DEF PhaseInv
<1> QED BY <1>1, <1>2 DEF Next

\* The prefill and decode counters of a pod are exact, in requests and in tokens,
\* for any number of requests, pods and tokens, as long as the pod's responses are
\* streams with content, wherever each stream breaks off.
THEOREM PhaseCountersMatchAlways == Spec => []PhaseCountersMatch
<1>1. Init => PhaseInv
  <2> SUFFICES ASSUME Init PROVE PhaseInv
      OBVIOUS
  <2>1. View \in Views /\ \A p \in Pods : \A phase : Phased(View, p, phase) = {}
      BY GatewayConstants DEF Init, View, Views, Phased
  <2>2. /\ SumOver(View.prompt, {}) = 0 /\ SumOver(View.decoded, {}) = 0
        /\ Cardinality({}) = 0
      BY SumEquation, FS_EmptySet
  <2>3. /\ \A p \in Pods : Matches(load[p], View, p)
        /\ \A r \in Requests : reply[r] # "streaming"
    <3>1. ASSUME NEW p \in Pods
          PROVE  Matches(load[p], View, p)
      <4>1. load[p] = [inflight |-> 0, prefillRequests |-> 0, prefillTokens |-> 0,
                       decodeRequests |-> 0, decodeTokens |-> 0, decodeKey |-> FALSE]
          BY DEF Init
      <4>2. Phased(View, p, "prefill") = {} /\ Phased(View, p, "decode") = {}
          BY <2>1
      <4> QED BY <2>2, <4>1, <4>2 DEF Matches
    <3> QED BY <3>1 DEF Init
  <2> QED BY <2>3 DEF PhaseInv
<1>2. IInv /\ PhaseInv => PhaseCountersMatch
  <2> SUFFICES ASSUME IInv, PhaseInv, NEW p \in Pods, Regular(p)
               PROVE  Matches(load[p], View, p) =>
                 /\ load[p].prefillRequests = Cardinality(InPhase(p, "prefill"))
                 /\ load[p].prefillTokens = MapThenSumSet(LAMBDA r : prompt[r],
                                                          InPhase(p, "prefill"))
                 /\ load[p].decodeRequests = Cardinality(InPhase(p, "decode"))
                 /\ load[p].decodeTokens = MapThenSumSet(LAMBDA r : decoded[r],
                                                         InPhase(p, "decode"))
      BY DEF PhaseInv, PhaseCountersMatch
  <2>1. /\ Phased(View, p, "prefill") = InPhase(p, "prefill")
        /\ Phased(View, p, "decode") = InPhase(p, "decode")
      BY DEF Phased, View, InPhase, Live
  <2>2. View.prompt = prompt /\ View.decoded = decoded
      BY DEF View
  <2> QED BY <2>1, <2>2 DEF Matches, SumOver
<1>3. Init => Ledger /\ ReservationsMatch
    BY DEF Init, Ledger, ReservationsMatch
<1>4. IInv /\ Ledger /\ ReservationsMatch /\ [Next]_vars => Ledger' /\ ReservationsMatch'
    BY LedgerNext
<1>5. IInv /\ IInv' /\ Ledger /\ PhaseInv /\ [Next]_vars => PhaseInv'
    BY PhaseNext
<1> QED BY <1>1, <1>2, <1>3, <1>4, <1>5, IInvAlways, PTL DEF Spec

-----------------------------------------------------------------------------
\* What cleanupPerRequestState leaves behind.
AfterPerRequest == OverheadMaps \cup {"NumPreemptions"}

\* What the maps may hold of a request, by how far it has got.
StateOf(r) ==
  /\ stored[r] \subseteq Maps
  /\ pc[r] = "start" => stored[r] = {} /\ ~routerCtx[r] /\ r \notin logged
  /\ pc[r] = "unrouted" => ~inflightCleaned[r] /\ r \notin logged
  /\ ~routerCtx[r] => /\ stored[r] \subseteq {"requestHeaders"}
                      /\ pc[r] \in {"start", "unrouted", "done"}
  /\ r \in logged => pc[r] \in {"eos", "done"} /\ stored[r] \subseteq LatencyMaps
  /\ pc[r] = "body" /\ timing[r] = "none" /\ ~isRespError[r] => reply[r] = "streaming"
  /\ inflightCleaned[r] /\ r \notin logged /\ reply[r] # "streaming" =>
       stored[r] \subseteq AfterPerRequest
  /\ pc[r] = "done" => stored[r] \subseteq Leftover(r)

StateType ==
  /\ stored \in [Requests -> SUBSET Maps] /\ routerCtx \in [Requests -> BOOLEAN]
  /\ logged \subseteq Requests

StateInv == StateType /\ \A r \in Requests : StateOf(r)

-----------------------------------------------------------------------------
\* The cleanups differ by what they leave: the end of a body the predicted
\* latencies, cleanupPerRequestState the preemptions and the overheads.
LEMMA Cleanups ==
  /\ Maps \ EndOfStreamClears \subseteq LatencyMaps
  /\ Maps \ PerRequestClears \subseteq AfterPerRequest
  /\ LatencyMaps \subseteq PerRequestClears
  /\ LatencyMaps \subseteq Maps
  /\ {"requestHeaders"} \subseteq Maps /\ "requestHeaders" \in PerRequestClears
<1> QED
BY DEF Maps, EndOfStreamClears, PerRequestClears, LatencyMaps, PredictionMaps,
       AfterPerRequest, ServerMaps, TokenMaps, SnapshotMaps, VLLMMaps, PrefixMaps,
       OverheadMaps, FallbackMaps

\* Everything that is stored is in one of the maps.
LEMMA StoredMaps ==
  /\ BeforeRoute \subseteq Maps /\ SnapshotMaps \subseteq Maps
  /\ {"statusCode"} \subseteq Maps /\ {"streamingUsageCache"} \subseteq Maps
  /\ {"requestBuffers"} \subseteq Maps
  /\ \A path \in RoutePaths : RouteStores(path) \subseteq Maps
<1>1. /\ BeforeRoute \subseteq Maps /\ SnapshotMaps \subseteq Maps
      /\ {"statusCode"} \subseteq Maps /\ {"streamingUsageCache"} \subseteq Maps
      /\ {"requestBuffers"} \subseteq Maps
    BY DEF Maps, BeforeRoute, SnapshotMaps, TokenMaps, ServerMaps
<1>2. /\ ScrapeAndMatch \subseteq Maps /\ OverheadMaps \subseteq Maps
      /\ FallbackMaps \subseteq Maps /\ PredictionMaps \subseteq Maps
    BY DEF Maps, ScrapeAndMatch, OverheadMaps, VLLMMaps, PrefixMaps, FallbackMaps,
           PredictionMaps
<1>3. "FailureFallback" \in Maps
    BY DEF Maps, FallbackMaps
<1>4. ASSUME NEW path \in RoutePaths PROVE RouteStores(path) \subseteq Maps
    BY <1>2, <1>3 DEF RoutePaths, RouteStores
<1> QED BY <1>1, <1>4

\* Whatever a step does to the maps, it is a step of GatewayRequest.
LEMMA StateStepIsStep ==
  ASSUME [StateNext]_stateVars
  PROVE  [Next]_vars
<1>1. ASSUME NEW r \in Requests, RequestStep(r) PROVE Next
  <2>1. ProcessStep(r)
      BY <1>1 DEF RequestStep, ProcessStep, RefuseState, RouteFailState, RouteState,
         ResponseHeadersState, ErrorBodyState, StreamFrameState, StreamErrorState,
         StreamLateState, PlainFrameState, PlainEndState, ExitState
  <2> QED BY <2>1 DEF Next
<1>2. CASE FlushStep
    BY <1>2 DEF FlushStep, FlushTick, FlushMarshal, FlushDeliver, FlushClean
<1>3. CASE UNCHANGED stateVars
    BY <1>3 DEF stateVars
<1> QED BY <1>1, <1>2, <1>3 DEF StateNext

-----------------------------------------------------------------------------
\* A step of one request is a matter of that request.
LEMMA StateOthers ==
  ASSUME StateInv, NEW r \in Requests, StateType', StateOf(r)',
         \A s \in Requests \ {r} :
           /\ pc'[s] = pc[s] /\ timing'[s] = timing[s] /\ reply'[s] = reply[s]
           /\ isRespError'[s] = isRespError[s]
           /\ inflightCleaned'[s] = inflightCleaned[s]
           /\ stored'[s] = stored[s] /\ routerCtx'[s] = routerCtx[s]
           /\ (s \in logged' <=> s \in logged)
  PROVE  StateInv'
<1>1. ASSUME NEW s \in Requests \ {r} PROVE StateOf(s)'
  <2>1. StateOf(s)
      BY DEF StateInv
  <2> QED BY <2>1 DEF StateOf, Leftover
<1> QED BY <1>1 DEF StateInv

\* Refused and unroutable requests.
LEMMA StateUnrouted ==
  ASSUME IInv, StateInv, NEW r \in Requests,
         \/ \E ctx \in BOOLEAN : RefuseState(r, ctx)
         \/ \E n \in PromptSizes : RouteFailState(r, n)
  PROVE  StateInv'
<1> USE DEF request, body, flags, counts, logs, flush
<1>0. StateOf(r) /\ StateType
    BY DEF StateInv
<1>1. ASSUME NEW ctx \in BOOLEAN, RefuseState(r, ctx) PROVE StateInv'
  <2>1. StateOf(r)' /\ StateType'
      BY <1>0, <1>1, Cleanups
      DEF RefuseState, Refuse, Store, StateOf, StateType, IInv, TypeOK, LifeCycle
  <2> QED BY <1>1, <2>1, StateOthers
          DEF RefuseState, Refuse, Store, StateInv, StateType, IInv, TypeOK
<1>2. ASSUME NEW n \in PromptSizes, RouteFailState(r, n) PROVE StateInv'
  <2>1. StateOf(r)' /\ StateType'
      BY <1>0, <1>2, StoredMaps
      DEF RouteFailState, RouteFail, Routing, Store, StateOf, StateType, IInv, TypeOK,
          LifeCycle
  <2> QED BY <1>2, <2>1, StateOthers
          DEF RouteFailState, RouteFail, Routing, Store, StateInv, StateType, IInv,
              TypeOK
<1> QED BY <1>1, <1>2

\* Routing, the response headers, and a frame that is buffered.
LEMMA StateRouted ==
  ASSUME IInv, StateInv, NEW r \in Requests,
         \/ \E p \in Pods, k \in Kinds, n \in PromptSizes, alg \in SubAlgorithms,
               path \in RoutePaths : RouteState(r, p, k, n, alg, path)
         \/ \E err \in BOOLEAN : ResponseHeadersState(r, err)
         \/ PlainFrameState(r)
  PROVE  StateInv'
<1> USE DEF request, body, flags, counts, logs, flush
<1>0. StateOf(r) /\ StateType
    BY DEF StateInv
<1>1. ASSUME NEW p \in Pods, NEW k \in Kinds, NEW n \in PromptSizes,
             NEW alg \in SubAlgorithms, NEW path \in RoutePaths,
             RouteState(r, p, k, n, alg, path)
      PROVE  StateInv'
  <2>1. StateOf(r)' /\ StateType'
      BY <1>0, <1>1, StoredMaps
      DEF RouteState, RouteRequest, Routing, Store, StateOf, StateType, IInv, TypeOK,
          LifeCycle
  <2> QED BY <1>1, <2>1, StateOthers
          DEF RouteState, RouteRequest, Routing, Store, StateInv, StateType, IInv,
              TypeOK
<1>2. ASSUME NEW err \in BOOLEAN, ResponseHeadersState(r, err) PROVE StateInv'
  <2>1. StateOf(r)' /\ StateType'
      BY <1>0, <1>2, StoredMaps
      DEF ResponseHeadersState, ResponseHeaders, Store, StateOf, StateType, IInv, TypeOK,
          LifeCycle
  <2> QED BY <1>2, <2>1, StateOthers
          DEF ResponseHeadersState, ResponseHeaders, Store, StateInv, StateType, IInv,
              TypeOK
<1>3. CASE PlainFrameState(r)
  <2>1. StateOf(r)' /\ StateType'
      BY <1>0, <1>3, StoredMaps
      DEF PlainFrameState, PlainFrame, Body, Store, StateOf, StateType, IInv, TypeOK,
          LifeCycle
  <2> QED BY <1>3, <2>1, StateOthers
          DEF PlainFrameState, PlainFrame, Store, StateInv, StateType, IInv, TypeOK
<1> QED BY <1>1, <1>2, <1>3

\* A frame of an error response: the first one runs cleanupPerRequestState.
LEMMA StateErrorBody ==
  ASSUME IInv, StateInv, NEW r \in Requests, NEW eos \in BOOLEAN, ErrorBodyState(r, eos)
  PROVE  StateInv'
<1> USE DEF request, body, flags, counts, logs, flush
<1>0. StateOf(r) /\ StateType
    BY DEF StateInv
<1>1. /\ pc[r] = "body" /\ isRespError[r]
      /\ pc' = [pc EXCEPT ![r] = IF eos THEN "eos" ELSE "body"]
      /\ UNCHANGED <<isRespError, reply, routerCtx, logged>>
    BY DEF ErrorBodyState, ErrorBody, NextFrame
<1>2. CASE inflightCleaned[r]
  <2>1. UNCHANGED <<timing, inflightCleaned, stored>>
      BY <1>2 DEF ErrorBodyState, ErrorBody
  <2>2. StateOf(r)' /\ StateType'
      BY <1>0, <1>1, <1>2, <2>1 DEF StateOf, StateType, IInv, TypeOK
  <2> QED BY <1>1, <2>1, <2>2, StateOthers DEF IInv, TypeOK
<1>3. CASE ~inflightCleaned[r]
  <2>1. /\ timing' = [timing EXCEPT ![r] = "none"]
        /\ inflightCleaned' = [inflightCleaned EXCEPT ![r] = TRUE]
        /\ stored' = [stored EXCEPT ![r] = stored[r] \ PerRequestClears]
      BY <1>3 DEF ErrorBodyState, ErrorBody, CleanupRequest, CleanupInflightCounters,
                  Clear, IInv, TypeOK
  <2>2. StateOf(r)' /\ StateType'
      BY <1>0, <1>1, <2>1, Cleanups DEF StateOf, StateType, IInv, TypeOK
  <2> QED BY <1>1, <2>1, <2>2, StateOthers DEF StateInv, StateType, IInv, TypeOK
<1> QED BY <1>2, <1>3

\* The end of a body: the request is logged, and keeps the predicted latencies.
LEMMA StateEndOfStream ==
  ASSUME IInv, StateInv, NEW r \in Requests, pc[r] = "body", EndOfStream(r),
         pc' = [pc EXCEPT ![r] = "eos"], UNCHANGED <<isRespError, routerCtx>>,
         timing' = [timing EXCEPT ![r] = "none"],
         \A s \in Requests \ {r} : /\ reply'[s] = reply[s]
                                   /\ inflightCleaned'[s] = inflightCleaned[s]
  PROVE  StateInv'
<1>0. StateOf(r) /\ StateType
    BY DEF StateInv
<1>1. /\ logged' = logged \cup {r}
      /\ stored' = [stored EXCEPT ![r] = stored[r] \ EndOfStreamClears]
    BY DEF EndOfStream, Clear
<1>2. StateOf(r)' /\ StateType'
    BY <1>0, <1>1, Cleanups DEF StateOf, StateType, IInv, TypeOK
<1> QED BY <1>1, <1>2, StateOthers DEF StateInv, StateType, IInv, TypeOK

\* A streamed frame that parses.
LEMMA StateStreamFrame ==
  ASSUME IInv, StateInv, NEW r \in Requests, NEW toks \in 0..MaxTokens,
         NEW usage \in BOOLEAN, NEW eos \in BOOLEAN, StreamFrameState(r, toks, usage, eos)
  PROVE  StateInv'
<1> USE DEF request, body, flags, counts, logs, flush
<1>0. StateOf(r) /\ StateType
    BY DEF StateInv
<1>1. /\ pc[r] = "body" /\ ~isRespError[r] /\ timing[r] # "none"
      /\ pc' = [pc EXCEPT ![r] = IF eos THEN "eos" ELSE "body"]
      /\ timing' = [timing EXCEPT ![r] =
                      IF eos THEN "none" ELSE PhaseAfter(timing[r], toks)]
      /\ UNCHANGED <<reply, routerCtx>>
      /\ Finish(r, (usageCached[r] \/ usage) \/ eos)
    BY DEF StreamFrameState, StreamFrame, Body, NextFrame
<1>2. /\ UNCHANGED isRespError
      /\ \/ inflightCleaned' = [inflightCleaned EXCEPT ![r] = timing'[r] = "none"]
         \/ inflightCleaned' = inflightCleaned
    BY <1>1 DEF Finish
<1>3. ~inflightCleaned[r]
    BY <1>1 DEF IInv, LifeCycle
<1>4. CASE eos
  <2>1. /\ pc' = [pc EXCEPT ![r] = "eos"] /\ EndOfStream(r)
        /\ timing' = [timing EXCEPT ![r] = "none"]
      BY <1>1, <1>4 DEF StreamFrameState
  <2>2. \A s \in Requests \ {r} : /\ reply'[s] = reply[s]
                                  /\ inflightCleaned'[s] = inflightCleaned[s]
      BY <1>1, <1>2 DEF IInv, TypeOK
  <2> QED BY <1>1, <1>2, <2>1, <2>2, StateEndOfStream
<1>5. CASE ~eos
  <2>1. /\ pc' = [pc EXCEPT ![r] = "body"] /\ UNCHANGED logged
        /\ timing' = [timing EXCEPT ![r] = PhaseAfter(timing[r], toks)]
        /\ stored' = [stored EXCEPT ![r] = stored[r] \cup {"streamingUsageCache"}]
      BY <1>1, <1>5 DEF StreamFrameState, Store
  <2>2. timing'[r] # "none"
      BY <1>1, <2>1 DEF PhaseAfter, IInv, TypeOK
  <2>3. inflightCleaned'[r] = FALSE
      BY <1>2, <1>3, <2>2 DEF IInv, TypeOK
  <2>4. /\ pc'[r] = "body" /\ stored'[r] = stored[r] \cup {"streamingUsageCache"}
        /\ routerCtx' = routerCtx
      BY <1>1, <2>1 DEF StateInv, StateType, IInv, TypeOK
  <2>5. StateType'
      BY <1>0, <2>1, <2>4, StoredMaps DEF StateType
  <2>6. StateOf(r)'
      BY <1>0, <1>1, <2>1, <2>2, <2>3, <2>4, StoredMaps DEF StateOf
  <2>7. \A s \in Requests \ {r} :
           /\ pc'[s] = pc[s] /\ timing'[s] = timing[s] /\ reply'[s] = reply[s]
           /\ isRespError'[s] = isRespError[s]
           /\ inflightCleaned'[s] = inflightCleaned[s]
           /\ stored'[s] = stored[s] /\ routerCtx'[s] = routerCtx[s]
           /\ (s \in logged' <=> s \in logged)
      BY <1>1, <1>2, <2>1 DEF StateInv, StateType, IInv, TypeOK
  <2> QED BY <2>5, <2>6, <2>7, StateOthers
<1> QED BY <1>4, <1>5

\* A streamed frame that breaks off: what is left is left for good when the
\* deferred cleanup is disabled.
LEMMA StateStreamError ==
  ASSUME IInv, StateInv, NEW r \in Requests, NEW toks \in 0..MaxTokens,
         NEW eos \in BOOLEAN, StreamErrorState(r, toks, eos)
  PROVE  StateInv'
<1> USE DEF request, body, flags, counts, logs, flush
<1>0. StateOf(r) /\ StateType
    BY DEF StateInv
<1>1. /\ pc[r] = "body" /\ pc' = [pc EXCEPT ![r] = IF eos THEN "eos" ELSE "body"]
      /\ timing' = [timing EXCEPT ![r] = "none"]
      /\ reply' = [reply EXCEPT ![r] = "streaming"]
      /\ stored' = [stored EXCEPT ![r] = stored[r] \cup {"streamingUsageCache"}]
      /\ UNCHANGED <<routerCtx, logged>> /\ Finish(r, TRUE)
    BY DEF StreamErrorState, StreamError, Body, NextFrame, Store
<1>2. /\ UNCHANGED isRespError
      /\ \/ inflightCleaned' = [inflightCleaned EXCEPT ![r] = timing'[r] = "none"]
         \/ inflightCleaned' = inflightCleaned
    BY <1>1 DEF Finish
<1>3. /\ pc'[r] \in {"eos", "body"} /\ reply'[r] = "streaming"
      /\ stored'[r] = stored[r] \cup {"streamingUsageCache"}
    BY <1>0, <1>1 DEF StateType, IInv, TypeOK
<1>4. StateType'
    BY <1>0, <1>1, <1>3, StoredMaps DEF StateType
<1>5. StateOf(r)'
    BY <1>0, <1>1, <1>3, StoredMaps DEF StateOf
<1>6. \A s \in Requests \ {r} :
         /\ pc'[s] = pc[s] /\ timing'[s] = timing[s] /\ reply'[s] = reply[s]
         /\ isRespError'[s] = isRespError[s]
         /\ inflightCleaned'[s] = inflightCleaned[s]
         /\ stored'[s] = stored[s] /\ routerCtx'[s] = routerCtx[s]
         /\ (s \in logged' <=> s \in logged)
    BY <1>0, <1>1, <1>2 DEF StateType, IInv, TypeOK
<1> QED BY <1>4, <1>5, <1>6, StateOthers

\* A frame after the timing entry is gone: only a stream error removes the entry
\* before the end, so nothing new is left behind.
LEMMA StateStreamLate ==
  ASSUME IInv, StateInv, NEW r \in Requests, NEW late \in BOOLEAN, NEW eos \in BOOLEAN,
         StreamLateState(r, late, eos)
  PROVE  StateInv'
<1> USE DEF request, body, flags, counts, logs, flush, maps
<1>0. StateOf(r) /\ StateType
    BY DEF StateInv
<1>1. /\ pc[r] = "body" /\ ~isRespError[r] /\ timing[r] = "none"
      /\ pc' = [pc EXCEPT ![r] = IF eos THEN "eos" ELSE "body"]
      /\ UNCHANGED <<timing, reply, stored, routerCtx, logged>>
      /\ Finish(r, completed[r] \/ late \/ eos)
    BY DEF StreamLateState, StreamLate, Body, NextFrame
<1>2. /\ UNCHANGED isRespError
      /\ \/ inflightCleaned' = [inflightCleaned EXCEPT ![r] = timing'[r] = "none"]
         \/ inflightCleaned' = inflightCleaned
    BY <1>1 DEF Finish
<1>3. pc'[r] \in {"eos", "body"} /\ reply'[r] = "streaming"
    BY <1>0, <1>1 DEF StateOf, IInv, TypeOK
<1>4. StateType'
    BY <1>0, <1>1 DEF StateType
<1>5. StateOf(r)'
    BY <1>0, <1>1, <1>3 DEF StateOf
<1>6. \A s \in Requests \ {r} :
         /\ pc'[s] = pc[s] /\ timing'[s] = timing[s] /\ reply'[s] = reply[s]
         /\ isRespError'[s] = isRespError[s]
         /\ inflightCleaned'[s] = inflightCleaned[s]
         /\ stored'[s] = stored[s] /\ routerCtx'[s] = routerCtx[s]
         /\ (s \in logged' <=> s \in logged)
    BY <1>1, <1>2 DEF IInv, TypeOK
<1> QED BY <1>4, <1>5, <1>6, StateOthers

\* The last frame of a plain body.  One that does not parse keeps its timing
\* entry, so the deferred cleanup is still to come.
LEMMA StatePlainEnd ==
  ASSUME IInv, StateInv, NEW r \in Requests, NEW good \in BOOLEAN, PlainEndState(r, good)
  PROVE  StateInv'
<1> USE DEF request, body, flags, counts, logs, flush
<1>0. StateOf(r) /\ StateType
    BY DEF StateInv
<1>1. /\ pc[r] = "body" /\ ~isRespError[r] /\ kind[r] = "plain"
      /\ pc' = [pc EXCEPT ![r] = "eos"]
      /\ timing' = [timing EXCEPT ![r] = IF good THEN "none" ELSE "decode"]
      /\ reply' = [reply EXCEPT ![r] = IF good THEN SecondParse(r) ELSE "unmarshal"]
      /\ UNCHANGED routerCtx /\ Finish(r, TRUE)
    BY DEF PlainEndState, PlainEnd, Body, NextFrame
<1>2. /\ UNCHANGED isRespError
      /\ \/ inflightCleaned' = [inflightCleaned EXCEPT ![r] = timing'[r] = "none"]
         \/ inflightCleaned' = inflightCleaned
    BY <1>1 DEF Finish
<1>3. ~inflightCleaned[r]
    BY <1>1 DEF IInv, LifeCycle
<1>4. CASE good
  <2>1. timing' = [timing EXCEPT ![r] = "none"] /\ EndOfStream(r)
      BY <1>1, <1>4 DEF PlainEndState
  <2>2. \A s \in Requests \ {r} : /\ reply'[s] = reply[s]
                                  /\ inflightCleaned'[s] = inflightCleaned[s]
      BY <1>1, <1>2 DEF IInv, TypeOK
  <2> QED BY <1>1, <1>2, <2>1, <2>2, StateEndOfStream
<1>5. CASE ~good
  <2>1. /\ timing' = [timing EXCEPT ![r] = "decode"] /\ UNCHANGED logged
        /\ stored' = [stored EXCEPT ![r] = stored[r] \ {"requestBuffers"}]
      BY <1>1, <1>5 DEF PlainEndState, Clear
  <2>2. inflightCleaned'[r] = FALSE
      BY <1>2, <1>3, <2>1 DEF IInv, TypeOK
  <2>3. /\ pc'[r] = "eos" /\ stored'[r] = stored[r] \ {"requestBuffers"}
        /\ routerCtx' = routerCtx
      BY <1>0, <1>1, <2>1 DEF StateType, IInv, TypeOK
  <2>4. StateType'
      BY <1>0, <2>1, <2>3 DEF StateType
  <2>5. StateOf(r)'
      BY <1>0, <1>1, <2>1, <2>2, <2>3 DEF StateOf
  <2>6. \A s \in Requests \ {r} :
           /\ pc'[s] = pc[s] /\ timing'[s] = timing[s] /\ reply'[s] = reply[s]
           /\ isRespError'[s] = isRespError[s]
           /\ inflightCleaned'[s] = inflightCleaned[s]
           /\ stored'[s] = stored[s] /\ routerCtx'[s] = routerCtx[s]
           /\ (s \in logged' <=> s \in logged)
      BY <1>0, <1>1, <1>2, <2>1 DEF StateType, IInv, TypeOK
  <2> QED BY <2>4, <2>5, <2>6, StateOthers
<1> QED BY <1>4, <1>5

\* Process returns: what is left now is left for good.
LEMMA StateExit ==
  ASSUME IInv, StateInv, NEW r \in Requests, ExitState(r)
  PROVE  StateInv'
<1> USE DEF request, body, flags, counts, logs, flush
<1>0. StateOf(r) /\ StateType
    BY DEF StateInv
<1>1. /\ pc[r] # "done" /\ pc' = [pc EXCEPT ![r] = "done"]
      /\ UNCHANGED <<reply, isRespError, inflightCleaned, routerCtx, logged>>
    BY DEF ExitState, Exit
<1>2. pc'[r] = "done"
    BY <1>1 DEF IInv, TypeOK
<1>3. \A s \in Requests \ {r} : timing'[s] = timing[s]
    BY DEF ExitState, Exit, CleanupRequest, CleanupInflightCounters, IInv, TypeOK
<1>4. CASE routerCtx[r] /\ ~inflightCleaned[r]
  <2>1. /\ stored' = [stored EXCEPT ![r] = stored[r] \ PerRequestClears]
        /\ stored'[r] = stored[r] \ PerRequestClears
      BY <1>0, <1>4 DEF ExitState, Clear, StateType
  <2>2. StateType'
      BY <1>0, <1>1, <2>1 DEF StateType
  <2>3. stored'[r] \subseteq Leftover(r)'
      BY <1>0, <1>1, <1>4, <2>1, Cleanups DEF Leftover, StateOf, AfterPerRequest
  <2>4. StateOf(r)'
      BY <1>0, <1>1, <1>2, <1>4, <2>1, <2>3 DEF StateOf
  <2> QED BY <1>0, <1>1, <1>3, <2>1, <2>2, <2>4, StateOthers DEF StateType, IInv, TypeOK
<1>5. CASE ~(routerCtx[r] /\ ~inflightCleaned[r])
  <2>1. stored' = stored
      BY <1>5 DEF ExitState
  <2>2. StateType'
      BY <1>0, <1>1, <2>1 DEF StateType
  <2>3. ~routerCtx[r] => ~inflightCleaned[r]
      BY <1>0, <1>1 DEF StateOf, IInv, LifeCycle
  <2>4. stored'[r] \subseteq Leftover(r)'
      BY <1>0, <1>1, <1>5, <2>1, <2>3 DEF Leftover, StateOf, AfterPerRequest
  <2>5. StateOf(r)'
      BY <1>0, <1>1, <1>2, <2>1, <2>4 DEF StateOf
  <2> QED BY <1>1, <1>3, <2>1, <2>2, <2>5, StateOthers DEF IInv, TypeOK
<1> QED BY <1>4, <1>5

\* Every step keeps the account of the maps.
LEMMA StateInvNext == IInv /\ StateInv /\ [StateNext]_stateVars => StateInv'
<1> SUFFICES ASSUME IInv, StateInv, [StateNext]_stateVars PROVE StateInv'
    OBVIOUS
<1>1. ASSUME NEW r \in Requests, RequestStep(r) PROVE StateInv'
    BY <1>1, StateUnrouted, StateRouted, StateErrorBody, StateStreamFrame,
       StateStreamError, StateStreamLate, StatePlainEnd, StateExit DEF RequestStep
<1>2. CASE UNCHANGED <<vars, maps, logged>>
  <2>1. /\ UNCHANGED <<pc, timing, isRespError, reply, inflightCleaned>>
        /\ UNCHANGED <<stored, routerCtx, logged>>
      BY <1>2 DEF vars, maps, body, flags
  <2> QED BY <2>1 DEF StateInv, StateOf, StateType, Leftover
<1>3. CASE FlushStep \/ UNCHANGED stateVars
    BY <1>2, <1>3 DEF FlushStep, FlushTick, FlushMarshal, FlushDeliver, FlushClean,
                      stateVars, logs
<1> QED BY <1>1, <1>3 DEF StateNext

\* StateSpec implements GatewayRequest: what is proved there holds here.
THEOREM StateImplementsGateway == StateSpec => Spec
<1>1. StateInit => Init
    BY DEF StateInit
<1>2. [StateNext]_stateVars => [Next]_vars
    BY StateStepIsStep
<1> QED BY <1>1, <1>2, PTL DEF StateSpec, Spec

LEMMA StateInvAlways == StateSpec => []StateInv
<1>1. StateInit => StateInv
    BY DEF StateInit, Init, StateInv, StateType, StateOf
<1> QED BY <1>1, StateInvNext, StateImplementsGateway, IInvAlways, PTL DEF StateSpec

\* For any number of requests, whatever path Route took and wherever the response
\* stopped, an ended request has no entry in any map but those that Leftover lists
\* (gateway.go:110-145, gateway_rsp_body.go:504-551).
THEOREM NothingElseLeftAlways == StateSpec => []NothingElseLeft
<1>1. StateInv => NothingElseLeft
    BY DEF StateInv, StateOf, NothingElseLeft
<1> QED BY <1>1, StateInvAlways, PTL

-----------------------------------------------------------------------------
\* Where the line of a request is: a line that was posted is in the buffer only
\* until the buffer is emptied, and in no batch that is still to be posted.
FlushOf(r) ==
  /\ r \notin logged => posts[r] = 0
  /\ posts[r] <= 1
  /\ posts[r] = 1 => /\ r \in lines => flusher \in {"post", "answer"}
                     /\ r \in batch => flusher = "answer"

FlushInv ==
  /\ flusher \in {"idle", "marshal", "post", "answer"}
  /\ posts \in [Requests -> Nat]
  /\ lines \subseteq logged /\ batch \subseteq logged
  /\ \A r \in Requests : FlushOf(r)

\* A request is logged once, at the end of its body.
LEMMA LoggedOnce ==
  ASSUME StateInv, NEW r \in Requests, RequestStep(r)
  PROVE  /\ UNCHANGED flush
         /\ \/ UNCHANGED logs
            \/ r \notin logged /\ lines' = lines \cup {r} /\ logged' = logged \cup {r}
<1>0. pc[r] = "body" => r \notin logged
    BY DEF StateInv, StateOf
<1>1. ASSUME NEW toks \in 0..MaxTokens, NEW usage \in BOOLEAN, NEW eos \in BOOLEAN,
             StreamFrameState(r, toks, usage, eos)
      PROVE  /\ UNCHANGED flush
             /\ \/ UNCHANGED logs
                \/ r \notin logged /\ lines' = lines \cup {r} /\ logged' = logged \cup {r}
    BY <1>0, <1>1 DEF StreamFrameState, StreamFrame, Body, EndOfStream
<1>2. ASSUME NEW good \in BOOLEAN, PlainEndState(r, good)
      PROVE  /\ UNCHANGED flush
             /\ \/ UNCHANGED logs
                \/ r \notin logged /\ lines' = lines \cup {r} /\ logged' = logged \cup {r}
    BY <1>0, <1>2 DEF PlainEndState, PlainEnd, Body, EndOfStream
<1> QED BY <1>1, <1>2 DEF RequestStep, RefuseState, RouteFailState, RouteState,
           ResponseHeadersState, ErrorBodyState, StreamErrorState, StreamLateState,
           PlainFrameState, ExitState

\* Every step keeps the account of the lines.
LEMMA FlushInvNext == StateInv /\ FlushInv /\ [StateNext]_stateVars => FlushInv'
<1> SUFFICES ASSUME StateInv, FlushInv, [StateNext]_stateVars PROVE FlushInv'
    OBVIOUS
<1> USE DEF logs, flush
<1>1. ASSUME NEW r \in Requests, RequestStep(r) PROVE FlushInv'
  <2>1. /\ UNCHANGED <<flusher, batch, posts>>
        /\ \/ UNCHANGED <<lines, logged>>
           \/ r \notin logged /\ lines' = lines \cup {r} /\ logged' = logged \cup {r}
      BY <1>1, LoggedOnce
  <2> QED BY <2>1 DEF FlushInv, FlushOf
<1>2. CASE FlushTick
    BY <1>2 DEF FlushTick, FlushInv, FlushOf
<1>3. CASE FlushMarshal
    BY <1>3 DEF FlushMarshal, FlushInv, FlushOf
<1>4. CASE FlushDeliver
    BY <1>4 DEF FlushDeliver, FlushInv, FlushOf
<1>5. ASSUME NEW ok \in BOOLEAN, FlushClean(ok) PROVE FlushInv'
    BY <1>5 DEF FlushClean, FlushInv, FlushOf
<1>6. CASE UNCHANGED stateVars
    BY <1>6 DEF stateVars, FlushInv, FlushOf
<1> QED BY <1>1, <1>2, <1>3, <1>4, <1>5, <1>6 DEF StateNext, FlushStep

\* For any number of requests, and any interleaving of the flush goroutine with
\* them, no line is posted twice, although a POST may fail after it was handled.
THEOREM PostedAtMostOnceAlways == StateSpec => []PostedAtMostOnce
<1>1. StateInit => FlushInv
    BY DEF StateInit, FlushInv, FlushOf
<1>2. FlushInv => PostedAtMostOnce
    BY DEF FlushInv, FlushOf, PostedAtMostOnce
<1> QED BY <1>1, <1>2, FlushInvNext, StateInvAlways, PTL DEF StateSpec
=============================================================================
