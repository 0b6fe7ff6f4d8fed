----------------------------- MODULE RateLimit -----------------------------
(***************************************************************************)
(* Rate limiting by user: checkLimits (gateway_ratelimit.go) before a      *)
(* request is routed, the count of its tokens when it is answered          *)
(* (gateway_rsp_body.go), and the fixed-window counters they share, which  *)
(* are Redis keys (ratelimiter/redis.go).  Each call to Redis is a step;   *)
(* other requests, and the clock, get in between.                          *)
(***************************************************************************)
EXTENDS Integers, FiniteSets

CONSTANTS
  Users, Handlers,      \* users; goroutines of Process
  Rpm, Tpm,             \* the limits of a user
  WindowSize,           \* windowSize, in ticks
  BinSize,              \* binSize
  Usages,               \* tokens a response may use
  MaxTime               \* bound: the clock

ASSUME RateLimitConstants ==
  /\ Rpm \in Nat \ {0} /\ Tpm \in Nat \ {0} /\ WindowSize \in Nat \ {0}
  /\ BinSize \in Nat \ {0, 1} /\ Usages \subseteq Nat /\ MaxTime \in Nat
  /\ IsFiniteSet(Handlers)

VARIABLES
  now,
  count, expires,       \* Redis: the value of a key and when it expires
  pc, user,             \* where a handler is, and for whom
  requests, tokens,     \* history: counted for the user in this window
  overdrawn             \* history: users admitted with their tokens used up

redis == <<count, expires>>
history == <<requests, tokens, overdrawn>>
vars == <<now, redis, pc, user, history>>

\* The counters, by what the name of a key is made of.  checkTPM asks for that
\* of the user's name; HandleResponseBody formats the whole User.
RpmKey(u) == <<"RPM", "name", u>>
TpmKeyChecked(u) == <<"TPM", "name", u>>
TpmKeyCounted(u) == <<"TPM", "struct", u>>

Keys == {"RPM", "TPM"} \X {"name", "struct"} \X Users

\* genKey: the window of this time, modulo binSize.
Bin(t) == (t \div WindowSize) % BinSize

TypeOK ==
  /\ now \in 0..MaxTime
  /\ count \in [Keys -> [0..BinSize - 1 -> Nat]]
  /\ expires \in [Keys -> [0..BinSize - 1 -> 0..MaxTime + WindowSize]]
  /\ pc \in [Handlers -> {"idle", "checkRPM", "incrRPM", "checkTPM", "serve", "again"}]
  /\ user \in [Handlers -> Users]
  /\ requests \in [Users -> Nat] /\ tokens \in [Users -> Nat]
  /\ overdrawn \subseteq Users

Init ==
  /\ now = 0
  /\ count = [k \in Keys |-> [b \in 0..BinSize - 1 |-> 0]]
  /\ expires = [k \in Keys |-> [b \in 0..BinSize - 1 |-> 0]]
  /\ pc = [h \in Handlers |-> "idle"]
  /\ user \in [Handlers -> Users]
  /\ requests = [u \in Users |-> 0] /\ tokens = [u \in Users |-> 0]
  /\ overdrawn = {}

\* Get: a key that is not there reads as 0.
Get(k) == count[k][Bin(now)]

\* incrAndExpire: the value, and windowSize more to live.
Incr(k, n) ==
  /\ count' = [count EXCEPT ![k][Bin(now)] = @ + n]
  /\ expires' = [expires EXCEPT ![k][Bin(now)] = now + WindowSize]

\* Mutant of ExceedsRPM: the limit itself is let through.
ExceedsRPMByOne(u) == Get(RpmKey(u)) > Rpm

ExceedsRPM(u) == Get(RpmKey(u)) >= Rpm

ExceedsTPM(u) == Get(TpmKeyChecked(u)) >= Tpm

Goto(h, l) == pc' = [pc EXCEPT ![h] = l]

\* HandleRequestHeaders of a request with a user.
Arrive(h) ==
  /\ pc[h] = "idle" /\ Goto(h, "checkRPM")
  /\ UNCHANGED <<now, redis, user, history>>

CheckRPM(h) ==
  /\ pc[h] = "checkRPM"
  /\ Goto(h, IF ExceedsRPM(user[h]) THEN "idle" ELSE "incrRPM")
  /\ UNCHANGED <<now, redis, user, history>>

IncrRPM(h) ==
  /\ pc[h] = "incrRPM" /\ Goto(h, "checkTPM")
  /\ Incr(RpmKey(user[h]), 1)
  /\ requests' = [requests EXCEPT ![user[h]] = @ + 1]
  /\ UNCHANGED <<now, user, tokens, overdrawn>>

CheckTPM(h) ==
  /\ pc[h] = "checkTPM"
  /\ IF ExceedsTPM(user[h])
     THEN Goto(h, "idle") /\ UNCHANGED overdrawn
     ELSE /\ Goto(h, "serve")
          /\ overdrawn' = IF tokens[user[h]] >= Tpm
                          THEN overdrawn \cup {user[h]} ELSE overdrawn
  /\ UNCHANGED <<now, redis, user, requests, tokens>>

\* A call to Redis fails, and the request is answered with an error; or the
\* response comes without a usage.  A failed pipeline has applied none of its
\* commands, or (IncrRPM, then GiveUp) all of them; INCRBY without its EXPIRE is
\* left out.
GiveUp(h) ==
  /\ pc[h] # "idle" /\ Goto(h, "idle")
  /\ UNCHANGED <<now, redis, user, history>>

\* HandleResponseBody counts the tokens of the response: of a stream in each frame
\* from the usage on, here in at most one before the last.
IncrTPM(h, n, last) ==
  /\ pc[h] = "serve" \/ (pc[h] = "again" /\ last)
  /\ Goto(h, IF last THEN "idle" ELSE "again")
  /\ Incr(TpmKeyCounted(user[h]), n)
  /\ tokens' = IF last THEN [tokens EXCEPT ![user[h]] = @ + n] ELSE tokens
  /\ UNCHANGED <<now, user, requests, overdrawn>>

\* Mutant of Expired: only Redis' eviction removes a key.
NeverExpired(k, b, t) == FALSE

Expired(k, b, t) == expires[k][b] <= t

\* The clock, and the keys Redis expires with it.
Tick ==
  /\ now < MaxTime /\ now' = now + 1
  /\ count' = [k \in Keys |-> [b \in 0..BinSize - 1 |->
                 IF Expired(k, b, now') THEN 0 ELSE count[k][b]]]
  /\ expires' = [k \in Keys |-> [b \in 0..BinSize - 1 |->
                   IF Expired(k, b, now') THEN 0 ELSE expires[k][b]]]
  /\ IF now' \div WindowSize = now \div WindowSize
     THEN UNCHANGED <<requests, tokens>>
     ELSE requests' = [u \in Users |-> 0] /\ tokens' = [u \in Users |-> 0]
  /\ UNCHANGED <<pc, user, overdrawn>>

Next ==
  \/ Tick
  \/ \E h \in Handlers : \/ Arrive(h) \/ CheckRPM(h) \/ IncrRPM(h) \/ CheckTPM(h)
                         \/ GiveUp(h)
                         \/ \E n \in Usages, last \in BOOLEAN : IncrTPM(h, n, last)

Spec == Init /\ [][Next]_vars

-----------------------------------------------------------------------------
\* What checkRPM reads is the number of requests of this user counted in the
\* current window: nothing is left in a bin from the window that used it binSize
\* windows ago, and nothing expires before its window is over (redis.go:68-88).
ReadsThisWindow == \A u \in Users : Get(RpmKey(u)) = requests[u]

\* The check and the increment are two calls, so a user can pass the limit, but
\* by fewer requests than the user has handlers (gateway_ratelimit.go:70-90).
RpmOvershootBounded ==
  \A u \in Users :
    LET concurrent == Cardinality({h \in Handlers : user[h] = u})
    IN  concurrent > 0 => requests[u] < Rpm + concurrent

\* "apply rate limits such as requests per minute (RPM) or tokens per minute
\* (TPM)" (gateway-plugins.rst:163): no request is admitted once the responses of
\* the current window have used up the user's tokens.
TpmEnforced == overdrawn = {}
=============================================================================
