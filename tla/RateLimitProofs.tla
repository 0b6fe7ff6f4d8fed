--------------------------- MODULE RateLimitProofs ---------------------------
(***************************************************************************)
(* RateLimit for any window, any number of bins but one, any limit and any *)
(* number of users and handlers.  ReadsThisWindow is not inductive: that a *)
(* bin is empty when its turn comes again follows from when its key was    *)
(* last counted up, which LiveCounts keeps.  RpmOvershootBounded needs the *)
(* handlers that have passed the check and have not yet counted (Admits).  *)
(***************************************************************************)
EXTENDS RateLimit, FiniteSetTheorems, TLAPS

Bins == 0..BinSize - 1

\* When the key's bin was last counted up.
LastIncr(k, b) == expires[k][b] - WindowSize

\* A bin that is not empty was counted up at most a window ago, at a time whose
\* window has this bin.
LiveCounts ==
  \A u \in Users, b \in Bins :
    count[RpmKey(u)][b] # 0 =>
      /\ LastIncr(RpmKey(u), b) \in 0..now
      /\ now < LastIncr(RpmKey(u), b) + WindowSize
      /\ Bin(LastIncr(RpmKey(u), b)) = b

IInv == TypeOK /\ ReadsThisWindow /\ LiveCounts

Concurrent(u) == {h \in Handlers : user[h] = u}

\* The handlers that checkRPM has let pass and that have yet to count.
Passed(u) == {h \in Concurrent(u) : pc[h] = "incrRPM"}

Admits ==
  \A u \in Users :
    Cardinality(Concurrent(u)) > 0 =>
      requests[u] + Cardinality(Passed(u)) < Rpm + Cardinality(Concurrent(u))

-----------------------------------------------------------------------------
\* The windows are the multiples of WindowSize.
LEMMA DivBounds ==
  ASSUME NEW t \in Nat
  PROVE  /\ t \div WindowSize \in Nat
         /\ WindowSize * (t \div WindowSize) <= t
         /\ t < WindowSize * (t \div WindowSize) + WindowSize
BY RateLimitConstants

\* Every time has a bin.
LEMMA BinType == \A t \in Nat : Bin(t) \in Bins
BY DivBounds, RateLimitConstants DEF Bin, Bins

\* With two bins or more, two windows in a row have different bins.
LEMMA NextBin ==
  ASSUME NEW q \in Nat
  PROVE  (q + 1) % BinSize # q % BinSize
<1> SUFFICES ASSUME (q + 1) % BinSize = q % BinSize PROVE FALSE
    OBVIOUS
<1> DEFINE a == q \div BinSize
           b == (q + 1) \div BinSize
<1>1. BinSize \in Nat /\ BinSize >= 2
    BY RateLimitConstants
<1>2. /\ a \in Int /\ b \in Int /\ (q % BinSize) \in Int
      /\ q = BinSize * a + (q % BinSize)
      /\ q + 1 = BinSize * b + ((q + 1) % BinSize)
    BY <1>1
<1> HIDE DEF a, b
<1>3. BinSize * (b - a) = 1
    BY <1>1, <1>2
<1>4. CASE b - a <= 0
    BY <1>1, <1>2, <1>3, <1>4
<1>5. CASE b - a >= 1
    BY <1>1, <1>2, <1>3, <1>5
<1> QED BY <1>2, <1>4, <1>5

\* Times less than a window apart are in one window or in two in a row: they have
\* one bin if and only if they are in one window.
LEMMA SameBin ==
  ASSUME NEW s \in Nat, NEW t \in Nat, s <= t, t < s + WindowSize
  PROVE  Bin(s) = Bin(t) <=> s \div WindowSize = t \div WindowSize
<1>1. t \div WindowSize \in {s \div WindowSize, s \div WindowSize + 1}
    BY DivBounds, RateLimitConstants
<1>2. s \div WindowSize \in Nat
    BY DivBounds
<1> QED BY <1>1, <1>2, NextBin DEF Bin

-----------------------------------------------------------------------------
\* The keys of the counters are different ones.
LEMMA KeyTypes ==
  /\ \A u \in Users : /\ RpmKey(u) \in Keys /\ TpmKeyCounted(u) \in Keys
                      /\ \A v \in Users : /\ RpmKey(u) # TpmKeyCounted(v)
                                          /\ RpmKey(u) = RpmKey(v) => u = v
BY DEF RpmKey, TpmKeyCounted, Keys

\* Counting a key up changes its current bin only.
LEMMA IncrMoves ==
  ASSUME TypeOK, NEW k \in Keys, NEW n \in Nat, Incr(k, n)
  PROVE  /\ count' \in [Keys -> [Bins -> Nat]]
         /\ expires' \in [Keys -> [Bins -> 0..MaxTime + WindowSize]]
         /\ \A j \in Keys, b \in Bins :
              IF j = k /\ b = Bin(now)
              THEN /\ count'[j][b] = count[j][b] + n
                   /\ expires'[j][b] = now + WindowSize
              ELSE count'[j][b] = count[j][b] /\ expires'[j][b] = expires[j][b]
<1>1. /\ now \in Nat /\ now + WindowSize \in 0..MaxTime + WindowSize
      /\ count \in [Keys -> [Bins -> Nat]]
      /\ expires \in [Keys -> [Bins -> 0..MaxTime + WindowSize]]
    BY RateLimitConstants DEF TypeOK, Bins
<1>2. Bin(now) \in Bins
    BY <1>1, BinType
<1> QED BY <1>1, <1>2 DEF Incr

\* The clock takes back what has expired, and nothing else.
LEMMA TickMoves ==
  ASSUME TypeOK, Tick
  PROVE  /\ now \in Nat /\ now' = now + 1 /\ now' \in 0..MaxTime
         /\ count' \in [Keys -> [Bins -> Nat]]
         /\ expires' \in [Keys -> [Bins -> 0..MaxTime + WindowSize]]
         /\ \A k \in Keys, b \in Bins :
              IF expires[k][b] <= now + 1
              THEN count'[k][b] = 0
              ELSE count'[k][b] = count[k][b] /\ expires'[k][b] = expires[k][b]
<1>1. now \in Nat /\ now' = now + 1 /\ now' \in 0..MaxTime
    BY RateLimitConstants DEF TypeOK, Tick
<1>2. /\ count \in [Keys -> [Bins -> Nat]]
      /\ expires \in [Keys -> [Bins -> 0..MaxTime + WindowSize]]
    BY DEF TypeOK, Bins
<1>3. /\ count' = [k \in Keys |-> [b \in Bins |->
                     IF expires[k][b] <= now + 1 THEN 0 ELSE count[k][b]]]
      /\ expires' = [k \in Keys |-> [b \in Bins |->
                       IF expires[k][b] <= now + 1 THEN 0 ELSE expires[k][b]]]
    BY <1>1 DEF Tick, Expired, Bins
<1>4. 0 \in 0..MaxTime + WindowSize
    BY RateLimitConstants
<1> QED BY <1>1, <1>2, <1>3, <1>4

\* The types, whatever the step.
LEMMA TypeNext == TypeOK /\ [Next]_vars => TypeOK'
<1> SUFFICES ASSUME TypeOK, [Next]_vars PROVE TypeOK'
    OBVIOUS
<1> USE DEF redis, history, Goto, Bins
<1>1. CASE Tick
  <2>1. requests' \in [Users -> Nat] /\ tokens' \in [Users -> Nat]
      BY <1>1 DEF Tick, TypeOK
  <2> QED BY <1>1, <2>1, TickMoves DEF Tick, TypeOK
<1>2. ASSUME NEW h \in Handlers, Arrive(h) \/ CheckRPM(h) \/ CheckTPM(h) \/ GiveUp(h)
      PROVE  TypeOK'
  <2>1. CASE Arrive(h) \/ CheckRPM(h) \/ GiveUp(h)
      BY <2>1 DEF TypeOK, Arrive, CheckRPM, GiveUp
  <2>2. CASE CheckTPM(h)
    <3>1. user[h] \in Users
        BY DEF TypeOK
    <3>2. overdrawn' \subseteq Users
        BY <2>2, <3>1 DEF TypeOK, CheckTPM
    <3>3. pc' \in [Handlers -> {"idle", "checkRPM", "incrRPM", "checkTPM", "serve",
                                "again"}]
        BY <2>2 DEF TypeOK, CheckTPM
    <3> QED BY <2>2, <3>2, <3>3 DEF TypeOK, CheckTPM
  <2> QED BY <1>2, <2>1, <2>2
<1>3. ASSUME NEW h \in Handlers, IncrRPM(h)
      PROVE  TypeOK'
  <2>1. RpmKey(user[h]) \in Keys /\ user[h] \in Users
      BY KeyTypes DEF TypeOK
  <2> QED BY <1>3, <2>1, IncrMoves DEF IncrRPM, TypeOK
<1>4. ASSUME NEW h \in Handlers, NEW n \in Usages, NEW last \in BOOLEAN,
             IncrTPM(h, n, last)
      PROVE  TypeOK'
  <2>1. TpmKeyCounted(user[h]) \in Keys /\ user[h] \in Users /\ n \in Nat
      BY KeyTypes, RateLimitConstants DEF TypeOK
  <2> QED BY <1>4, <2>1, IncrMoves DEF IncrTPM, TypeOK
<1>5. CASE UNCHANGED vars
    BY <1>5 DEF TypeOK, vars
<1> QED BY <1>1, <1>2, <1>3, <1>4, <1>5 DEF Next

-----------------------------------------------------------------------------
\* Within a window nothing of it expires; the next window begins with an empty bin.
LEMMA TickStep ==
  ASSUME IInv, Tick
  PROVE  ReadsThisWindow' /\ LiveCounts'
<1> SUFFICES ASSUME NEW u \in Users
             PROVE  /\ Get(RpmKey(u))' = requests'[u]
                    /\ \A b \in Bins : count'[RpmKey(u)][b] # 0 =>
                         /\ LastIncr(RpmKey(u), b)' \in 0..now'
                         /\ now' < LastIncr(RpmKey(u), b)' + WindowSize
                         /\ Bin(LastIncr(RpmKey(u), b)') = b
    BY DEF ReadsThisWindow, LiveCounts
<1> DEFINE k == RpmKey(u)
<1>1. /\ k \in Keys /\ now \in Nat /\ now' = now + 1 /\ WindowSize \in Nat \ {0}
      /\ \A b \in Bins : expires[k][b] \in Int
  <2>1. k \in Keys
      BY KeyTypes
  <2>2. now \in Nat /\ now' = now + 1 /\ WindowSize \in Nat \ {0}
      BY TickMoves, RateLimitConstants DEF IInv
  <2> HIDE DEF k
  <2>3. \A b \in Bins : expires[k][b] \in Int
      BY <2>1, RateLimitConstants DEF IInv, TypeOK, Bins
  <2> QED BY <2>1, <2>2, <2>3
<1>2. \A b \in Bins :
        IF expires[k][b] <= now + 1
        THEN count'[k][b] = 0
        ELSE count'[k][b] = count[k][b] /\ expires'[k][b] = expires[k][b]
    BY <1>1, TickMoves DEF IInv
<1>3. /\ count[k][Bin(now)] = requests[u]
      /\ \A b \in Bins : count[k][b] # 0 =>
           /\ LastIncr(k, b) \in 0..now /\ now < LastIncr(k, b) + WindowSize
           /\ Bin(LastIncr(k, b)) = b
    BY DEF IInv, ReadsThisWindow, LiveCounts, Get
<1>4. Bin(now) \in Bins /\ Bin(now + 1) \in Bins
    BY <1>1, BinType
<1>5. ASSUME NEW b \in Bins, count'[k][b] # 0
      PROVE  /\ LastIncr(k, b)' = LastIncr(k, b) /\ LastIncr(k, b) \in 0..now
             /\ now + 1 < LastIncr(k, b) + WindowSize /\ Bin(LastIncr(k, b)) = b
    BY <1>1, <1>2, <1>3, <1>5 DEF LastIncr
<1>6. Get(k)' = requests'[u]
  <2>1. Get(k)' = count'[k][Bin(now + 1)]
      BY <1>1 DEF Get, Bin
  <2>2. CASE (now + 1) \div WindowSize = now \div WindowSize
    <3>1. requests'[u] = requests[u] /\ Bin(now + 1) = Bin(now)
        BY <1>1, <2>2 DEF Tick, Bin
    <3>2. ASSUME count[k][Bin(now)] # 0
          PROVE  count'[k][Bin(now)] = count[k][Bin(now)]
      <4> DEFINE s == LastIncr(k, Bin(now))
      <4>1. s \in Nat /\ s <= now /\ now < s + WindowSize /\ Bin(s) = Bin(now)
          BY <1>1, <1>3, <1>4, <3>2
      <4>2. s = expires[k][Bin(now)] - WindowSize
          BY DEF LastIncr
      <4> HIDE DEF s
      <4>3. s \div WindowSize = now \div WindowSize
          BY <1>1, <4>1, SameBin
      <4>4. now + 1 < s + WindowSize
          BY <1>1, <2>2, <4>1, <4>3, DivBounds
      <4> QED BY <1>1, <1>2, <1>4, <4>2, <4>4
    <3>3. count[k][Bin(now)] = 0 => count'[k][Bin(now)] = 0
        BY <1>2, <1>4
    <3> QED BY <1>3, <2>1, <3>1, <3>2, <3>3
  <2>3. CASE (now + 1) \div WindowSize # now \div WindowSize
    <3>1. requests'[u] = 0
        BY <1>1, <2>3 DEF Tick
    <3>2. ASSUME count'[k][Bin(now + 1)] # 0 PROVE FALSE
      <4> DEFINE s == LastIncr(k, Bin(now + 1))
      <4>1. s \in Nat /\ s <= now /\ now + 1 < s + WindowSize /\ Bin(s) = Bin(now + 1)
          BY <1>1, <1>4, <1>5, <3>2
      <4> HIDE DEF s
      <4>2. s \div WindowSize = (now + 1) \div WindowSize
          BY <1>1, <4>1, SameBin
      <4> QED BY <1>1, <2>3, <4>1, <4>2, DivBounds
    <3> QED BY <2>1, <3>1, <3>2
  <2> QED BY <2>2, <2>3
<1> QED BY <1>1, <1>5, <1>6

\* A request is counted in the current bin and in the current window.
LEMMA IncrStep ==
  ASSUME IInv, NEW h \in Handlers, IncrRPM(h)
  PROVE  ReadsThisWindow' /\ LiveCounts'
<1> DEFINE v == user[h]
           k == RpmKey(v)
<1>1. /\ v \in Users /\ k \in Keys /\ now \in Nat /\ now' = now
      /\ WindowSize \in Nat \ {0} /\ Bin(now) \in Bins
    BY KeyTypes, BinType, RateLimitConstants DEF IInv, TypeOK, IncrRPM
<1>2. \A j \in Keys, b \in Bins :
        IF j = k /\ b = Bin(now)
        THEN count'[j][b] = count[j][b] + 1 /\ expires'[j][b] = now + WindowSize
        ELSE count'[j][b] = count[j][b] /\ expires'[j][b] = expires[j][b]
    BY <1>1, IncrMoves DEF IInv, IncrRPM
<1>3. /\ requests \in [Users -> Nat]
      /\ requests' = [requests EXCEPT ![v] = @ + 1]
    BY DEF IncrRPM, IInv, TypeOK
<1>4. Bin(now)' = Bin(now)
    BY <1>1 DEF Bin
<1>5. ReadsThisWindow'
  <2>1. \A u \in Users : RpmKey(u) \in Keys /\ (RpmKey(u) = k <=> u = v)
      BY <1>1, KeyTypes
  <2>2. \A u \in Users : count[RpmKey(u)][Bin(now)] = requests[u]
      BY DEF IInv, ReadsThisWindow, Get
  <2>3. \A u \in Users : count'[RpmKey(u)][Bin(now)] = requests'[u]
      BY <1>1, <1>2, <1>3, <2>1, <2>2
  <2> QED BY <1>4, <2>3 DEF ReadsThisWindow, Get
<1>6. LiveCounts'
  <2> SUFFICES ASSUME NEW u \in Users, NEW b \in Bins, count'[RpmKey(u)][b] # 0
               PROVE  /\ LastIncr(RpmKey(u), b)' \in 0..now
                      /\ now < LastIncr(RpmKey(u), b)' + WindowSize
                      /\ Bin(LastIncr(RpmKey(u), b)') = b
      BY <1>1 DEF LiveCounts
  <2>1. CASE RpmKey(u) = k /\ b = Bin(now)
    <3>1. LastIncr(RpmKey(u), b)' = now
        BY <1>1, <1>2, <2>1 DEF LastIncr
    <3> QED BY <1>1, <2>1, <3>1
  <2>2. CASE ~(RpmKey(u) = k /\ b = Bin(now))
    <3>1. RpmKey(u) \in Keys
        BY KeyTypes
    <3>2. count[RpmKey(u)][b] # 0 /\ LastIncr(RpmKey(u), b)' = LastIncr(RpmKey(u), b)
        BY <1>2, <2>2, <3>1 DEF LastIncr
    <3> QED BY <3>2 DEF IInv, LiveCounts
  <2> QED BY <2>1, <2>2
<1> QED BY <1>5, <1>6

\* Steps that leave the counters of requests and the clock alone.
LEMMA OtherStep ==
  ASSUME IInv, UNCHANGED <<now, requests>>,
         \A u \in Users, b \in Bins :
           /\ count'[RpmKey(u)][b] = count[RpmKey(u)][b]
           /\ expires'[RpmKey(u)][b] = expires[RpmKey(u)][b]
  PROVE  ReadsThisWindow' /\ LiveCounts'
<1>1. Bin(now) \in Bins /\ Bin(now)' = Bin(now)
    BY BinType DEF IInv, TypeOK, Bin
<1>2. ReadsThisWindow'
    BY <1>1 DEF IInv, ReadsThisWindow, Get
<1>3. \A u \in Users, b \in Bins : LastIncr(RpmKey(u), b)' = LastIncr(RpmKey(u), b)
    BY DEF LastIncr
<1>4. LiveCounts'
    BY <1>3 DEF IInv, LiveCounts
<1> QED BY <1>2, <1>4

\* The inductive invariant of the windows.
LEMMA IInvNext == IInv /\ [Next]_vars => IInv'
<1> SUFFICES ASSUME IInv, [Next]_vars PROVE ReadsThisWindow' /\ LiveCounts'
    BY TypeNext DEF IInv
<1>1. CASE Tick
    BY <1>1, TickStep
<1>2. ASSUME NEW h \in Handlers, IncrRPM(h) PROVE ReadsThisWindow' /\ LiveCounts'
    BY <1>2, IncrStep
<1>3. ASSUME NEW h \in Handlers, Arrive(h) \/ CheckRPM(h) \/ CheckTPM(h) \/ GiveUp(h)
      PROVE  ReadsThisWindow' /\ LiveCounts'
    BY <1>3, OtherStep DEF Arrive, CheckRPM, CheckTPM, GiveUp, redis, history
<1>4. ASSUME NEW h \in Handlers, NEW n \in Usages, NEW last \in BOOLEAN,
             IncrTPM(h, n, last)
      PROVE  ReadsThisWindow' /\ LiveCounts'
  <2>1. TpmKeyCounted(user[h]) \in Keys /\ user[h] \in Users /\ n \in Nat
      BY KeyTypes, RateLimitConstants DEF IInv, TypeOK
  <2>2. \A u \in Users, b \in Bins :
           /\ count'[RpmKey(u)][b] = count[RpmKey(u)][b]
           /\ expires'[RpmKey(u)][b] = expires[RpmKey(u)][b]
      BY <1>4, <2>1, IncrMoves, KeyTypes DEF IInv, IncrTPM
  <2> QED BY <1>4, <2>2, OtherStep DEF IncrTPM
<1>5. CASE UNCHANGED vars
    BY <1>5, OtherStep DEF vars, redis, history
<1> QED BY <1>1, <1>2, <1>3, <1>4, <1>5 DEF Next

\* The inductive invariant holds throughout.
THEOREM IInvAlways == Spec => []IInv
<1>1. Init => IInv
  <2> SUFFICES ASSUME Init PROVE IInv
      OBVIOUS
  <2>1. TypeOK
      BY RateLimitConstants DEF Init, TypeOK
  <2>2. now \in Nat /\ Bin(now) \in Bins
      BY BinType, RateLimitConstants DEF Init
  <2>3. \A u \in Users, b \in Bins : count[RpmKey(u)][b] = 0
      BY KeyTypes DEF Init, Bins
  <2>4. ReadsThisWindow /\ LiveCounts
      BY <2>2, <2>3 DEF Init, ReadsThisWindow, LiveCounts, Get
  <2> QED BY <2>1, <2>4 DEF IInv
<1> QED BY <1>1, IInvNext, PTL DEF Spec

\* checkRPM always reads exactly the requests counted for the user in the current
\* window, for any window size and any number of bins but one: Redis expires a
\* window's key before its bin is used again and not before the window is over.
THEOREM ReadsThisWindowAlways == Spec => []ReadsThisWindow
<1>1. IInv => ReadsThisWindow
    BY DEF IInv
<1> QED BY <1>1, IInvAlways, PTL

-----------------------------------------------------------------------------
\* How the number of handlers that have passed the check moves.
LEMMA HandlerSets ==
  \A S \in SUBSET Handlers :
    /\ IsFiniteSet(S) /\ Cardinality(S) \in Nat
    /\ \A h \in Handlers \ S : Cardinality(S \cup {h}) = Cardinality(S) + 1
    /\ \A h \in S : Cardinality(S \ {h}) = Cardinality(S) - 1
    /\ \A T \in SUBSET S : Cardinality(T) <= Cardinality(S)
<1> SUFFICES ASSUME NEW S \in SUBSET Handlers
             PROVE  /\ IsFiniteSet(S) /\ Cardinality(S) \in Nat
                    /\ \A h \in Handlers \ S :
                         Cardinality(S \cup {h}) = Cardinality(S) + 1
                    /\ \A h \in S : Cardinality(S \ {h}) = Cardinality(S) - 1
                    /\ \A T \in SUBSET S : Cardinality(T) <= Cardinality(S)
    OBVIOUS
<1>1. IsFiniteSet(S)
    BY FS_Subset, RateLimitConstants
<1>2. Cardinality(S) \in Nat
    BY <1>1, FS_CardinalityType
<1>3. \A T \in SUBSET S : Cardinality(T) <= Cardinality(S)
    BY <1>1, FS_Subset
<1> QED BY <1>1, <1>2, <1>3, FS_AddElement, FS_RemoveElement

\* A step after which no handler more has passed the check, and no request more is
\* counted.
LEMMA NoMore ==
  ASSUME TypeOK, TypeOK', Admits, user' = user,
         \A u \in Users : requests'[u] <= requests[u] /\ Passed(u)' \subseteq Passed(u)
  PROVE  Admits'
<1> SUFFICES ASSUME NEW u \in Users, Cardinality(Concurrent(u)') > 0
             PROVE  requests'[u] + Cardinality(Passed(u)')
                      < Rpm + Cardinality(Concurrent(u)')
    BY DEF Admits
<1>1. Concurrent(u)' = Concurrent(u)
    BY DEF Concurrent
<1>2. Passed(u) \in SUBSET Handlers /\ Passed(u)' \in SUBSET Passed(u)
    BY DEF Passed, Concurrent
<1>3. /\ Cardinality(Passed(u)) \in Nat /\ Cardinality(Passed(u)') \in Nat
      /\ Cardinality(Passed(u)') <= Cardinality(Passed(u))
    BY <1>2, HandlerSets
<1>4. Concurrent(u) \in SUBSET Handlers
    BY DEF Concurrent
<1>5. /\ requests[u] \in Nat /\ requests'[u] \in Nat /\ Rpm \in Nat
      /\ Cardinality(Concurrent(u)) \in Nat
    BY <1>4, HandlerSets, RateLimitConstants DEF TypeOK
<1>6. requests[u] + Cardinality(Passed(u)) < Rpm + Cardinality(Concurrent(u))
    BY <1>1 DEF Admits
<1> QED BY <1>1, <1>3, <1>5, <1>6

\* Every step keeps the count of those who have passed in bounds.
LEMMA AdmitsNext == IInv /\ TypeOK' /\ Admits /\ [Next]_vars => Admits'
<1> SUFFICES ASSUME IInv, TypeOK', Admits, [Next]_vars PROVE Admits'
    OBVIOUS
<1> USE DEF IInv
<1>1. CASE Tick
  <2>1. user' = user /\ pc' = pc
      BY <1>1 DEF Tick
  <2>2. \A u \in Users : Passed(u)' = Passed(u)
      BY <2>1 DEF Passed, Concurrent
  <2>3. \A u \in Users : requests'[u] <= requests[u]
      BY <1>1 DEF Tick, TypeOK
  <2> QED BY <2>1, <2>2, <2>3, NoMore
<1>2. ASSUME NEW h \in Handlers, Arrive(h) \/ CheckTPM(h) \/ GiveUp(h)
      PROVE  Admits'
  <2>1. /\ user' = user /\ requests' = requests
        /\ \E l \in {"checkRPM", "idle", "serve"} : pc' = [pc EXCEPT ![h] = l]
      BY <1>2 DEF Arrive, CheckTPM, GiveUp, history, Goto
  <2>2. \A u \in Users : Passed(u)' \subseteq Passed(u)
      BY <2>1 DEF Passed, Concurrent, TypeOK
  <2>3. \A u \in Users : requests'[u] <= requests[u]
      BY <2>1 DEF TypeOK
  <2> QED BY <2>1, <2>2, <2>3, NoMore
<1>3. ASSUME NEW h \in Handlers, NEW n \in Usages, NEW last \in BOOLEAN,
             IncrTPM(h, n, last)
      PROVE  Admits'
  <2>1. /\ user' = user /\ requests' = requests
        /\ \E l \in {"idle", "again"} : pc' = [pc EXCEPT ![h] = l]
      BY <1>3 DEF IncrTPM, Goto
  <2>2. \A u \in Users : Passed(u)' \subseteq Passed(u)
      BY <2>1 DEF Passed, Concurrent, TypeOK
  <2>3. \A u \in Users : requests'[u] <= requests[u]
      BY <2>1 DEF TypeOK
  <2> QED BY <2>1, <2>2, <2>3, NoMore
<1>4. ASSUME NEW h \in Handlers, CheckRPM(h)
      PROVE  Admits'
  <2>1. CASE ExceedsRPM(user[h])
    <3>1. user' = user /\ requests' = requests /\ pc' = [pc EXCEPT ![h] = "idle"]
        BY <1>4, <2>1 DEF CheckRPM, history, Goto
    <3>2. \A u \in Users : Passed(u)' \subseteq Passed(u)
        BY <3>1 DEF Passed, Concurrent, TypeOK
    <3>3. \A u \in Users : requests'[u] <= requests[u]
        BY <3>1 DEF TypeOK
    <3> QED BY <3>1, <3>2, <3>3, NoMore
  <2>2. CASE ~ExceedsRPM(user[h])
    <3> SUFFICES ASSUME NEW u \in Users, Cardinality(Concurrent(u)') > 0
                 PROVE  requests'[u] + Cardinality(Passed(u)')
                          < Rpm + Cardinality(Concurrent(u)')
        BY DEF Admits
    <3>1. user' = user /\ requests' = requests /\ pc' = [pc EXCEPT ![h] = "incrRPM"]
        BY <1>4, <2>2 DEF CheckRPM, history, Goto
    <3>2. /\ Concurrent(u)' = Concurrent(u) /\ Concurrent(u) \in SUBSET Handlers
          /\ Passed(u)' \in SUBSET Concurrent(u)
        BY <3>1 DEF Passed, Concurrent
    <3>3. /\ Cardinality(Concurrent(u)) \in Nat /\ Cardinality(Passed(u)') \in Nat
          /\ Cardinality(Passed(u)') <= Cardinality(Concurrent(u))
      <4>1. Passed(u)' \in SUBSET Handlers
          BY <3>2
      <4> QED BY <3>2, <4>1, HandlerSets
    <3>4. requests[u] \in Nat /\ Rpm \in Nat
        BY RateLimitConstants DEF TypeOK
    <3>5. CASE u = user[h]
      <4>1. requests[u] < Rpm
          BY <2>2, <3>4, <3>5 DEF ExceedsRPM, ReadsThisWindow
      <4> QED BY <3>1, <3>2, <3>3, <3>4, <4>1
    <3>6. CASE u # user[h]
      <4>1. Passed(u)' = Passed(u)
          BY <3>1, <3>6 DEF Passed, Concurrent, TypeOK
      <4> QED BY <3>1, <3>2, <4>1 DEF Admits
    <3> QED BY <3>5, <3>6
  <2> QED BY <2>1, <2>2
<1>5. ASSUME NEW h \in Handlers, IncrRPM(h)
      PROVE  Admits'
  <2> SUFFICES ASSUME NEW u \in Users, Cardinality(Concurrent(u)') > 0
               PROVE  requests'[u] + Cardinality(Passed(u)')
                        < Rpm + Cardinality(Concurrent(u)')
      BY DEF Admits
  <2>1. /\ user' = user /\ pc[h] = "incrRPM" /\ pc' = [pc EXCEPT ![h] = "checkTPM"]
        /\ requests' = [requests EXCEPT ![user[h]] = @ + 1]
      BY <1>5 DEF IncrRPM, Goto
  <2>2. Concurrent(u)' = Concurrent(u) /\ Passed(u) \in SUBSET Handlers
      BY <2>1 DEF Concurrent, Passed
  <2>3. requests[u] + Cardinality(Passed(u)) < Rpm + Cardinality(Concurrent(u))
      BY <2>2 DEF Admits
  <2>4. CASE u = user[h]
    <3>1. h \in Passed(u) /\ Passed(u)' = Passed(u) \ {h}
        BY <2>1, <2>4 DEF Passed, Concurrent, TypeOK
    <3>2. Cardinality(Passed(u)') = Cardinality(Passed(u)) - 1
        BY <2>2, <3>1, HandlerSets
    <3>3. Cardinality(Passed(u)) \in Nat
        BY <2>2, HandlerSets
    <3>4. requests'[u] = requests[u] + 1 /\ requests[u] \in Nat
        BY <2>1, <2>4 DEF TypeOK
    <3> QED BY <2>2, <2>3, <3>2, <3>3, <3>4
  <2>5. CASE u # user[h]
    <3>1. Passed(u)' = Passed(u) /\ requests'[u] = requests[u]
        BY <2>1, <2>5 DEF Passed, Concurrent, TypeOK
    <3> QED BY <2>2, <2>3, <3>1
  <2> QED BY <2>4, <2>5
<1>6. CASE UNCHANGED vars
    BY <1>6 DEF vars, history, Admits, Passed, Concurrent
<1> QED BY <1>1, <1>2, <1>3, <1>4, <1>5, <1>6 DEF Next

\* A user passes the limit by fewer requests than the user has handlers, for any
\* limit and any number of handlers, although the check and the increment are two
\* calls to Redis and the window may end between them.
THEOREM RpmOvershootBoundedAlways == Spec => []RpmOvershootBounded
<1>1. Init => Admits
  <2> SUFFICES ASSUME Init, NEW u \in Users, Cardinality(Concurrent(u)) > 0
               PROVE  requests[u] + Cardinality(Passed(u))
                        < Rpm + Cardinality(Concurrent(u))
      BY DEF Admits
  <2>1. Passed(u) = {} /\ requests[u] = 0 /\ Concurrent(u) \in SUBSET Handlers
      BY DEF Init, Passed, Concurrent
  <2>2. Cardinality(Passed(u)) = 0 /\ Cardinality(Concurrent(u)) \in Nat
      BY <2>1, FS_EmptySet, HandlerSets
  <2> QED BY <2>1, <2>2, RateLimitConstants
<1>2. IInv /\ IInv' /\ Admits /\ [Next]_vars => Admits'
    BY AdmitsNext DEF IInv
<1>3. IInv /\ Admits => RpmOvershootBounded
  <2> SUFFICES ASSUME IInv, Admits, NEW u \in Users, Cardinality(Concurrent(u)) > 0
               PROVE  requests[u] < Rpm + Cardinality(Concurrent(u))
      BY DEF RpmOvershootBounded, Concurrent
  <2>1. Passed(u) \in SUBSET Handlers /\ Concurrent(u) \in SUBSET Handlers
      BY DEF Passed, Concurrent
  <2>2. Cardinality(Passed(u)) \in Nat /\ Cardinality(Concurrent(u)) \in Nat
      BY <2>1, HandlerSets
  <2>3. requests[u] \in Nat /\ Rpm \in Nat
      BY RateLimitConstants DEF IInv, TypeOK
  <2> QED BY <2>2, <2>3 DEF Admits
<1> QED BY <1>1, <1>2, <1>3, IInvAlways, PTL DEF Spec
==============================================================================
