---------------------------- MODULE PrefixTable ----------------------------
(***************************************************************************)
(* The gateway's index of which pod has been sent which prompt prefix:     *)
(* PrefixHashTable (prefixcacheindexer/hash.go) over an LRUStore           *)
(* (lrustore/lru_store.go).  AddPrefix and MatchPrefix walk the blocks of  *)
(* a prompt under the table's own lock, but visit the store once per block,*)
(* and the store's eviction goroutine takes only the store's lock: it runs *)
(* between any two blocks, and between the Get and the Put of one.         *)
(***************************************************************************)
EXTENDS Integers, FiniteSets, SequencesExt

CONSTANTS
  Threads,        \* goroutines that route requests
  Prompts,        \* prompts: sequences of token blocks
  Models, Pods,
  Capacity,       \* cap: prefixCacheBlockNumber
  TTL,            \* ttl: prefixCacheEvictionDuration
  MaxTime         \* bound: the clock

ASSUME PrefixTableConstants ==
  /\ \A q \in Prompts : Len(q) \in Nat \ {0}
  /\ Capacity \in Nat \ {0} /\ TTL \in Nat /\ MaxTime \in Nat \ {0}

VARIABLES
  freeTable,      \* prefix hash -> the pods it was sent to, and lastAccessTime
  lruList,        \* the hashes, most recently put first
  now,
  evictNow,       \* the argument of the evict that is running
  keysToEvict,    \* what it has still to look at
  op,             \* what a thread is doing
  arg,            \* its prompt, model and, to add, pod
  pos,            \* i, counted from 1
  block,          \* what Get returned to AddPrefix
  readyPods, prefixMatchPods,
  began,          \* history: when AddPrefix was called
  foundThen,      \* history: what a match would have found when it was called
  sent,           \* history: when a prompt was recorded for a pod, for TTL
  overflowed      \* history: the capacity has removed a block

store == <<freeTable, lruList>>
evictor == <<evictNow, keysToEvict>>
search == <<readyPods, prefixMatchPods>>
start == <<began, foundThen>>
history == <<sent, overflowed>>
vars == <<store, now, evictor, op, arg, pos, block, search, start, history>>

\* getPrefixHashes: the hash of a block is chained over all blocks before it, so
\* it stands for the prefix that ends with the block.
PrefixHash(q, i) == SubSeq(q, 1, i)

Hashes == UNION {{PrefixHash(q, i) : i \in 1..Len(q)} : q \in Prompts}

Args == [prompt : Prompts, model : Models, pod : Pods]

Entry == [pods : SUBSET (Models \X Pods), last : 0..MaxTime]

Percent(i, n) == (i * 100) \div n

-----------------------------------------------------------------------------
\* What a match should find: the longest prefix of q all of whose blocks are
\* known for the pod, in per cent of q.
Known(q, m, p, i) ==
  /\ PrefixHash(q, i) \in DOMAIN freeTable
  /\ <<m, p>> \in freeTable[PrefixHash(q, i)].pods

HitRatio(q, m, p) ==
  LET depth == CHOOSE k \in 0..Len(q) :
                 /\ \A i \in 1..k : Known(q, m, p, i)
                 /\ k < Len(q) => ~Known(q, m, p, k + 1)
  IN  Percent(depth, Len(q))

Init ==
  /\ freeTable = << >> /\ lruList = << >> /\ now = 1
  /\ evictNow = 0 /\ keysToEvict = {}
  /\ op = [t \in Threads |-> "idle"] /\ arg = [t \in Threads |-> << >>]
  /\ pos = [t \in Threads |-> 0] /\ block = [t \in Threads |-> {}]
  /\ readyPods = [t \in Threads |-> {}]
  /\ prefixMatchPods = [t \in Threads |-> [p \in Pods |-> 0]]
  /\ began = [t \in Threads |-> 0] /\ foundThen = [t \in Threads |-> << >>]
  /\ sent = [a \in Args |-> 0] /\ overflowed = FALSE

\* The thread returns: its locals are gone and the table's lock is free.
Return(t) ==
  /\ op' = [op EXCEPT ![t] = "idle"] /\ arg' = [arg EXCEPT ![t] = << >>]
  /\ pos' = [pos EXCEPT ![t] = 0] /\ block' = [block EXCEPT ![t] = {}]
  /\ readyPods' = [readyPods EXCEPT ![t] = {}]
  /\ prefixMatchPods' = [prefixMatchPods EXCEPT ![t] = [p \in Pods |-> 0]]
  /\ began' = [began EXCEPT ![t] = 0]
  /\ foundThen' = [foundThen EXCEPT ![t] = << >>]

-----------------------------------------------------------------------------
(* LRUStore. *)

\* The table with an entry for h, and with none for the keys of S.
Stored(h, pods) ==
  [x \in DOMAIN freeTable \cup {h} |->
     IF x = h THEN [pods |-> pods, last |-> now] ELSE freeTable[x]]

Deleted(f, S) == [x \in DOMAIN f \ S |-> f[x]]

\* Mutant of Put: an entry that exists keeps its place in the list.
PutInPlace(h, pods) ==
  LET grown == <<h>> \o lruList
      full == Len(grown) > Capacity
  IN  IF h \in DOMAIN freeTable
      THEN /\ freeTable' = Stored(h, pods)
           /\ UNCHANGED <<lruList, overflowed>>
      ELSE /\ lruList' = IF full THEN Front(grown) ELSE grown
           /\ freeTable' = Deleted(Stored(h, pods), IF full THEN {Last(grown)} ELSE {})
           /\ overflowed' = (overflowed \/ full)

\* Put: to the head of the list; a new key beyond the capacity removes the tail.
Put(h, pods) ==
  LET grown == <<h>> \o RemoveFirst(lruList, h)
      full == Len(grown) > Capacity
  IN  /\ lruList' = IF full THEN Front(grown) ELSE grown
      /\ freeTable' = Deleted(Stored(h, pods), IF full THEN {Last(grown)} ELSE {})
      /\ overflowed' = (overflowed \/ full)

Expired(h) == h \in DOMAIN freeTable /\ evictNow' - freeTable[h].last > TTL

\* evict: the clock is read and the table scanned under the read lock.
EvictScan ==
  /\ keysToEvict = {}
  /\ evictNow' = now
  /\ keysToEvict' = {h \in DOMAIN freeTable : Expired(h)}
  /\ keysToEvict' # {}
  /\ UNCHANGED <<store, now, op, arg, pos, block, search, start, history>>

\* Mutant of EvictKey: the entry is not looked at again.
EvictKeyUnchecked(h) ==
  /\ h \in keysToEvict
  /\ keysToEvict' = keysToEvict \ {h}
  /\ freeTable' = Deleted(freeTable, {h})
  /\ lruList' = RemoveFirst(lruList, h)
  /\ UNCHANGED <<now, evictNow, op, arg, pos, block, search, start, history>>

\* One key at a time is looked at again under the lock, and removed.
EvictKey(h) ==
  /\ h \in keysToEvict
  /\ keysToEvict' = keysToEvict \ {h}
  /\ UNCHANGED evictNow
  /\ IF Expired(h)
     THEN /\ freeTable' = Deleted(freeTable, {h})
          /\ lruList' = RemoveFirst(lruList, h)
     ELSE UNCHANGED store
  /\ UNCHANGED <<now, op, arg, pos, block, search, start, history>>

-----------------------------------------------------------------------------
(* PrefixHashTable.  A thread that is not idle holds mu. *)

AddPrefix(t, a) ==
  /\ \A u \in Threads : op[u] = "idle"
  /\ op' = [op EXCEPT ![t] = "get"] /\ arg' = [arg EXCEPT ![t] = a]
  /\ pos' = [pos EXCEPT ![t] = 1]
  /\ began' = [began EXCEPT ![t] = now]
  /\ UNCHANGED <<store, now, evictor, block, search, foundThen, history>>

CurrentHash(t) == PrefixHash(arg[t].prompt, pos[t])

AddGet(t) ==
  /\ op[t] = "get"
  /\ op' = [op EXCEPT ![t] = "put"]
  /\ block' = [block EXCEPT ![t] =
       IF CurrentHash(t) \in DOMAIN freeTable
       THEN freeTable[CurrentHash(t)].pods ELSE {}]
  /\ UNCHANGED <<store, now, evictor, arg, pos, search, start, history>>

AddPut(t) ==
  /\ op[t] = "put"
  /\ Put(CurrentHash(t), block[t] \cup {<<arg[t].model, arg[t].pod>>})
  /\ IF pos[t] < Len(arg[t].prompt)
     THEN /\ op' = [op EXCEPT ![t] = "get"]
          /\ pos' = [pos EXCEPT ![t] = @ + 1]
          /\ UNCHANGED <<arg, block, search, start, sent>>
     ELSE /\ sent' = [sent EXCEPT ![arg[t]] =
               IF now - began[t] > TTL THEN 0 ELSE began[t]]
          /\ Return(t)
  /\ UNCHANGED <<now, evictor>>

\* seqSearchPrefix_returning_matchedprefixes, for the pods that are ready.
MatchPrefix(t, q, m, ready) ==
  /\ \A u \in Threads : op[u] \in {"idle", "match", "matched"}
  /\ op[t] = "idle"
  /\ op' = [op EXCEPT ![t] = "match"]
  /\ arg' = [arg EXCEPT ![t] = [prompt |-> q, model |-> m]]
  /\ pos' = [pos EXCEPT ![t] = 1]
  /\ readyPods' = [readyPods EXCEPT ![t] = ready]
  /\ foundThen' = [foundThen EXCEPT ![t] =
       [p \in ready |-> HitRatio(q, m, p)]]
  /\ UNCHANGED <<store, now, evictor, block, prefixMatchPods, began, history>>

\* Mutant of StillReady: a pod that misses a block stays in the race.
StillReadyAll(t, hits) == readyPods[t]

\* matchPods drops the pods that do not have the block.
StillReady(t, hits) == hits

MatchBlock(t) ==
  LET h == CurrentHash(t)
      hits == IF h \in DOMAIN freeTable
              THEN {p \in readyPods[t] : <<arg[t].model, p>> \in freeTable[h].pods}
              ELSE {}
      n == Len(arg[t].prompt)
  IN  /\ op[t] = "match"
      /\ prefixMatchPods' = [prefixMatchPods EXCEPT ![t] =
           [p \in Pods |-> IF p \in hits THEN Percent(pos[t], n) ELSE @[p]]]
      /\ readyPods' = [readyPods EXCEPT ![t] = StillReady(t, hits)]
      /\ IF hits = {} \/ pos[t] = n
         THEN op' = [op EXCEPT ![t] = "matched"] /\ UNCHANGED pos
         ELSE pos' = [pos EXCEPT ![t] = @ + 1] /\ UNCHANGED op
      /\ UNCHANGED <<store, now, evictor, arg, block, start, history>>

MatchReturn(t) ==
  /\ op[t] = "matched"
  /\ Return(t)
  /\ UNCHANGED <<store, now, evictor, history>>

Tick ==
  /\ now < MaxTime /\ now' = now + 1
  /\ sent' = [a \in Args |-> IF now' - sent[a] > TTL THEN 0 ELSE sent[a]]
  /\ UNCHANGED <<store, evictor, op, arg, pos, block, search, start, overflowed>>

Next ==
  \/ Tick \/ EvictScan \/ \E h \in keysToEvict : EvictKey(h)
  \/ \E t \in Threads :
       \/ \E a \in Args : AddPrefix(t, a)
       \/ \E q \in Prompts, m \in Models, ready \in SUBSET Pods :
            MatchPrefix(t, q, m, ready)
       \/ AddGet(t) \/ AddPut(t) \/ MatchBlock(t) \/ MatchReturn(t)

Spec == Init /\ [][Next]_vars

-----------------------------------------------------------------------------
TypeOK ==
  /\ DOMAIN freeTable \subseteq Hashes
  /\ \A h \in DOMAIN freeTable : freeTable[h] \in Entry
  /\ lruList \in Seq(Hashes) /\ now \in 0..MaxTime /\ evictNow \in 0..MaxTime
  /\ keysToEvict \subseteq Hashes
  /\ op \in [Threads -> {"idle", "get", "put", "match", "matched"}]
  /\ sent \in [Args -> 0..MaxTime] /\ overflowed \in BOOLEAN

\* The list and the table hold the same blocks, each once and never more than the
\* capacity, and the list is in the order of the access times: what the capacity
\* removes is what has been unused longest (lru_store.go:66-89).
LeastRecentlyUsedLast ==
  /\ DOMAIN freeTable = {lruList[i] : i \in 1..Len(lruList)}
  /\ Cardinality(DOMAIN freeTable) = Len(lruList) /\ Len(lruList) <= Capacity
  /\ \A i, j \in 1..Len(lruList) :
       i < j => freeTable[lruList[i]].last >= freeTable[lruList[j]].last

\* A prompt that AddPrefix recorded for a pod is found in full for TTL, although
\* the eviction may have scanned, and be half-way through, when it was recorded
\* (lru_store.go:108-127, hash.go:135-167); unless the capacity was exceeded.
RecordedIsFound ==
  ~overflowed =>
    \A a \in Args : sent[a] # 0 => HitRatio(a.prompt, a.model, a.pod) = 100

\* A match that runs while blocks are evicted returns, for every ready pod, no
\* more than it would have found when it started and no less than it would find
\* when it returns: no pod is credited with a block behind one that it misses
\* (hash.go:112-132, 170-181).
MatchIsBracketed ==
  \A t \in Threads : op[t] = "matched" =>
    \A p \in DOMAIN foundThen[t] :
      /\ prefixMatchPods[t][p] <= foundThen[t][p]
      /\ prefixMatchPods[t][p] >= HitRatio(arg[t].prompt, arg[t].model, p)
=============================================================================
