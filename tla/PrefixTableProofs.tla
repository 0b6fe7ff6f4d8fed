------------------------- MODULE PrefixTableProofs --------------------------
(***************************************************************************)
(* Theorems about PrefixTable, for every set of threads, prompts, models   *)
(* and pods, every capacity, TTL and bound.                                *)
(*                                                                         *)
(* The three properties need one invariant, IInv.  The order of the list   *)
(* (StoreOK) is inductive with the access times bounded by the clock.      *)
(* What was recorded is found because it is fresh (SentOK): an access time *)
(* within TTL is what evict checks under the lock, so it is enough to say  *)
(* that a thread that adds is alone, that the blocks it has put are fresh, *)
(* and that between its Get and its Put nobody added a pod to the block    *)
(* (AddOK).  A match is bracketed because a pod is credited with the first *)
(* k blocks that were seen of it, and while somebody matches the table     *)
(* only shrinks: no block that ended a pod comes back (Credit, MatchOK).   *)
(***************************************************************************)
EXTENDS PrefixTable, FiniteSetTheorems, SequenceTheorems, TLAPS

-----------------------------------------------------------------------------
(* Numbers. *)

\* A set of natural numbers has a least element.
LEMMA LeastOf ==
  ASSUME NEW T \in SUBSET Nat, T # {}
  PROVE  \E x \in T : \A y \in T : x <= y
<1>1. PICK x \in T : \A y \in T : ~(<<y, x>> \in OpToRel(<, Nat))
    BY NatLessThanWellFounded, WFMin, Zenon
<1>2. ASSUME NEW y \in T PROVE x <= y
  <2>1. ~(y < x)
      BY <1>1 DEF OpToRel
  <2> QED BY <2>1
<1> QED BY <1>2

\* The quotient, between two multiples of the divisor.
LEMMA Quotient ==
  ASSUME NEW a \in Nat, NEW n \in Nat \ {0}
  PROVE  /\ a \div n \in Nat
         /\ (a \div n) * n <= a /\ a < (a \div n) * n + n
OBVIOUS

LEMMA PercentMonotonic ==
  ASSUME NEW i \in Nat, NEW j \in Nat, NEW n \in Nat \ {0}, i <= j
  PROVE  Percent(i, n) <= Percent(j, n)
<1> DEFINE x == Percent(i, n)
           y == Percent(j, n)
<1>1. /\ x \in Nat /\ x * n <= i * 100 /\ i * 100 < x * n + n
      /\ y \in Nat /\ y * n <= j * 100 /\ j * 100 < y * n + n
    BY Quotient DEF Percent
<1> HIDE DEF x, y
<1>2. SUFFICES ASSUME y + 1 <= x PROVE FALSE
    BY <1>1 DEF x, y
<1>3. (y + 1) * n <= x * n
    BY <1>1, <1>2
<1> QED BY <1>1, <1>3

LEMMA PercentOfAll ==
  ASSUME NEW n \in Nat \ {0}
  PROVE  Percent(n, n) = 100
<1> DEFINE x == Percent(n, n)
<1>1. /\ x \in Nat /\ x * n <= n * 100 /\ n * 100 < x * n + n
    BY Quotient DEF Percent
<1> HIDE DEF x
<1>2. ~(x + 1 <= 100) /\ ~(101 <= x)
    BY <1>1
<1> QED BY <1>1, <1>2 DEF x

-----------------------------------------------------------------------------
(* Lists. *)

Elements(s) == {s[i] : i \in 1..Len(s)}

Distinct(s) == \A i, j \in 1..Len(s) : s[i] = s[j] => i = j

\* list.remove takes the element at one position k away, or none.
LEMMA Unlinked ==
  ASSUME NEW S, NEW s \in Seq(S), NEW h, h \in Elements(s)
  PROVE  \E k \in 1..Len(s) :
           /\ s[k] = h /\ RemoveFirst(s, h) \in Seq(S)
           /\ Len(RemoveFirst(s, h)) = Len(s) - 1
           /\ \A i \in 1..(Len(s) - 1) :
                RemoveFirst(s, h)[i] = s[IF i < k THEN i ELSE i + 1]
<1> DEFINE I == {i \in 1..Len(s) : s[i] = h}
           k == Min(I)
<1>1. I \in SUBSET Nat /\ I # {} /\ Len(s) \in Nat
    BY LenProperties DEF Elements
<1>2. k \in I
  <2> HIDE DEF I
  <2> QED BY <1>1, LeastOf DEF Min
<1>3. RemoveFirst(s, h) = SubSeq(s, 1, k - 1) \o SubSeq(s, k + 1, Len(s))
    BY <1>1, <1>2 DEF RemoveFirst, SelectInSeq, RemoveAt
<1>4. k \in 1..Len(s) /\ s[k] = h
    BY <1>2
<1> HIDE DEF k
<1> DEFINE a == SubSeq(s, 1, k - 1)
           b == SubSeq(s, k + 1, Len(s))
<1>5. /\ a \in Seq(S) /\ Len(a) = k - 1
      /\ \A i \in 1..(k - 1) : a[i] = s[i]
  <2>1. \A i \in 1..(k - 1) : s[i] \in S
      BY <1>1, <1>4, ElementOfSeq
  <2> QED BY <1>1, <1>4, <2>1, SubSeqProperties
<1>6. /\ b \in Seq(S) /\ Len(b) = Len(s) - k
      /\ \A i \in 1..(Len(s) - k) : b[i] = s[k + i]
  <2>1. \A i \in (k + 1)..Len(s) : s[i] \in S
      BY <1>1, <1>4, ElementOfSeq
  <2> QED BY <1>1, <1>4, <2>1, SubSeqProperties
<1>7. RemoveFirst(s, h) = a \o b
    BY <1>3
<1> HIDE DEF a, b
<1>8. /\ a \o b \in Seq(S) /\ Len(a \o b) = Len(s) - 1
      /\ \A i \in 1..(Len(s) - 1) : (a \o b)[i] = IF i < k THEN a[i] ELSE b[i - (k - 1)]
  <2>1. /\ a \o b \in Seq(S) /\ Len(a \o b) = Len(a) + Len(b)
        /\ \A i \in 1..(Len(a) + Len(b)) :
             (a \o b)[i] = IF i <= Len(a) THEN a[i] ELSE b[i - Len(a)]
      BY <1>5, <1>6, ConcatProperties
  <2>2. Len(a) + Len(b) = Len(s) - 1 /\ \A i \in Int : (i <= Len(a)) <=> (i < k)
      BY <1>1, <1>4, <1>5, <1>6
  <2> QED BY <1>5, <2>1, <2>2
<1>9. \A i \in 1..(Len(s) - 1) : (a \o b)[i] = s[IF i < k THEN i ELSE i + 1]
  <2> SUFFICES ASSUME NEW i \in 1..(Len(s) - 1)
               PROVE  (a \o b)[i] = s[IF i < k THEN i ELSE i + 1]
      OBVIOUS
  <2>1. CASE i < k
      BY <1>1, <1>4, <1>5, <1>8, <2>1
  <2>2. CASE ~(i < k)
    <3>1. i - (k - 1) \in 1..(Len(s) - k) /\ k + (i - (k - 1)) = i + 1
        BY <1>1, <1>4, <2>2
    <3>2. b[i - (k - 1)] = s[i + 1]
        BY <1>6, <3>1
    <3> QED BY <1>8, <2>2, <3>2
  <2> QED BY <2>1, <2>2
<1> QED BY <1>4, <1>7, <1>8, <1>9

\* An element less, and the others in the order they had.
LEMMA RemoveKeepsOrder ==
  ASSUME NEW S, NEW s \in Seq(S), Distinct(s), NEW h
  PROVE  /\ RemoveFirst(s, h) \in Seq(S) /\ Distinct(RemoveFirst(s, h))
         /\ Len(RemoveFirst(s, h)) = IF h \in Elements(s) THEN Len(s) - 1 ELSE Len(s)
         /\ Elements(RemoveFirst(s, h)) = Elements(s) \ {h}
         /\ \A i, j \in 1..Len(RemoveFirst(s, h)) : i < j =>
              \E k, l \in 1..Len(s) : k < l /\ RemoveFirst(s, h)[i] = s[k]
                                           /\ RemoveFirst(s, h)[j] = s[l]
<1> DEFINE t == RemoveFirst(s, h)
<1>0. Len(s) \in Nat
    BY LenProperties
<1>1. CASE h \notin Elements(s)
  <2>1. t = s
      BY <1>1 DEF RemoveFirst, Elements
  <2> HIDE DEF t
  <2>2. Elements(s) = Elements(s) \ {h}
      BY <1>1
  <2>3. \A i, j \in 1..Len(s) : i < j =>
          \E k, l \in 1..Len(s) : k < l /\ s[i] = s[k] /\ s[j] = s[l]
      OBVIOUS
  <2> QED BY <1>1, <2>1, <2>2, <2>3 DEF t
<1>2. CASE h \in Elements(s)
  <2>1. PICK k \in 1..Len(s) :
          /\ s[k] = h /\ t \in Seq(S) /\ Len(t) = Len(s) - 1
          /\ \A i \in 1..(Len(s) - 1) : t[i] = s[IF i < k THEN i ELSE i + 1]
      BY <1>2, Unlinked
  <2> DEFINE old(i) == IF i < k THEN i ELSE i + 1
  <2>2. \A i \in 1..(Len(s) - 1) : /\ old(i) \in 1..Len(s) /\ old(i) # k
                                   /\ t[i] = s[old(i)]
      BY <1>0, <2>1
  <2>3. \A i, j \in 1..(Len(s) - 1) : i < j => old(i) < old(j)
      BY <1>0
  <2>4. \A i \in 1..Len(s) : i # k => \E j \in 1..(Len(s) - 1) : old(j) = i
    <3> SUFFICES ASSUME NEW i \in 1..Len(s), i # k
                 PROVE  \E j \in 1..(Len(s) - 1) : old(j) = i
        OBVIOUS
    <3>1. CASE i < k
        BY <1>0, <3>1
    <3>2. CASE i > k
      <4>1. i - 1 \in 1..(Len(s) - 1) /\ old(i - 1) = i
          BY <1>0, <3>2
      <4> QED BY <4>1
    <3> QED BY <1>0, <3>1, <3>2
  <2> HIDE DEF t, old
  <2>5. Distinct(t)
    <3> SUFFICES ASSUME NEW i \in 1..(Len(s) - 1), NEW j \in 1..(Len(s) - 1), t[i] = t[j]
                 PROVE  i = j
        BY <2>1 DEF Distinct
    <3>1. old(i) = old(j)
        BY <2>2 DEF Distinct
    <3>2. old(i) \in Int /\ ~(i < j) /\ ~(j < i)
        BY <1>0, <2>2, <2>3, <3>1
    <3> QED BY <1>0, <3>2
  <2>6. Elements(t) = Elements(s) \ {h}
    <3>1. ASSUME NEW x \in Elements(t) PROVE x \in Elements(s) \ {h}
      <4>1. PICK i \in 1..(Len(s) - 1) : x = t[i]
          BY <2>1 DEF Elements
      <4> QED BY <2>1, <2>2, <4>1 DEF Elements, Distinct
    <3>2. ASSUME NEW x \in Elements(s) \ {h} PROVE x \in Elements(t)
      <4>1. PICK i \in 1..Len(s) : x = s[i] /\ i # k
          BY <2>1 DEF Elements
      <4>2. PICK j \in 1..(Len(s) - 1) : old(j) = i
          BY <2>4, <4>1
      <4> QED BY <2>1, <2>2, <4>1, <4>2 DEF Elements
    <3> QED BY <3>1, <3>2
  <2>7. \A i, j \in 1..Len(t) : i < j =>
          \E a, l \in 1..Len(s) : a < l /\ t[i] = s[a] /\ t[j] = s[l]
      BY <2>1, <2>2, <2>3
  <2> QED BY <1>2, <2>1, <2>5, <2>6, <2>7 DEF t
<1> QED BY <1>1, <1>2

\* removeTail.
LEMMA TailRemoved ==
  ASSUME NEW S, NEW s \in Seq(S), Len(s) > 0, Distinct(s)
  PROVE  /\ Front(s) \in Seq(S) /\ Len(Front(s)) = Len(s) - 1 /\ Distinct(Front(s))
         /\ Elements(Front(s)) = Elements(s) \ {Last(s)} /\ Last(s) \in Elements(s)
         /\ \A i \in 1..(Len(s) - 1) : Front(s)[i] = s[i]
<1> DEFINE t == Front(s)
           n == Len(s) - 1
<1>0. Len(s) \in Nat \ {0} /\ n \in Nat /\ Len(s) = n + 1
    BY LenProperties
<1> HIDE DEF n
<1>1. t \in Seq(S) /\ Len(t) = n /\ \A i \in 1..n : t[i] = s[i]
  <2>1. \A i \in 1..n : s[i] \in S
      BY <1>0, ElementOfSeq
  <2> QED BY <1>0, <2>1, SubSeqProperties DEF Front, n
<1> HIDE DEF t
<1>2. Distinct(t)
    BY <1>0, <1>1 DEF Distinct
<1>3. Elements(t) = Elements(s) \ {Last(s)} /\ Last(s) \in Elements(s)
  <2>1. Last(s) = s[n + 1] /\ n + 1 \in 1..Len(s)
      BY <1>0 DEF Last
  <2>2. ASSUME NEW x \in Elements(t) PROVE x \in Elements(s) \ {Last(s)}
    <3>1. PICK i \in 1..n : x = s[i]
        BY <1>1, <2>2 DEF Elements
    <3>2. i \in 1..Len(s) /\ i # n + 1
        BY <1>0
    <3> QED BY <2>1, <3>1, <3>2 DEF Elements, Distinct
  <2>3. ASSUME NEW x \in Elements(s) \ {Last(s)} PROVE x \in Elements(t)
    <3>1. PICK i \in 1..Len(s) : x = s[i]
        BY <2>3 DEF Elements
    <3>2. i \in 1..n
        BY <1>0, <2>1, <3>1
    <3> QED BY <1>1, <3>1, <3>2 DEF Elements
  <2>4. Last(s) \in Elements(s)
      BY <2>1 DEF Elements
  <2> QED BY <2>2, <2>3, <2>4
<1> QED BY <1>1, <1>2, <1>3 DEF t, n

\* addToHead.
LEMMA HeadAdded ==
  ASSUME NEW S, NEW s \in Seq(S), Distinct(s), NEW h \in S, h \notin Elements(s)
  PROVE  /\ <<h>> \o s \in Seq(S) /\ Len(<<h>> \o s) = Len(s) + 1
         /\ Distinct(<<h>> \o s) /\ Elements(<<h>> \o s) = Elements(s) \cup {h}
         /\ \A i \in 1..(Len(s) + 1) : (<<h>> \o s)[i] = IF i = 1 THEN h ELSE s[i - 1]
<1> DEFINE t == <<h>> \o s
<1>0. Len(s) \in Nat
    BY LenProperties
<1>1. /\ t \in Seq(S) /\ Len(t) = Len(s) + 1
      /\ \A i \in 1..(Len(s) + 1) : t[i] = IF i = 1 THEN h ELSE s[i - 1]
  <2>1. <<h>> \in Seq(S) /\ Len(<<h>>) = 1 /\ <<h>>[1] = h
      OBVIOUS
  <2>2. /\ t \in Seq(S) /\ Len(t) = 1 + Len(s)
        /\ \A i \in 1..(1 + Len(s)) : t[i] = IF i <= 1 THEN <<h>>[i] ELSE s[i - 1]
      BY <2>1, ConcatProperties
  <2> HIDE DEF t
  <2> QED BY <1>0, <2>1, <2>2
<1> HIDE DEF t
<1>2. \A i \in 1..(Len(s) + 1) : i # 1 => i - 1 \in 1..Len(s) /\ t[i] = s[i - 1]
    BY <1>0, <1>1
<1>3. t[1] = h
    BY <1>0, <1>1
<1>4. Distinct(t)
  <2> SUFFICES ASSUME NEW i \in 1..(Len(s) + 1), NEW j \in 1..(Len(s) + 1), t[i] = t[j]
               PROVE  i = j
      BY <1>1 DEF Distinct
  <2>1. CASE i = 1 \/ j = 1
      BY <1>2, <1>3, <2>1 DEF Elements
  <2>2. CASE i # 1 /\ j # 1
    <3>1. i - 1 = j - 1
        BY <1>2, <2>2 DEF Distinct
    <3> QED BY <1>0, <3>1
  <2> QED BY <2>1, <2>2
<1>5. Elements(t) = Elements(s) \cup {h}
  <2>1. ASSUME NEW x \in Elements(t) PROVE x \in Elements(s) \cup {h}
      BY <1>1, <1>2, <1>3, <2>1 DEF Elements
  <2>2. ASSUME NEW x \in Elements(s) PROVE x \in Elements(t)
    <3>1. PICK i \in 1..Len(s) : x = s[i]
        BY <2>2 DEF Elements
    <3>2. i + 1 \in 1..(Len(s) + 1) /\ t[i + 1] = s[i]
        BY <1>0, <1>2
    <3> QED BY <1>1, <3>1, <3>2 DEF Elements
  <2>3. h \in Elements(t)
    <3>1. 1 \in 1..Len(t)
        BY <1>0, <1>1
    <3> QED BY <1>3, <3>1 DEF Elements
  <2> QED BY <2>1, <2>2, <2>3
<1> QED BY <1>1, <1>4, <1>5 DEF t

-----------------------------------------------------------------------------
(* Prompts. *)

\* The depth of a match: how many blocks from the first on are known, and the
\* block after them is not.
IsDepth(q, m, p, d) ==
  /\ d \in 0..Len(q) /\ \A i \in 1..d : Known(q, m, p, i)
  /\ d < Len(q) => ~Known(q, m, p, d + 1)

LEMMA DepthExists ==
  ASSUME NEW q \in Prompts, NEW m, NEW p
  PROVE  \E d : IsDepth(q, m, p, d) /\ HitRatio(q, m, p) = Percent(d, Len(q))
<1> DEFINE T == {k \in Nat : k < Len(q) /\ ~Known(q, m, p, k + 1)}
<1>0. Len(q) \in Nat \ {0}
    BY PrefixTableConstants
<1>1. \E d : IsDepth(q, m, p, d)
  <2>1. CASE T = {}
    <3>1. ASSUME NEW i \in 1..Len(q) PROVE Known(q, m, p, i)
      <4>1. i - 1 \in Nat /\ i - 1 < Len(q) /\ (i - 1) + 1 = i
          BY <1>0
      <4> QED BY <2>1, <4>1
    <3>2. IsDepth(q, m, p, Len(q))
        BY <1>0, <3>1 DEF IsDepth
    <3> QED BY <3>2
  <2>2. CASE T # {}
    <3>1. PICK d \in T : \A k \in T : d <= k
        BY <2>2, LeastOf
    <3>2. ASSUME NEW i \in 1..d PROVE Known(q, m, p, i)
      <4>1. i - 1 \in Nat /\ i - 1 < Len(q) /\ (i - 1) + 1 = i /\ ~(d <= i - 1)
          BY <1>0, <3>1
      <4>2. i - 1 \notin T
          BY <3>1, <4>1
      <4> QED BY <4>1, <4>2
    <3>3. d \in 0..Len(q) /\ ~Known(q, m, p, d + 1)
        BY <1>0, <3>1
    <3>4. IsDepth(q, m, p, d)
        BY <3>2, <3>3 DEF IsDepth
    <3> QED BY <3>4
  <2> QED BY <2>1, <2>2
<1> DEFINE D(k) == /\ \A i \in 1..k : Known(q, m, p, i)
                   /\ k < Len(q) => ~Known(q, m, p, k + 1)
           depth == CHOOSE k \in 0..Len(q) : D(k)
<1>2. depth \in 0..Len(q) /\ D(depth)
    BY <1>1 DEF IsDepth
<1>3. HitRatio(q, m, p) = Percent(depth, Len(q))
    BY DEF HitRatio
<1> HIDE DEF depth
<1> QED BY <1>2, <1>3 DEF IsDepth

\* A prompt all of whose blocks are known is found in full.
LEMMA AllKnown ==
  ASSUME NEW q \in Prompts, NEW m, NEW p, \A i \in 1..Len(q) : Known(q, m, p, i)
  PROVE  HitRatio(q, m, p) = 100
<1>1. PICK d : IsDepth(q, m, p, d) /\ HitRatio(q, m, p) = Percent(d, Len(q))
    BY DepthExists
<1>2. Len(q) \in Nat \ {0}
    BY PrefixTableConstants
<1>3. d = Len(q)
  <2>1. d \in 0..Len(q) /\ (d < Len(q) => ~Known(q, m, p, d + 1))
      BY <1>1 DEF IsDepth
  <2>2. d < Len(q) => d + 1 \in 1..Len(q)
      BY <1>2, <2>1
  <2> QED BY <1>2, <2>1, <2>2
<1> QED BY <1>1, <1>2, <1>3, PercentOfAll

\* What is found of a prompt ends before a block that is not known.
LEMMA NotBeyond ==
  ASSUME NEW q \in Prompts, NEW m, NEW p, NEW k \in 0..Len(q),
         k = Len(q) \/ ~Known(q, m, p, k + 1)
  PROVE  HitRatio(q, m, p) <= Percent(k, Len(q))
<1>1. PICK d : IsDepth(q, m, p, d) /\ HitRatio(q, m, p) = Percent(d, Len(q))
    BY DepthExists
<1>2. Len(q) \in Nat \ {0} /\ d \in 0..Len(q)
    BY <1>1, PrefixTableConstants DEF IsDepth
<1>3. d <= k
  <2>1. SUFFICES ASSUME k < d PROVE FALSE
      BY <1>2
  <2>2. k # Len(q) /\ k + 1 \in 1..d
      BY <1>2, <2>1
  <2> QED BY <1>1, <2>2 DEF IsDepth
<1>4. d \in Nat /\ k \in Nat
    BY <1>2
<1> QED BY <1>1, <1>2, <1>3, <1>4, PercentMonotonic

-----------------------------------------------------------------------------
(* The inductive invariant. *)

Adding(t) == op[t] \in {"get", "put"}

Matching(t) == op[t] \in {"match", "matched"}

Types ==
  /\ TypeOK
  /\ DOMAIN arg = Threads /\ DOMAIN foundThen = Threads
  /\ pos \in [Threads -> Nat] /\ block \in [Threads -> SUBSET (Models \X Pods)]
  /\ readyPods \in [Threads -> SUBSET Pods]
  /\ prefixMatchPods \in [Threads -> [Pods -> Nat]]
  /\ began \in [Threads -> 0..MaxTime]

\* The list and the table, at a time that no access time is beyond.
StoreOK ==
  /\ DOMAIN freeTable = Elements(lruList) /\ Distinct(lruList)
  /\ Len(lruList) <= Capacity
  /\ \A i, j \in 1..Len(lruList) :
       i < j => freeTable[lruList[i]].last >= freeTable[lruList[j]].last
  /\ \A h \in DOMAIN freeTable : freeTable[h].last <= now
  /\ evictNow <= now /\ now >= 1

\* The block is known for the pod, and not older than that.
Fresh(q, m, p, i, since) ==
  Known(q, m, p, i) /\ freeTable[PrefixHash(q, i)].last >= since

\* What was recorded less than TTL ago is fresh.
SentOK ==
  \A a \in Args : sent[a] # 0 =>
    /\ now - sent[a] <= TTL
    /\ ~overflowed =>
         \A i \in 1..Len(a.prompt) : Fresh(a.prompt, a.model, a.pod, i, sent[a])

\* A thread that adds is alone; what it has put is fresh while it is not late, and
\* what it got is still what the table has, unless that was evicted.
AddOK(t) ==
  Adding(t) =>
    /\ arg[t] \in Args /\ pos[t] \in 1..Len(arg[t].prompt) /\ began[t] \in 1..now
    /\ \A u \in Threads \ {t} : op[u] = "idle"
    /\ op[t] = "put" /\ CurrentHash(t) \in DOMAIN freeTable =>
         freeTable[CurrentHash(t)].pods \subseteq block[t]
    /\ ~overflowed /\ now - began[t] <= TTL =>
         \A i \in 1..(pos[t] - 1) :
           Fresh(arg[t].prompt, arg[t].model, arg[t].pod, i, began[t])

\* A pod is credited with the k blocks that were seen of it, at most the d that
\* were known at the start; a block that ended the one or the other is not known.
Credit(t, p, k, d) ==
  LET q == arg[t].prompt
      m == arg[t].model
  IN  /\ k <= d
      /\ prefixMatchPods[t][p] = Percent(k, Len(q))
      /\ foundThen[t][p] = Percent(d, Len(q))
      /\ d = Len(q) \/ ~Known(q, m, p, d + 1)
      /\ IF op[t] = "match" /\ p \in readyPods[t]
         THEN k = pos[t] - 1
         ELSE k = Len(q) \/ ~Known(q, m, p, k + 1)

MatchOK(t) ==
  Matching(t) =>
    /\ arg[t].prompt \in Prompts /\ arg[t].model \in Models
    /\ pos[t] \in 1..Len(arg[t].prompt)
    /\ \A p \in DOMAIN foundThen[t] :
         p \in Pods /\ \E k, d \in 0..Len(arg[t].prompt) : Credit(t, p, k, d)

IdleOK(t) == ~Matching(t) => prefixMatchPods[t] = [p \in Pods |-> 0]

IInv ==
  /\ Types /\ StoreOK /\ SentOK
  /\ \A t \in Threads : AddOK(t) /\ MatchOK(t) /\ IdleOK(t)

-----------------------------------------------------------------------------
(* What the operations of the store do to it. *)

\* Put keeps the store in order; until it overflows, no other entry is touched.
LEMMA PutStep ==
  ASSUME Types, StoreOK, NEW h \in Hashes, NEW pods \in SUBSET (Models \X Pods),
         Put(h, pods), now' = now, evictNow' = evictNow
  PROVE  /\ StoreOK' /\ lruList' \in Seq(Hashes) /\ overflowed' \in BOOLEAN
         /\ DOMAIN freeTable' \subseteq Hashes
         /\ \A x \in DOMAIN freeTable' : freeTable'[x] \in Entry
         /\ ~overflowed' => ~overflowed /\ DOMAIN freeTable' = DOMAIN freeTable \cup {h}
         /\ \A x \in DOMAIN freeTable' :
              freeTable'[x] = IF x = h THEN [pods |-> pods, last |-> now] ELSE freeTable[x]
<1> DEFINE rest == RemoveFirst(lruList, h)
           grown == <<h>> \o rest
           full == Len(grown) > Capacity
           T == Stored(h, pods)
<1>0. /\ lruList \in Seq(Hashes) /\ Len(lruList) \in Nat /\ now \in 0..MaxTime
      /\ DOMAIN freeTable \subseteq Hashes /\ overflowed \in BOOLEAN
      /\ \A x \in DOMAIN freeTable : freeTable[x] \in Entry
      /\ Capacity \in Nat \ {0}
    BY LenProperties, PrefixTableConstants DEF Types, TypeOK
<1>1. /\ rest \in Seq(Hashes) /\ Distinct(rest) /\ Elements(rest) = Elements(lruList) \ {h}
      /\ Len(rest) \in Nat /\ Len(rest) <= Len(lruList)
      /\ \A i, j \in 1..Len(rest) : i < j =>
           \E k, l \in 1..Len(lruList) : k < l /\ rest[i] = lruList[k] /\ rest[j] = lruList[l]
  <2>1. Distinct(lruList)
      BY DEF StoreOK
  <2>2. /\ rest \in Seq(Hashes) /\ Distinct(rest)
        /\ Elements(rest) = Elements(lruList) \ {h}
        /\ Len(rest) = IF h \in Elements(lruList) THEN Len(lruList) - 1 ELSE Len(lruList)
        /\ \A i, j \in 1..Len(rest) : i < j =>
             \E k, l \in 1..Len(lruList) : k < l /\ rest[i] = lruList[k] /\ rest[j] = lruList[l]
      BY <1>0, <2>1, RemoveKeepsOrder
  <2> HIDE DEF rest
  <2> QED BY <1>0, <2>2, LenProperties
<1> HIDE DEF rest
<1>2. /\ grown \in Seq(Hashes) /\ Len(grown) = Len(rest) + 1 /\ Distinct(grown)
      /\ Elements(grown) = Elements(lruList) \cup {h}
      /\ \A i \in 1..(Len(rest) + 1) : grown[i] = IF i = 1 THEN h ELSE rest[i - 1]
    BY <1>1, HeadAdded
<1> HIDE DEF grown
<1>3. /\ DOMAIN T = DOMAIN freeTable \cup {h} /\ DOMAIN T = Elements(grown)
      /\ \A x \in DOMAIN T :
           T[x] = IF x = h THEN [pods |-> pods, last |-> now] ELSE freeTable[x]
      /\ \A x \in DOMAIN T : T[x] \in Entry /\ T[x].last <= now
    BY <1>0, <1>2 DEF Stored, StoreOK, Entry
<1> HIDE DEF T
<1>4. \A i, j \in 1..Len(grown) : i < j => T[grown[i]].last >= T[grown[j]].last
  <2> SUFFICES ASSUME NEW i \in 1..Len(grown), NEW j \in 1..Len(grown), i < j
               PROVE  T[grown[i]].last >= T[grown[j]].last
      OBVIOUS
  <2>1. grown[i] \in DOMAIN T /\ grown[j] \in DOMAIN T
      BY <1>3 DEF Elements
  <2>2. CASE i = 1
    <3>1. T[grown[i]].last = now
        BY <1>1, <1>2, <1>3, <2>1, <2>2
    <3>2. T[grown[j]].last <= now /\ T[grown[j]].last \in Int /\ now \in Int
        BY <1>0, <1>3, <2>1 DEF Entry
    <3> QED BY <3>1, <3>2
  <2>3. CASE i # 1
    <3>1. i - 1 \in 1..Len(rest) /\ j - 1 \in 1..Len(rest) /\ i - 1 < j - 1
          /\ grown[i] = rest[i - 1] /\ grown[j] = rest[j - 1]
      <4>1. Len(rest) \in Nat /\ Len(grown) = Len(rest) + 1 /\ j # 1
          BY <1>1, <1>2
      <4>2. i - 1 \in 1..Len(rest) /\ j - 1 \in 1..Len(rest) /\ i - 1 < j - 1
          BY <2>3, <4>1
      <4> QED BY <1>2, <2>3, <4>1, <4>2
    <3>2. PICK k \in 1..Len(lruList), l \in 1..Len(lruList) :
            k < l /\ grown[i] = lruList[k] /\ grown[j] = lruList[l]
      <4>1. \A a, b \in 1..Len(rest) : a < b =>
              \E k, l \in 1..Len(lruList) :
                k < l /\ rest[a] = lruList[k] /\ rest[b] = lruList[l]
          BY <1>1
      <4> QED BY <3>1, <4>1
    <3>3. grown[i] \in Elements(rest) /\ grown[j] \in Elements(rest)
        BY <3>1 DEF Elements
    <3>4. T[grown[i]] = freeTable[lruList[k]] /\ T[grown[j]] = freeTable[lruList[l]]
        BY <1>1, <1>3, <2>1, <3>2, <3>3
    <3> QED BY <3>2, <3>4 DEF StoreOK
  <2> QED BY <2>2, <2>3
<1>5. /\ lruList' = (IF full THEN Front(grown) ELSE grown)
      /\ freeTable' = Deleted(T, IF full THEN {Last(grown)} ELSE {})
      /\ overflowed' = (overflowed \/ full)
    BY DEF Put, grown, rest, T
<1>6. evictNow' <= now' /\ now' >= 1
    BY DEF StoreOK
<1>7. CASE ~full
  <2>1. lruList' = grown /\ overflowed' = overflowed
      BY <1>0, <1>5, <1>7
  <2>2. freeTable' = [x \in DOMAIN T |-> T[x]]
      BY <1>5, <1>7 DEF Deleted
  <2>3. Len(grown) <= Capacity
      BY <1>0, <1>1, <1>2, <1>7
  <2>4. DOMAIN freeTable' = DOMAIN T /\ \A x \in DOMAIN T : freeTable'[x] = T[x]
      BY <2>2
  <2>5. \A i \in 1..Len(grown) : grown[i] \in DOMAIN T
      BY <1>3 DEF Elements
  <2>6. StoreOK'
    <3>1. \A i, j \in 1..Len(lruList') :
            i < j => freeTable'[lruList'[i]].last >= freeTable'[lruList'[j]].last
        BY <1>4, <2>1, <2>4, <2>5
    <3>2. DOMAIN freeTable' = Elements(lruList') /\ Distinct(lruList')
          /\ Len(lruList') <= Capacity
          /\ \A x \in DOMAIN freeTable' : freeTable'[x].last <= now'
        BY <1>2, <1>3, <2>1, <2>3, <2>4
    <3> QED BY <1>6, <3>1, <3>2 DEF StoreOK, Elements, Distinct
  <2>7. /\ DOMAIN freeTable' \subseteq Hashes
        /\ DOMAIN freeTable' = DOMAIN freeTable \cup {h}
        /\ \A x \in DOMAIN freeTable' : freeTable'[x] \in Entry
      BY <1>0, <1>3, <2>4
  <2>8. \A x \in DOMAIN freeTable' :
          freeTable'[x] = IF x = h THEN [pods |-> pods, last |-> now] ELSE freeTable[x]
      BY <1>3, <2>4
  <2> HIDE DEF full
  <2> QED BY <1>0, <1>2, <2>1, <2>6, <2>7, <2>8
<1>8. CASE full
  <2>1. lruList' = Front(grown) /\ overflowed' = TRUE
      BY <1>0, <1>5, <1>8
  <2>2. /\ Front(grown) \in Seq(Hashes) /\ Len(Front(grown)) = Len(grown) - 1
        /\ Distinct(Front(grown)) /\ Elements(Front(grown)) = Elements(grown) \ {Last(grown)}
        /\ \A i \in 1..(Len(grown) - 1) : Front(grown)[i] = grown[i]
    <3>1. Len(rest) \in Nat /\ Len(grown) = Len(rest) + 1
        BY <1>1, <1>2
    <3>2. Len(grown) > 0
        BY <3>1
    <3> QED BY <1>2, <3>2, TailRemoved
  <2>3. freeTable' = [x \in DOMAIN T \ {Last(grown)} |-> T[x]]
      BY <1>5, <1>8 DEF Deleted
  <2>4. /\ DOMAIN freeTable' = DOMAIN T \ {Last(grown)}
        /\ \A x \in DOMAIN freeTable' : freeTable'[x] = T[x]
      BY <2>3
  <2>5. Len(lruList') <= Capacity
    <3>1. Len(lruList) <= Capacity
        BY DEF StoreOK
    <3> QED BY <1>0, <1>1, <1>2, <2>1, <2>2, <3>1
  <2>6. DOMAIN freeTable' = Elements(lruList') /\ Distinct(lruList')
        /\ \A x \in DOMAIN freeTable' : freeTable'[x].last <= now'
      BY <1>3, <2>1, <2>2, <2>4
  <2>7. \A i, j \in 1..Len(lruList') :
          i < j => freeTable'[lruList'[i]].last >= freeTable'[lruList'[j]].last
    <3> SUFFICES ASSUME NEW i \in 1..Len(lruList'), NEW j \in 1..Len(lruList'), i < j
                 PROVE  freeTable'[lruList'[i]].last >= freeTable'[lruList'[j]].last
        OBVIOUS
    <3>1. /\ i \in 1..Len(grown) /\ j \in 1..Len(grown)
          /\ lruList'[i] = grown[i] /\ lruList'[j] = grown[j]
        BY <1>1, <1>2, <2>1, <2>2
    <3>2. lruList'[i] \in DOMAIN freeTable' /\ lruList'[j] \in DOMAIN freeTable'
        BY <2>6 DEF Elements
    <3> QED BY <1>4, <2>4, <3>1, <3>2
  <2>8. StoreOK'
      BY <1>6, <2>5, <2>6, <2>7 DEF StoreOK, Elements, Distinct
  <2> QED BY <1>0, <1>3, <2>1, <2>2, <2>4, <2>8
<1> QED BY <1>7, <1>8

\* The eviction removes an entry that is older than TTL, or nothing.
LEMMA EvictStep ==
  ASSUME Types, StoreOK, NEW h \in keysToEvict, EvictKey(h)
  PROVE  /\ StoreOK' /\ lruList' \in Seq(Hashes)
         /\ DOMAIN freeTable' \subseteq DOMAIN freeTable
         /\ \A x \in DOMAIN freeTable' : freeTable'[x] = freeTable[x]
         /\ \A x \in DOMAIN freeTable \ DOMAIN freeTable' : now - freeTable[x].last > TTL
<1>0. /\ lruList \in Seq(Hashes) /\ Len(lruList) \in Nat
      /\ now \in Int /\ evictNow \in Int /\ TTL \in Nat
      /\ \A x \in DOMAIN freeTable : freeTable[x] \in Entry /\ freeTable[x].last \in Int
    BY LenProperties, PrefixTableConstants DEF Types, TypeOK, Entry
<1>1. now' = now /\ evictNow' = evictNow
    BY DEF EvictKey
<1>2. CASE ~Expired(h)
  <2>1. freeTable' = freeTable /\ lruList' = lruList
      BY <1>2 DEF EvictKey, store
  <2>2. StoreOK'
      BY <1>1, <2>1 DEF StoreOK, Elements, Distinct
  <2> QED BY <1>0, <2>1, <2>2
<1>3. CASE Expired(h)
  <2> DEFINE rest == RemoveFirst(lruList, h)
  <2>1. /\ lruList' = rest /\ freeTable' = [x \in DOMAIN freeTable \ {h} |-> freeTable[x]]
        /\ h \in DOMAIN freeTable /\ evictNow - freeTable[h].last > TTL
      BY <1>1, <1>3 DEF EvictKey, Expired, Deleted
  <2>2. /\ DOMAIN freeTable' = DOMAIN freeTable \ {h}
        /\ \A x \in DOMAIN freeTable' : freeTable'[x] = freeTable[x]
      BY <2>1
  <2>3. /\ rest \in Seq(Hashes) /\ Distinct(rest) /\ Elements(rest) = Elements(lruList) \ {h}
        /\ Len(rest) <= Len(lruList) /\ Len(rest) \in Nat
        /\ \A i, j \in 1..Len(rest) : i < j =>
             \E k, l \in 1..Len(lruList) : k < l /\ rest[i] = lruList[k] /\ rest[j] = lruList[l]
    <3>1. Distinct(lruList)
        BY DEF StoreOK
    <3>2. /\ rest \in Seq(Hashes) /\ Distinct(rest)
          /\ Elements(rest) = Elements(lruList) \ {h}
          /\ Len(rest) = IF h \in Elements(lruList) THEN Len(lruList) - 1 ELSE Len(lruList)
          /\ \A i, j \in 1..Len(rest) : i < j =>
               \E k, l \in 1..Len(lruList) :
                 k < l /\ rest[i] = lruList[k] /\ rest[j] = lruList[l]
        BY <1>0, <3>1, RemoveKeepsOrder
    <3> HIDE DEF rest
    <3> QED BY <1>0, <3>2, LenProperties
  <2> HIDE DEF rest
  <2>4. \A i, j \in 1..Len(rest) :
          i < j => freeTable'[rest[i]].last >= freeTable'[rest[j]].last
    <3> SUFFICES ASSUME NEW i \in 1..Len(rest), NEW j \in 1..Len(rest), i < j
                 PROVE  freeTable'[rest[i]].last >= freeTable'[rest[j]].last
        OBVIOUS
    <3>1. PICK k \in 1..Len(lruList), l \in 1..Len(lruList) :
            k < l /\ rest[i] = lruList[k] /\ rest[j] = lruList[l]
        BY <2>3
    <3>2. rest[i] \in DOMAIN freeTable' /\ rest[j] \in DOMAIN freeTable'
        BY <2>2, <2>3 DEF Elements, StoreOK
    <3> QED BY <2>2, <3>1, <3>2 DEF StoreOK
  <2>5. DOMAIN freeTable' = Elements(rest) /\ Len(rest) <= Capacity
    <3>1. Len(lruList) <= Capacity /\ DOMAIN freeTable = Elements(lruList) /\ Capacity \in Nat
        BY PrefixTableConstants DEF StoreOK
    <3> QED BY <1>0, <2>2, <2>3, <3>1
  <2>6. \A x \in DOMAIN freeTable' : freeTable'[x].last <= now'
      BY <1>1, <2>2 DEF StoreOK
  <2>7. evictNow' <= now' /\ now' >= 1
      BY <1>1 DEF StoreOK
  <2>8. StoreOK'
    <3>1. /\ DOMAIN freeTable' = Elements(lruList') /\ Distinct(lruList')
          /\ Len(lruList') <= Capacity
          /\ \A i, j \in 1..Len(lruList') :
               i < j => freeTable'[lruList'[i]].last >= freeTable'[lruList'[j]].last
        BY <2>1, <2>3, <2>4, <2>5
    <3> QED BY <2>6, <2>7, <3>1 DEF StoreOK, Elements, Distinct
  <2>9. now - freeTable[h].last > TTL
    <3>1. evictNow <= now /\ freeTable[h].last \in Int
        BY <1>0, <2>1 DEF StoreOK
    <3> QED BY <1>0, <2>1, <3>1
  <2> QED BY <2>1, <2>2, <2>3, <2>8, <2>9
<1> QED BY <1>2, <1>3

-----------------------------------------------------------------------------
(* The invariant, action by action. *)

\* Old blocks may leave the table at any time.
LEMMA ShrinkStep ==
  ASSUME IInv, Types', StoreOK', DOMAIN freeTable' \subseteq DOMAIN freeTable,
         \A x \in DOMAIN freeTable' : freeTable'[x] = freeTable[x],
         \A x \in DOMAIN freeTable \ DOMAIN freeTable' : now - freeTable[x].last > TTL,
         UNCHANGED <<now, op, arg, pos, block, search, start, history>>
  PROVE  IInv'
<1>0. /\ now \in Int /\ TTL \in Nat /\ sent \in [Args -> 0..MaxTime] /\ MaxTime \in Nat
      /\ \A x \in DOMAIN freeTable : freeTable[x].last \in Int
    BY PrefixTableConstants DEF IInv, Types, TypeOK, Entry
<1>1. \A q, m, p, i : Known(q, m, p, i)' => Known(q, m, p, i)
    BY DEF Known
<1>2. ASSUME NEW q, NEW m, NEW p, NEW i, NEW since \in Int,
             Fresh(q, m, p, i, since), now - since <= TTL
      PROVE  Fresh(q, m, p, i, since)'
  <2> DEFINE h == PrefixHash(q, i)
  <2>1. h \in DOMAIN freeTable /\ freeTable[h].last >= since /\ <<m, p>> \in freeTable[h].pods
      BY <1>2 DEF Fresh, Known
  <2> HIDE DEF h
  <2>2. h \in DOMAIN freeTable'
      BY <1>0, <1>2, <2>1
  <2> QED BY <2>1, <2>2 DEF Fresh, Known, h
<1>3. SentOK'
  <2>1. ASSUME NEW a \in Args, NEW since, since = sent[a], since # 0
        PROVE  /\ now - since <= TTL
               /\ ~overflowed => \A i \in 1..Len(a.prompt) :
                    Fresh(a.prompt, a.model, a.pod, i, since)'
    <3>1. since \in Int
        BY <1>0, <2>1
    <3>2. /\ now - since <= TTL
          /\ ~overflowed => \A i \in 1..Len(a.prompt) :
               Fresh(a.prompt, a.model, a.pod, i, since)
        BY <2>1 DEF IInv, SentOK
    <3> QED BY <1>2, <3>1, <3>2
  <2> QED BY <2>1 DEF SentOK, history, Fresh, Known
<1>4. ASSUME NEW t \in Threads PROVE AddOK(t)'
  <2> SUFFICES ASSUME Adding(t) PROVE AddOK(t)'
      BY DEF AddOK, Adding
  <2>1. AddOK(t)
      BY DEF IInv
  <2>2. CurrentHash(t)' = CurrentHash(t)
      BY DEF CurrentHash
  <2>3. began[t] \in Int
      BY <2>1 DEF AddOK
  <2>4. ASSUME NEW a, NEW since, a = arg[t], since = began[t],
               ~overflowed, now - since <= TTL, NEW i \in 1..(pos[t] - 1)
        PROVE  Fresh(a.prompt, a.model, a.pod, i, since)'
    <3>1. Fresh(a.prompt, a.model, a.pod, i, since)
        BY <2>1, <2>4 DEF AddOK
    <3> QED BY <1>2, <2>3, <2>4, <3>1
  <2> QED BY <2>1, <2>2, <2>4 DEF AddOK, Adding, start, history, Fresh, Known
<1>5. ASSUME NEW t \in Threads PROVE MatchOK(t)'
  <2>1. MatchOK(t)
      BY DEF IInv
  <2>2. \A p, k, d : Credit(t, p, k, d) => Credit(t, p, k, d)'
      BY <1>1 DEF Credit, search, start
  <2> QED BY <2>1, <2>2 DEF MatchOK, Matching, start
<1>6. \A t \in Threads : IdleOK(t)'
    BY DEF IInv, IdleOK, Matching, search
<1> QED BY <1>3, <1>4, <1>5, <1>6 DEF IInv

\* The eviction goroutine.
LEMMA ScanKeeps ==
  ASSUME IInv, EvictScan
  PROVE  IInv'
<1>1. /\ UNCHANGED <<freeTable, lruList, now, op, arg, pos, block, search, start, history>>
      /\ evictNow' = now /\ keysToEvict' \subseteq DOMAIN freeTable
    BY DEF EvictScan, store
<1>2. Types'
    BY <1>1 DEF IInv, Types, TypeOK, search, start, history
<1>3. StoreOK'
  <2>1. now \in Int
      BY DEF IInv, Types, TypeOK
  <2> QED BY <1>1, <2>1 DEF IInv, StoreOK, Elements, Distinct
<1> QED BY <1>1, <1>2, <1>3, ShrinkStep

LEMMA EvictKeeps ==
  ASSUME IInv, NEW h \in keysToEvict, EvictKey(h)
  PROVE  IInv'
<1>1. /\ UNCHANGED <<evictNow, now, op, arg, pos, block, search, start, history>>
      /\ keysToEvict' \subseteq keysToEvict
    BY DEF EvictKey
<1>2. /\ StoreOK' /\ lruList' \in Seq(Hashes)
      /\ DOMAIN freeTable' \subseteq DOMAIN freeTable
      /\ \A x \in DOMAIN freeTable' : freeTable'[x] = freeTable[x]
      /\ \A x \in DOMAIN freeTable \ DOMAIN freeTable' : now - freeTable[x].last > TTL
    BY EvictStep DEF IInv
<1>3. Types'
    BY <1>1, <1>2 DEF IInv, Types, TypeOK, search, start, history
<1> QED BY <1>1, <1>2, <1>3, ShrinkStep

\* A step that changes neither the table nor a thread leaves that thread in order.
LEMMA OtherThread ==
  ASSUME NEW u \in Threads, MatchOK(u), IdleOK(u), freeTable' = freeTable,
         op'[u] = op[u], arg'[u] = arg[u], pos'[u] = pos[u], readyPods'[u] = readyPods[u],
         prefixMatchPods'[u] = prefixMatchPods[u], foundThen'[u] = foundThen[u]
  PROVE  MatchOK(u)' /\ IdleOK(u)'
<1>1. \A p, k, d : Credit(u, p, k, d) => Credit(u, p, k, d)'
    BY DEF Credit, Known
<1>2. MatchOK(u)'
    BY <1>1 DEF MatchOK, Matching
<1> QED BY <1>2 DEF IdleOK, Matching

LEMMA SameStore ==
  ASSUME IInv, UNCHANGED <<freeTable, lruList, now, evictNow, sent, overflowed>>
  PROVE  StoreOK' /\ SentOK'
BY DEF IInv, StoreOK, SentOK, Elements, Distinct, Fresh, Known

\* Time passes: what was recorded or begun TTL ago no longer counts.
LEMMA TickKeeps ==
  ASSUME IInv, Tick
  PROVE  IInv'
<1>0. /\ now \in Int /\ TTL \in Nat /\ sent \in [Args -> 0..MaxTime] /\ MaxTime \in Nat
      /\ \A x \in DOMAIN freeTable : freeTable[x].last \in Int
      /\ evictNow \in Int
    BY PrefixTableConstants DEF IInv, Types, TypeOK, Entry
<1>1. /\ now' = now + 1 /\ now < MaxTime
      /\ sent' = [a \in Args |-> IF now' - sent[a] > TTL THEN 0 ELSE sent[a]]
      /\ UNCHANGED <<freeTable, lruList, evictNow, keysToEvict, op, arg, pos, block,
                     readyPods, prefixMatchPods, began, foundThen, overflowed>>
    BY DEF Tick, store, evictor, search, start
<1>2. Types'
  <2>1. now' \in 0..MaxTime /\ sent' \in [Args -> 0..MaxTime]
      BY <1>0, <1>1 DEF IInv, Types, TypeOK
  <2> QED BY <1>1, <2>1 DEF IInv, Types, TypeOK
<1>3. StoreOK'
  <2>1. /\ \A x \in DOMAIN freeTable : freeTable[x].last <= now + 1
        /\ evictNow <= now + 1 /\ now + 1 >= 1
      BY <1>0 DEF IInv, StoreOK
  <2> QED BY <1>1, <2>1 DEF IInv, StoreOK, Elements, Distinct
<1>4. SentOK'
  <2>1. ASSUME NEW a \in Args, sent'[a] # 0
        PROVE  sent'[a] = sent[a] /\ sent[a] # 0 /\ now' - sent[a] <= TTL
      BY <1>0, <1>1, <2>1
  <2> QED BY <1>1, <2>1 DEF IInv, SentOK, Fresh, Known
<1>5. ASSUME NEW t \in Threads PROVE AddOK(t)'
  <2> SUFFICES ASSUME Adding(t) PROVE AddOK(t)'
      BY <1>1 DEF AddOK, Adding
  <2>1. AddOK(t)
      BY DEF IInv
  <2>2. CurrentHash(t)' = CurrentHash(t)
      BY <1>1 DEF CurrentHash
  <2>3. /\ began[t] \in 1..now' /\ began[t] \in 1..now
        /\ now' - began[t] <= TTL => now - began[t] <= TTL
    <3>1. began[t] \in 1..now
        BY <2>1 DEF AddOK
    <3> QED BY <1>0, <1>1, <3>1
  <2> QED BY <1>1, <2>1, <2>2, <2>3 DEF AddOK, Adding, Fresh, Known
<1>6. \A t \in Threads : MatchOK(t)' /\ IdleOK(t)'
    BY <1>1, OtherThread DEF IInv
<1> QED BY <1>2, <1>3, <1>4, <1>5, <1>6 DEF IInv

-----------------------------------------------------------------------------
\* AddPrefix is called.
LEMMA AddPrefixKeeps ==
  ASSUME IInv, NEW t \in Threads, NEW a \in Args, AddPrefix(t, a)
  PROVE  IInv'
<1>1. /\ UNCHANGED <<freeTable, lruList, now, evictNow, keysToEvict, block, readyPods,
                     prefixMatchPods, foundThen, sent, overflowed>>
      /\ op' = [op EXCEPT ![t] = "get"] /\ arg' = [arg EXCEPT ![t] = a]
      /\ pos' = [pos EXCEPT ![t] = 1] /\ began' = [began EXCEPT ![t] = now]
      /\ \A u \in Threads : op[u] = "idle"
    BY DEF AddPrefix, store, evictor, search, history
<1>2. Types'
    BY <1>1 DEF IInv, Types, TypeOK
<1>3. StoreOK' /\ SentOK'
    BY <1>1, SameStore
<1>4. /\ op'[t] = "get" /\ arg'[t] = a /\ pos'[t] = 1 /\ began'[t] = now
      /\ \A u \in Threads \ {t} : op'[u] = "idle"
    BY <1>1 DEF IInv, Types, TypeOK
<1>5. AddOK(t)'
  <2>1. /\ Len(a.prompt) \in Nat \ {0} /\ 1 \in 1..Len(a.prompt)
        /\ now \in 1..now /\ 1..(1 - 1) = {}
    <3>1. a.prompt \in Prompts /\ now \in Int /\ now >= 1
        BY DEF Args, IInv, Types, TypeOK, StoreOK
    <3>2. Len(a.prompt) \in Nat \ {0}
        BY <3>1, PrefixTableConstants
    <3> QED BY <3>1, <3>2
  <2> QED BY <1>1, <1>4, <2>1 DEF AddOK
<1>6. \A u \in Threads \ {t} : AddOK(u)'
    BY <1>4 DEF AddOK, Adding
<1>7. \A u \in Threads : MatchOK(u)' /\ IdleOK(u)'
    BY <1>1, <1>4 DEF IInv, MatchOK, IdleOK, Matching
<1> QED BY <1>2, <1>3, <1>5, <1>6, <1>7 DEF IInv

\* It looks a block up.
LEMMA AddGetKeeps ==
  ASSUME IInv, NEW t \in Threads, AddGet(t)
  PROVE  IInv'
<1> DEFINE got == IF CurrentHash(t) \in DOMAIN freeTable
                  THEN freeTable[CurrentHash(t)].pods ELSE {}
<1>1. /\ UNCHANGED <<freeTable, lruList, now, evictNow, keysToEvict, arg, pos, readyPods,
                     prefixMatchPods, began, foundThen, sent, overflowed>>
      /\ op' = [op EXCEPT ![t] = "put"] /\ block' = [block EXCEPT ![t] = got]
      /\ op[t] = "get"
    BY DEF AddGet, store, evictor, search, start, history
<1>2. got \in SUBSET (Models \X Pods)
    BY DEF IInv, Types, TypeOK, Entry
<1>3. CurrentHash(t)' = CurrentHash(t)
    BY <1>1 DEF CurrentHash
<1>4. CurrentHash(t) \in DOMAIN freeTable => freeTable[CurrentHash(t)].pods \subseteq got
    OBVIOUS
<1> HIDE DEF got
<1>5. Types'
    BY <1>1, <1>2 DEF IInv, Types, TypeOK
<1>6. StoreOK' /\ SentOK'
    BY <1>1, SameStore
<1>7. AddOK(t) /\ \A u \in Threads \ {t} : op[u] = "idle"
    BY <1>1 DEF IInv, AddOK, Adding
<1>8. /\ op'[t] = "put" /\ block'[t] = got
      /\ \A u \in Threads \ {t} : op'[u] = "idle"
    BY <1>1, <1>7 DEF IInv, Types, TypeOK
<1>9. AddOK(t)'
    BY <1>1, <1>3, <1>4, <1>7, <1>8 DEF AddOK, Adding, Fresh, Known
<1>10. \A u \in Threads \ {t} : AddOK(u)'
    BY <1>8 DEF AddOK, Adding
<1>11. \A u \in Threads : MatchOK(u)' /\ IdleOK(u)'
    BY <1>1, <1>7, <1>8 DEF IInv, MatchOK, IdleOK, Matching
<1> QED BY <1>5, <1>6, <1>9, <1>10, <1>11 DEF IInv

\* It puts the block, with the pod added to what it got: no pod that was recorded
\* is lost, because nobody else adds in between.
LEMMA AddPutKeeps ==
  ASSUME IInv, NEW t \in Threads, AddPut(t)
  PROVE  IInv'
<1>p. PICK a, h, n, since, pods :
        /\ a = arg[t] /\ h = CurrentHash(t) /\ n = pos[t] /\ since = began[t]
        /\ pods = block[t] \cup {<<arg[t].model, arg[t].pod>>}
    OBVIOUS
<1>1. /\ UNCHANGED <<now, evictNow, keysToEvict>> /\ op[t] = "put" /\ Put(h, pods)
    BY <1>p DEF AddPut, evictor
<1>2. /\ a \in Args /\ n \in 1..Len(a.prompt) /\ since \in 1..now
      /\ \A u \in Threads \ {t} : op[u] = "idle"
      /\ h \in DOMAIN freeTable => freeTable[h].pods \subseteq block[t]
      /\ ~overflowed /\ now - since <= TTL =>
           \A i \in 1..(n - 1) : Fresh(a.prompt, a.model, a.pod, i, since)
    BY <1>1, <1>p DEF IInv, AddOK, Adding
<1>3. /\ a.prompt \in Prompts /\ a.model \in Models /\ a.pod \in Pods
      /\ Len(a.prompt) \in Nat \ {0} /\ h = PrefixHash(a.prompt, n)
      /\ now \in Int /\ now \in 0..MaxTime /\ TTL \in Nat /\ MaxTime \in Nat
      /\ \A x \in DOMAIN freeTable : freeTable[x].last \in Int /\ freeTable[x].last <= now
  <2>1. a.prompt \in Prompts /\ a.model \in Models /\ a.pod \in Pods
      BY <1>2 DEF Args
  <2> QED BY <1>p, <2>1, PrefixTableConstants
          DEF CurrentHash, IInv, Types, TypeOK, Entry, StoreOK
<1>4. h \in Hashes /\ pods \in SUBSET (Models \X Pods)
  <2>1. block[t] \in SUBSET (Models \X Pods)
      BY DEF IInv, Types
  <2> QED BY <1>2, <1>3, <1>p, <2>1 DEF Hashes
<1>5. /\ StoreOK' /\ lruList' \in Seq(Hashes) /\ overflowed' \in BOOLEAN
      /\ DOMAIN freeTable' \subseteq Hashes
      /\ \A x \in DOMAIN freeTable' : freeTable'[x] \in Entry
      /\ ~overflowed' => ~overflowed /\ DOMAIN freeTable' = DOMAIN freeTable \cup {h}
      /\ \A x \in DOMAIN freeTable' :
           freeTable'[x] = IF x = h THEN [pods |-> pods, last |-> now] ELSE freeTable[x]
    BY <1>1, <1>4, PutStep DEF IInv
<1>6. ASSUME NEW q, NEW m, NEW p, NEW i, NEW at \in Int, ~overflowed',
             Fresh(q, m, p, i, at)
      PROVE  Fresh(q, m, p, i, at)'
  <2> DEFINE x == PrefixHash(q, i)
  <2>1. x \in DOMAIN freeTable /\ <<m, p>> \in freeTable[x].pods /\ freeTable[x].last >= at
      BY <1>6 DEF Fresh, Known
  <2> HIDE DEF x
  <2>2. x \in DOMAIN freeTable' /\ freeTable'[x] =
          IF x = h THEN [pods |-> pods, last |-> now] ELSE freeTable[x]
      BY <1>5, <1>6, <2>1
  <2>3. /\ x \in DOMAIN freeTable' /\ <<m, p>> \in freeTable'[x].pods
        /\ freeTable'[x].last >= at
    <3>1. CASE x # h
        BY <2>1, <2>2, <3>1
    <3>2. CASE x = h
      <4>1. freeTable'[x].pods = pods /\ freeTable'[x].last = now
          BY <2>2, <3>2
      <4>2. <<m, p>> \in pods
          BY <1>2, <1>p, <2>1, <3>2
      <4>3. now >= at
          BY <1>3, <1>6, <2>1
      <4> QED BY <2>2, <4>1, <4>2, <4>3
    <3> QED BY <3>1, <3>2
  <2> QED BY <2>3 DEF Fresh, Known, x
<1>7. ~overflowed' => Fresh(a.prompt, a.model, a.pod, n, since)'
  <2> SUFFICES ASSUME ~overflowed' PROVE Fresh(a.prompt, a.model, a.pod, n, since)'
      OBVIOUS
  <2>1. h \in DOMAIN freeTable' /\ freeTable'[h] = [pods |-> pods, last |-> now]
      BY <1>5
  <2>2. <<a.model, a.pod>> \in pods
      BY <1>p
  <2>3. now >= since
      BY <1>2, <1>3
  <2> QED BY <1>3, <2>1, <2>2, <2>3 DEF Fresh, Known
<1>8. ~overflowed' /\ now - since <= TTL =>
        \A i \in 1..n : Fresh(a.prompt, a.model, a.pod, i, since)'
  <2> SUFFICES ASSUME ~overflowed', now - since <= TTL, NEW i \in 1..n
               PROVE  Fresh(a.prompt, a.model, a.pod, i, since)'
      OBVIOUS
  <2>1. CASE i = n
      BY <1>7, <2>1
  <2>2. CASE i # n
    <3>1. i \in 1..(n - 1) /\ since \in Int
        BY <1>2, <1>3, <2>2
    <3>2. Fresh(a.prompt, a.model, a.pod, i, since)
        BY <1>2, <1>5, <3>1
    <3> QED BY <1>6, <3>1, <3>2
  <2> QED BY <2>1, <2>2
<1>9. ASSUME NEW b \in Args, NEW at, at = sent[b], at # 0
      PROVE  /\ now - at <= TTL
             /\ ~overflowed' => \A i \in 1..Len(b.prompt) :
                  Fresh(b.prompt, b.model, b.pod, i, at)'
  <2>1. /\ now - at <= TTL
        /\ ~overflowed => \A i \in 1..Len(b.prompt) :
             Fresh(b.prompt, b.model, b.pod, i, at)
      BY <1>9 DEF IInv, SentOK
  <2>2. at \in Int
      BY <1>9 DEF IInv, Types, TypeOK
  <2> QED BY <1>5, <1>6, <2>1, <2>2
<1>10. CASE n < Len(a.prompt)
  <2>1. /\ op' = [op EXCEPT ![t] = "get"] /\ pos' = [pos EXCEPT ![t] = @ + 1]
        /\ UNCHANGED <<arg, block, readyPods, prefixMatchPods, began, foundThen, sent>>
      BY <1>10, <1>p DEF AddPut, search, start
  <2>2. Types'
      BY <1>1, <1>5, <2>1 DEF IInv, Types, TypeOK
  <2>3. /\ op'[t] = "get" /\ pos'[t] = n + 1 /\ arg'[t] = a /\ began'[t] = since
        /\ \A u \in Threads \ {t} : op'[u] = "idle"
      BY <1>2, <1>p, <2>1 DEF IInv, Types, TypeOK
  <2>4. SentOK'
      BY <1>1, <1>9, <2>1 DEF SentOK, Fresh, Known
  <2>5. AddOK(t)'
    <3>1. n + 1 \in 1..Len(a.prompt) /\ (n + 1) - 1 = n
        BY <1>2, <1>3, <1>10
    <3>2. ~overflowed' /\ now' - since <= TTL =>
            \A i \in 1..(pos'[t] - 1) : Fresh(a.prompt, a.model, a.pod, i, since)'
        BY <1>1, <1>8, <2>3, <3>1
    <3> QED BY <1>1, <1>2, <2>3, <3>1, <3>2 DEF AddOK, Fresh, Known
  <2>6. \A u \in Threads \ {t} : AddOK(u)'
      BY <2>3 DEF AddOK, Adding
  <2>7. \A u \in Threads : MatchOK(u)' /\ IdleOK(u)'
      BY <1>1, <1>2, <2>1, <2>3 DEF IInv, MatchOK, IdleOK, Matching
  <2> QED BY <1>5, <2>2, <2>4, <2>5, <2>6, <2>7 DEF IInv
<1>11. CASE ~(n < Len(a.prompt))
  <2>1. /\ sent' = [sent EXCEPT ![a] = IF now - since > TTL THEN 0 ELSE since]
        /\ Return(t)
      BY <1>11, <1>p DEF AddPut
  <2>2. n = Len(a.prompt)
      BY <1>2, <1>3, <1>11
  <2>3. Types'
    <3>1. /\ sent' \in [Args -> 0..MaxTime] /\ MaxTime \in Nat /\ now' \in 0..MaxTime
        BY <1>1, <1>2, <1>3, <2>1 DEF IInv, Types, TypeOK
    <3> QED BY <1>1, <1>5, <2>1, <3>1 DEF IInv, Types, TypeOK, Return
  <2>4. \A u \in Threads : op'[u] = "idle"
      BY <1>2, <2>1 DEF IInv, Types, TypeOK, Return
  <2>5. SentOK'
    <3>1. ASSUME NEW b \in Args, NEW at, at = sent'[b], at # 0
          PROVE  /\ now' - at <= TTL
                 /\ ~overflowed' => \A i \in 1..Len(b.prompt) :
                      Fresh(b.prompt, b.model, b.pod, i, at)'
      <4>1. CASE b # a
        <5>1. at = sent[b]
            BY <2>1, <3>1, <4>1 DEF IInv, Types, TypeOK
        <5> QED BY <1>1, <1>9, <3>1, <5>1
      <4>2. CASE b = a
        <5>1. at = since /\ now - since <= TTL
            BY <1>2, <1>3, <2>1, <3>1, <4>2 DEF IInv, Types, TypeOK
        <5> QED BY <1>1, <1>8, <2>2, <4>2, <5>1
      <4> QED BY <4>1, <4>2
    <3> QED BY <3>1 DEF SentOK, Fresh, Known
  <2>6. \A u \in Threads : AddOK(u)' /\ MatchOK(u)'
      BY <2>4 DEF AddOK, Adding, MatchOK, Matching
  <2>7. \A u \in Threads : IdleOK(u)'
      BY <1>1, <1>2, <2>1 DEF IInv, IdleOK, Matching, Return, Types
  <2> QED BY <1>5, <2>3, <2>5, <2>6, <2>7 DEF IInv
<1> QED BY <1>10, <1>11

-----------------------------------------------------------------------------
\* While a thread is matching, nobody adds.
LEMMA NobodyAdds ==
  ASSUME IInv, NEW t \in Threads, Matching(t)
  PROVE  \A u \in Threads : ~Adding(u)
BY DEF IInv, AddOK, Adding, Matching

\* A match begins: every ready pod is credited with nothing yet.
LEMMA MatchPrefixKeeps ==
  ASSUME IInv, NEW t \in Threads, NEW q \in Prompts, NEW m \in Models,
         NEW ready \in SUBSET Pods, MatchPrefix(t, q, m, ready)
  PROVE  IInv'
<1>1. /\ UNCHANGED <<freeTable, lruList, now, evictNow, keysToEvict, block,
                     prefixMatchPods, began, sent, overflowed>>
      /\ op' = [op EXCEPT ![t] = "match"]
      /\ arg' = [arg EXCEPT ![t] = [prompt |-> q, model |-> m]]
      /\ pos' = [pos EXCEPT ![t] = 1] /\ readyPods' = [readyPods EXCEPT ![t] = ready]
      /\ foundThen' = [foundThen EXCEPT ![t] = [p \in ready |-> HitRatio(q, m, p)]]
      /\ op[t] = "idle" /\ \A u \in Threads : op[u] \in {"idle", "match", "matched"}
    BY DEF MatchPrefix, store, evictor, history
<1>2. Types'
    BY <1>1 DEF IInv, Types, TypeOK
<1>3. StoreOK' /\ SentOK'
    BY <1>1, SameStore
<1>4. /\ op'[t] = "match" /\ arg'[t] = [prompt |-> q, model |-> m] /\ pos'[t] = 1
      /\ readyPods'[t] = ready /\ foundThen'[t] = [p \in ready |-> HitRatio(q, m, p)]
      /\ prefixMatchPods'[t] = [p \in Pods |-> 0]
    BY <1>1 DEF IInv, Types, TypeOK, IdleOK, Matching
<1>5. \A u \in Threads \ {t} :
        /\ op'[u] = op[u] /\ arg'[u] = arg[u] /\ pos'[u] = pos[u]
        /\ readyPods'[u] = readyPods[u] /\ foundThen'[u] = foundThen[u]
    BY <1>1 DEF IInv, Types, TypeOK
<1>6. \A u \in Threads : AddOK(u)'
    BY <1>1, <1>4, <1>5 DEF AddOK, Adding
<1>7. \A u \in Threads \ {t} : MatchOK(u)' /\ IdleOK(u)'
    BY <1>1, <1>5, OtherThread DEF IInv
<1>8. Len(q) \in Nat \ {0}
    BY PrefixTableConstants
<1>9. MatchOK(t)'
  <2>1. ASSUME NEW p \in ready
        PROVE  \E k, d \in 0..Len(q) : Credit(t, p, k, d)'
    <3>1. PICK d : IsDepth(q, m, p, d) /\ HitRatio(q, m, p) = Percent(d, Len(q))
        BY DepthExists
    <3>2. d \in 0..Len(q) /\ (d = Len(q) \/ ~Known(q, m, p, d + 1)) /\ 0 <= d
        BY <1>8, <3>1 DEF IsDepth
    <3>3. Percent(0, Len(q)) = 0
        BY <1>8 DEF Percent
    <3>4. /\ arg'[t].prompt = q /\ arg'[t].model = m /\ pos'[t] - 1 = 0
          /\ prefixMatchPods'[t][p] = 0 /\ foundThen'[t][p] = Percent(d, Len(q))
        BY <1>4, <2>1, <3>1
    <3>5. Known(q, m, p, d + 1)' <=> Known(q, m, p, d + 1)
        BY <1>1 DEF Known
    <3>6. Credit(t, p, 0, d)'
        BY <1>4, <2>1, <3>2, <3>3, <3>4, <3>5 DEF Credit, Known
    <3> QED BY <1>8, <3>2, <3>6
  <2>2. DOMAIN foundThen'[t] = ready /\ arg'[t].prompt = q /\ arg'[t].model = m
      BY <1>4
  <2>3. pos'[t] \in 1..Len(q)
      BY <1>4, <1>8
  <2> QED BY <2>1, <2>2, <2>3 DEF MatchOK
<1>10. IdleOK(t)'
    BY <1>4 DEF IdleOK, Matching
<1> QED BY <1>2, <1>3, <1>6, <1>7, <1>9, <1>10 DEF IInv

\* A block is looked up: a pod that has it is credited with one more, which it had
\* at the start; one that has not is no longer ready, and that block ends it.
LEMMA MatchBlockKeeps ==
  ASSUME IInv, NEW t \in Threads, MatchBlock(t)
  PROVE  IInv'
<1>p. PICK q, m, h, n, i, hits :
        /\ q = arg[t].prompt /\ m = arg[t].model /\ h = CurrentHash(t)
        /\ n = Len(q) /\ i = pos[t]
        /\ hits = IF h \in DOMAIN freeTable
                  THEN {p \in readyPods[t] : <<m, p>> \in freeTable[h].pods} ELSE {}
    OBVIOUS
<1>1. /\ UNCHANGED <<freeTable, lruList, now, evictNow, keysToEvict, arg, block, began,
                     foundThen, sent, overflowed>>
      /\ op[t] = "match"
      /\ prefixMatchPods' = [prefixMatchPods EXCEPT ![t] =
           [p \in Pods |-> IF p \in hits THEN Percent(i, n) ELSE prefixMatchPods[t][p]]]
      /\ readyPods' = [readyPods EXCEPT ![t] = hits]
      /\ \/ (hits = {} \/ i = n) /\ op' = [op EXCEPT ![t] = "matched"] /\ pos' = pos
         \/ ~(hits = {} \/ i = n) /\ pos' = [pos EXCEPT ![t] = i + 1] /\ op' = op
    BY <1>p DEF MatchBlock, StillReady, IInv, Types, store, evictor, start, history
<1>2. /\ q \in Prompts /\ n \in Nat \ {0} /\ i \in 1..n /\ Len(q) = n
      /\ \A p \in DOMAIN foundThen[t] : p \in Pods /\ \E k, d \in 0..n : Credit(t, p, k, d)
  <2>1. MatchOK(t) /\ Matching(t)
      BY <1>1 DEF IInv, Matching
  <2> QED BY <1>p, <2>1, PrefixTableConstants DEF MatchOK
<1>3. Percent(i, n) \in Nat
  <2>1. i * 100 \in Nat
      BY <1>2
  <2> QED BY <1>2, <2>1, Quotient DEF Percent
<1>4. Types'
  <2>1. prefixMatchPods' \in [Threads -> [Pods -> Nat]]
      BY <1>1, <1>3 DEF IInv, Types
  <2>2. hits \subseteq Pods
      BY <1>p DEF IInv, Types
  <2>3. op' \in [Threads -> {"idle", "get", "put", "match", "matched"}]
      BY <1>1 DEF IInv, Types, TypeOK
  <2>4. pos' \in [Threads -> Nat]
      BY <1>1, <1>2 DEF IInv, Types
  <2>5. readyPods' \in [Threads -> SUBSET Pods]
      BY <1>1, <2>2 DEF IInv, Types
  <2> QED BY <1>1, <2>1, <2>3, <2>4, <2>5 DEF IInv, Types, TypeOK
<1>5. StoreOK' /\ SentOK'
    BY <1>1, SameStore
<1>6. \A u \in Threads \ {t} :
        /\ op'[u] = op[u] /\ arg'[u] = arg[u] /\ pos'[u] = pos[u]
        /\ readyPods'[u] = readyPods[u] /\ foundThen'[u] = foundThen[u]
        /\ prefixMatchPods'[u] = prefixMatchPods[u]
    BY <1>1 DEF IInv, Types, TypeOK
<1>7. /\ readyPods'[t] = hits /\ arg'[t] = arg[t] /\ foundThen'[t] = foundThen[t]
      /\ \A p \in Pods : prefixMatchPods'[t][p] =
           IF p \in hits THEN Percent(i, n) ELSE prefixMatchPods[t][p]
      /\ \/ (hits = {} \/ i = n) /\ op'[t] = "matched" /\ pos'[t] = i
         \/ ~(hits = {} \/ i = n) /\ op'[t] = "match" /\ pos'[t] = i + 1
    BY <1>1, <1>p DEF IInv, Types, TypeOK
<1>8. \A u \in Threads : ~Adding(u)
    BY <1>1, NobodyAdds DEF Matching
<1>9. \A u \in Threads : AddOK(u)'
  <2>1. \A u \in Threads : ~Adding(u)'
      BY <1>6, <1>7, <1>8 DEF Adding
  <2> QED BY <2>1 DEF AddOK
<1>10. \A u \in Threads \ {t} : MatchOK(u)' /\ IdleOK(u)'
    BY <1>1, <1>6, OtherThread DEF IInv
<1>11. h = PrefixHash(q, i)
    BY <1>p DEF CurrentHash
<1>12. \A p \in readyPods[t] : p \in hits <=> Known(q, m, p, i)
    BY <1>p, <1>11 DEF Known
<1>13. \A p, j : Known(q, m, p, j)' <=> Known(q, m, p, j)
    BY <1>1 DEF Known
<1>14. ASSUME NEW p \in DOMAIN foundThen[t]
       PROVE  \E k, d \in 0..n : Credit(t, p, k, d)'
  <2>1. PICK k \in 0..n, d \in 0..n : Credit(t, p, k, d)
      BY <1>2
  <2>2. /\ k <= d /\ prefixMatchPods[t][p] = Percent(k, n)
        /\ foundThen[t][p] = Percent(d, n)
        /\ d = n \/ ~Known(q, m, p, d + 1)
        /\ p \in readyPods[t] => k = i - 1
        /\ p \notin readyPods[t] => k = n \/ ~Known(q, m, p, k + 1)
      BY <1>1, <1>2, <1>p, <2>1 DEF Credit
  <2>3. p \in Pods
      BY <1>2
  <2>4. CASE p \in hits
    <3>1. p \in readyPods[t] /\ Known(q, m, p, i)
        BY <1>p, <1>12, <2>4
    <3>2. d # i - 1
      <4>1. i - 1 # n /\ (i - 1) + 1 = i
          BY <1>2
      <4> QED BY <2>2, <3>1, <4>1
    <3>3. i \in 0..n /\ i <= d /\ (i + 1) - 1 = i
        BY <1>2, <2>2, <3>1, <3>2
    <3>4. prefixMatchPods'[t][p] = Percent(i, n)
        BY <1>7, <2>3, <2>4
    <3>5. IF op'[t] = "match" THEN i = pos'[t] - 1 ELSE i = n
        BY <1>7, <2>4, <3>3
    <3>6. Credit(t, p, i, d)'
      <4>1. /\ arg'[t].prompt = q /\ arg'[t].model = m /\ p \in readyPods'[t]
            /\ foundThen'[t][p] = Percent(d, n)
            /\ d = n \/ ~Known(q, m, p, d + 1)'
          BY <1>7, <1>13, <1>p, <2>2, <2>4
      <4> QED BY <1>2, <3>3, <3>4, <3>5, <4>1 DEF Credit, Known
    <3> QED BY <3>3, <3>6
  <2>5. CASE p \notin hits
    <3>1. k = n \/ ~Known(q, m, p, k + 1)
      <4>1. CASE p \in readyPods[t]
        <5>1. ~Known(q, m, p, i) /\ k + 1 = i
            BY <1>2, <1>12, <2>2, <2>5, <4>1
        <5> QED BY <5>1
      <4> QED BY <2>2, <4>1
    <3>2. prefixMatchPods'[t][p] = Percent(k, n)
        BY <1>7, <2>2, <2>3, <2>5
    <3>3. Credit(t, p, k, d)'
      <4>1. /\ arg'[t].prompt = q /\ arg'[t].model = m /\ p \notin readyPods'[t]
            /\ foundThen'[t][p] = Percent(d, n)
            /\ d = n \/ ~Known(q, m, p, d + 1)'
            /\ k = n \/ ~Known(q, m, p, k + 1)'
          BY <1>7, <1>13, <1>p, <2>2, <2>5, <3>1
      <4> QED BY <1>2, <2>2, <3>2, <4>1 DEF Credit, Known
    <3> QED BY <3>3
  <2> QED BY <2>4, <2>5
<1>15. MatchOK(t)'
  <2>1. /\ arg'[t].prompt = q /\ arg[t].model \in Models
        /\ pos'[t] \in 1..n
    <3>1. arg[t].model \in Models
        BY <1>1 DEF IInv, MatchOK, Matching
    <3> QED BY <1>2, <1>7, <1>p, <3>1
  <2> QED BY <1>2, <1>7, <1>14, <2>1 DEF MatchOK
<1>16. IdleOK(t)'
    BY <1>7 DEF IdleOK, Matching
<1> QED BY <1>4, <1>5, <1>9, <1>10, <1>15, <1>16 DEF IInv

\* A match returns.
LEMMA MatchReturnKeeps ==
  ASSUME IInv, NEW t \in Threads, MatchReturn(t)
  PROVE  IInv'
<1>1. /\ UNCHANGED <<freeTable, lruList, now, evictNow, keysToEvict, sent, overflowed>>
      /\ op[t] = "matched" /\ Return(t)
    BY DEF MatchReturn, store, evictor, history
<1>2. Types'
  <2>1. MaxTime \in Nat
      BY PrefixTableConstants
  <2> QED BY <1>1, <2>1 DEF IInv, Types, TypeOK, Return
<1>3. StoreOK' /\ SentOK'
    BY <1>1, SameStore
<1>4. /\ op'[t] = "idle" /\ prefixMatchPods'[t] = [p \in Pods |-> 0]
      /\ \A u \in Threads \ {t} :
           /\ op'[u] = op[u] /\ arg'[u] = arg[u] /\ pos'[u] = pos[u]
           /\ readyPods'[u] = readyPods[u] /\ foundThen'[u] = foundThen[u]
           /\ prefixMatchPods'[u] = prefixMatchPods[u]
    BY <1>1 DEF IInv, Types, TypeOK, Return
<1>5. \A u \in Threads : AddOK(u)'
  <2>1. \A u \in Threads : ~Adding(u)
      BY <1>1, NobodyAdds DEF Matching
  <2>2. \A u \in Threads : ~Adding(u)'
      BY <1>4, <2>1 DEF Adding
  <2> QED BY <2>2 DEF AddOK
<1>6. \A u \in Threads \ {t} : MatchOK(u)' /\ IdleOK(u)'
    BY <1>1, <1>4, OtherThread DEF IInv
<1>7. MatchOK(t)' /\ IdleOK(t)'
    BY <1>4 DEF MatchOK, IdleOK, Matching
<1> QED BY <1>2, <1>3, <1>5, <1>6, <1>7 DEF IInv

-----------------------------------------------------------------------------
LEMMA InitIInv ==
  ASSUME Init
  PROVE  IInv
<1>1. /\ DOMAIN freeTable = {} /\ lruList = << >> /\ Len(lruList) = 0
      /\ lruList \in Seq(Hashes) /\ 1..0 = {}
    BY EmptySeq DEF Init
<1>2. Capacity \in Nat \ {0} /\ MaxTime \in Nat \ {0}
    BY PrefixTableConstants
<1>3. /\ now = 1 /\ evictNow = 0 /\ keysToEvict = {} /\ overflowed = FALSE
      /\ sent = [a \in Args |-> 0] /\ op = [t \in Threads |-> "idle"]
    BY DEF Init
<1>4. now \in 0..MaxTime /\ 0 \in 0..MaxTime
    BY <1>2, <1>3
<1>5. Types
  <2>1. TypeOK
      BY <1>1, <1>3, <1>4 DEF TypeOK
  <2> QED BY <1>4, <2>1 DEF Init, Types
<1>6. StoreOK
    BY <1>1, <1>2, <1>3 DEF StoreOK, Elements, Distinct
<1>7. SentOK
    BY <1>3 DEF SentOK
<1>8. ASSUME NEW t \in Threads PROVE AddOK(t) /\ MatchOK(t) /\ IdleOK(t)
  <2>1. op[t] = "idle" /\ prefixMatchPods[t] = [p \in Pods |-> 0]
      BY DEF Init
  <2> QED BY <2>1 DEF AddOK, MatchOK, IdleOK, Adding, Matching
<1> QED BY <1>5, <1>6, <1>7, <1>8 DEF IInv

LEMMA StutterKeeps ==
  ASSUME IInv, UNCHANGED vars
  PROVE  IInv'
<1>1. UNCHANGED <<freeTable, lruList, now, evictNow, keysToEvict, op, arg, pos, block,
                  search, start, history>>
    BY DEF vars, store, evictor
<1>2. Types' /\ StoreOK'
    BY <1>1 DEF IInv, Types, TypeOK, StoreOK, Elements, Distinct, search, start, history
<1> QED BY <1>1, <1>2, ShrinkStep

LEMMA NextKeeps ==
  ASSUME IInv, [Next]_vars
  PROVE  IInv'
<1>1. CASE Tick
    BY <1>1, TickKeeps
<1>2. CASE EvictScan
    BY <1>2, ScanKeeps
<1>3. ASSUME NEW h \in keysToEvict, EvictKey(h) PROVE IInv'
    BY <1>3, EvictKeeps
<1>4. ASSUME NEW t \in Threads, NEW a \in Args, AddPrefix(t, a) PROVE IInv'
    BY <1>4, AddPrefixKeeps
<1>5. ASSUME NEW t \in Threads, NEW q \in Prompts, NEW m \in Models,
             NEW ready \in SUBSET Pods, MatchPrefix(t, q, m, ready)
      PROVE  IInv'
    BY <1>5, MatchPrefixKeeps
<1>6. ASSUME NEW t \in Threads, AddGet(t) PROVE IInv'
    BY <1>6, AddGetKeeps
<1>7. ASSUME NEW t \in Threads, AddPut(t) PROVE IInv'
    BY <1>7, AddPutKeeps
<1>8. ASSUME NEW t \in Threads, MatchBlock(t) PROVE IInv'
    BY <1>8, MatchBlockKeeps
<1>9. ASSUME NEW t \in Threads, MatchReturn(t) PROVE IInv'
    BY <1>9, MatchReturnKeeps
<1>10. CASE UNCHANGED vars
    BY <1>10, StutterKeeps
<1> QED BY <1>1, <1>2, <1>3, <1>4, <1>5, <1>6, <1>7, <1>8, <1>9, <1>10 DEF Next

\* The store, what was recorded, and what every thread is doing stay in order through
\* every step of AddPrefix, MatchPrefix and evict, in any order.
THEOREM IInvAlways == Spec => []IInv
<1>1. Init => IInv
    BY InitIInv
<1>2. IInv /\ [Next]_vars => IInv'
    BY NextKeeps
<1> QED BY <1>1, <1>2, PTL DEF Spec

\* Table, list, clock and history keep their types.
THEOREM TypeOKAlways == Spec => []TypeOK
<1>1. IInv => TypeOK
    BY DEF IInv, Types
<1> QED BY <1>1, IInvAlways, PTL

\* A list without repetition has as many elements as positions.
LEMMA DistinctCount ==
  ASSUME NEW S, NEW s \in Seq(S), Distinct(s)
  PROVE  Cardinality(Elements(s)) = Len(s)
<1> DEFINE n == Len(s)
           f == [i \in 1..n |-> s[i]]
<1>1. n \in Nat
    BY LenProperties
<1>2. f \in Bijection(1..n, Elements(s))
  <2>1. f \in [1..n -> Elements(s)]
      BY DEF Elements
  <2>2. \A i, j \in 1..n : f[i] = f[j] => i = j
      BY DEF Distinct
  <2>3. \A x \in Elements(s) : \E i \in 1..n : f[i] = x
      BY DEF Elements
  <2> HIDE DEF f, n
  <2> QED BY <2>1, <2>2, <2>3 DEF Bijection, Injection, IsInjective, Surjection
<1>3. ExistsBijection(1..n, Elements(s))
    BY <1>2 DEF ExistsBijection
<1> HIDE DEF n, f
<1>4. IsFiniteSet(1..n) /\ Cardinality(1..n) = n
  <2>1. 1 \in Int /\ n \in Int /\ n = IF 1 > n THEN 0 ELSE n - 1 + 1
      BY <1>1
  <2> QED BY <2>1, FS_Interval
<1> QED BY <1>3, <1>4, FS_Bijection DEF n

\* The list of the LRU store and its table hold the same blocks, each once and not
\* more than the capacity, in the order of their access times: what Put removes at
\* the capacity is the block unused longest, however evict interleaves with it.
THEOREM LeastRecentlyUsedLastAlways == Spec => []LeastRecentlyUsedLast
<1>1. IInv => LeastRecentlyUsedLast
  <2> SUFFICES ASSUME IInv PROVE LeastRecentlyUsedLast
      OBVIOUS
  <2>1. lruList \in Seq(Hashes)
      BY DEF IInv, Types, TypeOK
  <2>2. Cardinality(Elements(lruList)) = Len(lruList)
      BY <2>1, DistinctCount DEF IInv, StoreOK
  <2> QED BY <2>2 DEF IInv, StoreOK, LeastRecentlyUsedLast, Elements
<1> QED BY <1>1, IInvAlways, PTL

\* What AddPrefix recorded for a pod is found in full for TTL, unless the capacity
\* was exceeded: evict looks at the access time again before it removes a block.
THEOREM RecordedIsFoundAlways == Spec => []RecordedIsFound
<1>1. IInv => RecordedIsFound
  <2> SUFFICES ASSUME IInv, ~overflowed, NEW a \in Args, sent[a] # 0
               PROVE  HitRatio(a.prompt, a.model, a.pod) = 100
      BY DEF RecordedIsFound
  <2>1. a.prompt \in Prompts
      BY DEF Args
  <2>2. \A i \in 1..Len(a.prompt) : Known(a.prompt, a.model, a.pod, i)
      BY DEF IInv, SentOK, Fresh
  <2> QED BY <2>1, <2>2, AllKnown
<1> QED BY <1>1, IInvAlways, PTL

\* A match that blocks are evicted under returns for every ready pod no more than it
\* would have found when it began and no less than it would find when it returns.
THEOREM MatchIsBracketedAlways == Spec => []MatchIsBracketed
<1>1. IInv => MatchIsBracketed
  <2> SUFFICES ASSUME IInv, NEW t \in Threads, op[t] = "matched",
                      NEW p \in DOMAIN foundThen[t]
               PROVE  /\ prefixMatchPods[t][p] <= foundThen[t][p]
                      /\ prefixMatchPods[t][p] >= HitRatio(arg[t].prompt, arg[t].model, p)
      BY DEF MatchIsBracketed
  <2>1. PICK q, m, n : q = arg[t].prompt /\ m = arg[t].model /\ n = Len(q)
      OBVIOUS
  <2>2. /\ q \in Prompts /\ n \in Nat \ {0}
        /\ \E k, d \in 0..n : Credit(t, p, k, d)
      BY <2>1, PrefixTableConstants DEF IInv, MatchOK, Matching
  <2>3. PICK k \in 0..n, d \in 0..n : Credit(t, p, k, d)
      BY <2>2
  <2>4. /\ k <= d /\ prefixMatchPods[t][p] = Percent(k, n)
        /\ foundThen[t][p] = Percent(d, n) /\ (k = n \/ ~Known(q, m, p, k + 1))
      BY <2>1, <2>3 DEF Credit
  <2>5. k \in Nat /\ d \in Nat
      BY <2>2
  <2>6. Percent(k, n) <= Percent(d, n)
      BY <2>2, <2>4, <2>5, PercentMonotonic
  <2>7. HitRatio(q, m, p) <= Percent(k, n)
      BY <2>1, <2>2, <2>4, NotBeyond
  <2>8. Percent(k, n) \in Int /\ HitRatio(q, m, p) \in Int
    <3>1. ASSUME NEW j \in 0..n PROVE Percent(j, n) \in Int
      <4>1. j * 100 \in Nat
          BY <2>2
      <4> QED BY <2>2, <4>1, Quotient DEF Percent
    <3>2. \E j \in 0..n : HitRatio(q, m, p) = Percent(j, n)
        BY <2>1, <2>2, DepthExists DEF IsDepth
    <3> QED BY <3>1, <3>2
  <2> QED BY <2>1, <2>4, <2>6, <2>7, <2>8
<1> QED BY <1>1, IInvAlways, PTL
=============================================================================
