--------------------------- MODULE ServiceProofs ----------------------------
(***************************************************************************)
(* Theorems about two parts of the routing service: its lock (RWLock), for *)
(* any finite set of threads, and its training data (TrainingData), for    *)
(* every pool size, threshold, batch size and bound.                       *)
(*                                                                         *)
(* The inductive invariant of the lock is LockInv: the counters are exact, *)
(* holders exclude one another, and no wake-up is lost.  Exclusion alone   *)
(* is not inductive, because the methods read the counters and never the   *)
(* set of holders.                                                         *)
(*                                                                         *)
(* Of the training data, SeqOrder is inductive with the types.  The others *)
(* are not:                                                                *)
(*   - TrainedByNextRound needs to know, at each step of a round, that the *)
(*     rows of earlier rounds are in the trainer's copy, then in its       *)
(*     training set, then trained (RoundInv);                              *)
(*   - StorageBounded and PoolBounded need that the frames outgrow the     *)
(*     copy only by what is flushed (BoundInv), and that the n newest rows *)
(*     are at most n, which rests on SeqOrder: rows of one sequence number *)
(*     would all be "newest" (NewestSize);                                 *)
(*   - NewDataOnly needs that a trained row that is still stored belongs   *)
(*     to a finished round, and that the rows of a batch are new to every  *)
(*     process that ran before (LearnInv).                                 *)
(***************************************************************************)
EXTENDS RWLock, TrainingData, SetSums

-----------------------------------------------------------------------------
(* RWLock. *)

Queued == In("wWait") \cup In("wWake")

LockInv == LockTypeOK /\ CountsMatch /\ Exclusion /\ NoLostWakeup

-----------------------------------------------------------------------------
\* How the size of a set of threads moves when a thread enters or leaves it.
LEMMA ThreadSets ==
  \A S \in SUBSET Threads :
    /\ Cardinality(S) \in Nat
    /\ Cardinality(S) = 0 <=> S = {}
    /\ \A t \in Threads \ S : Cardinality(S \cup {t}) = Cardinality(S) + 1
    /\ \A t \in S : Cardinality(S \ {t}) = Cardinality(S) - 1
<1> SUFFICES ASSUME NEW S \in SUBSET Threads
             PROVE  /\ Cardinality(S) \in Nat
                    /\ Cardinality(S) = 0 <=> S = {}
                    /\ \A t \in Threads \ S :
                         Cardinality(S \cup {t}) = Cardinality(S) + 1
                    /\ \A t \in S : Cardinality(S \ {t}) = Cardinality(S) - 1
    OBVIOUS
<1>1. IsFiniteSet(S)
    BY FS_Subset, ThreadsAssumption
<1> QED
    BY <1>1, FS_CardinalityType, FS_EmptySet, FS_AddElement, FS_RemoveElement

\* Notifying a writer moves at most one sleeping writer to "wWake".
LEMMA NotifyMoves ==
  ASSUME LockTypeOK, NEW q \in AfterNotifyWriter
  PROVE  /\ q \in [Threads -> PC]
         /\ \A t \in Threads :
              \/ q[t] = pc[t]
              \/ pc[t] = "wWait" /\ q[t] = "wWake"
         /\ In("wWait") # {} => \E w \in Threads : q[w] = "wWake"
BY DEF LockTypeOK, PC, AfterNotifyWriter, In

\* read_acquire keeps the invariant.
LEMMA ReadAcquireStep ==
  ASSUME LockInv, NEW t \in Threads, ReadAcquire(t)
  PROVE  LockInv'
<1> USE DEF LockInv
<1>1. CASE ReaderMustWait
  <2>1. /\ readers' = readers
        /\ pc' = [pc EXCEPT ![t] = "rWait"]
        /\ UNCHANGED <<writers, waiting_writers>>
      BY <1>1 DEF ReadAcquire
  <2>2. /\ In("reading")' = In("reading") /\ In("writing")' = In("writing")
        /\ In("wWait")' = In("wWait") /\ In("wWake")' = In("wWake")
      BY <2>1 DEF In, LockTypeOK, PC, ReadAcquire
  <2>3. LockTypeOK'
      BY <2>1 DEF LockTypeOK, PC
  <2>4. CountsMatch'
      BY <2>1, <2>2 DEF CountsMatch
  <2>5. Exclusion'
      BY <2>1 DEF Exclusion, LockTypeOK, PC, ReadAcquire
  <2>6. NoLostWakeup'
      BY <1>1, <2>1, <2>2 DEF NoLostWakeup, ReaderMustWait
  <2> QED BY <2>3, <2>4, <2>5, <2>6
<1>2. CASE ~ReaderMustWait
  <2>1. /\ readers' = readers + 1
        /\ pc' = [pc EXCEPT ![t] = "reading"]
        /\ UNCHANGED <<writers, waiting_writers>>
      BY <1>2 DEF ReadAcquire
  <2>2. /\ In("reading")' = In("reading") \cup {t}
        /\ In("writing")' = In("writing")
        /\ In("wWait")' = In("wWait") /\ In("wWake")' = In("wWake")
        /\ t \notin In("reading")
        /\ In("rWait")' \subseteq In("rWait")
      BY <2>1 DEF In, LockTypeOK, PC, ReadAcquire
  <2>3. LockTypeOK'
      BY <2>1 DEF LockTypeOK, PC
  <2>4. CountsMatch'
    <3>1. Cardinality(In("reading") \cup {t}) = Cardinality(In("reading")) + 1
        BY <2>2, ThreadSets DEF In
    <3> QED BY <3>1, <2>1, <2>2 DEF CountsMatch
  <2>5. Exclusion'
    <3>1. In("writing") = {}
      <4>1. writers = 0
          BY <1>2 DEF ReaderMustWait, LockTypeOK
      <4> QED BY <4>1, ThreadSets DEF CountsMatch, In
    <3> QED BY <3>1, <2>1 DEF Exclusion, LockTypeOK, PC, In
  <2>6. NoLostWakeup'
    <3>1. In("rWait")' = {}
        BY <1>2, <2>2 DEF NoLostWakeup, ReaderMustWait
    <3>2. readers' # 0
        BY <2>1 DEF LockTypeOK
    <3> QED BY <3>1, <3>2 DEF NoLostWakeup
  <2> QED BY <2>3, <2>4, <2>5, <2>6
<1> QED BY <1>1, <1>2

\* read_release keeps the invariant: the last reader hands over to a writer.
LEMMA ReadReleaseStep ==
  ASSUME LockInv, NEW t \in Threads, ReadRelease(t)
  PROVE  LockInv'
<1> USE DEF LockInv
<1>1. PICK q \in IF readers' = 0 THEN AfterNotifyWriter ELSE {pc} :
             pc' = [q EXCEPT ![t] = "idle"]
    BY DEF ReadRelease
<1>2. /\ q \in [Threads -> PC]
      /\ \A u \in Threads : \/ q[u] = pc[u]
                            \/ pc[u] = "wWait" /\ q[u] = "wWake"
      /\ readers' = 0 /\ In("wWait") # {} => \E w \in Threads : q[w] = "wWake"
  <2>1. CASE readers' = 0
      BY <2>1, <1>1, NotifyMoves
  <2>2. CASE readers' # 0
      BY <2>2, <1>1 DEF LockTypeOK
  <2> QED BY <2>1, <2>2
<1>3. pc[t] = "reading" /\ readers' = readers - 1
      /\ UNCHANGED <<writers, waiting_writers>>
    BY DEF ReadRelease
<1>4. q[t] = "reading"
    BY <1>2, <1>3
<1>5. /\ In("reading")' = In("reading") \ {t}
      /\ In("writing")' = In("writing")
      /\ Queued' = Queued
      /\ t \in In("reading")
      /\ In("rWait")' = In("rWait")
      /\ In("wWait")' \subseteq In("wWait")
    BY <1>1, <1>2, <1>3, <1>4 DEF In, LockTypeOK, PC, Queued
<1>6. /\ readers \in Nat \ {0}
      /\ Cardinality(In("reading") \ {t}) = readers - 1
    BY <1>5, ThreadSets DEF CountsMatch, In
<1>7. LockTypeOK'
    BY <1>1, <1>2, <1>3, <1>6 DEF LockTypeOK, PC
<1>8. CountsMatch'
    BY <1>3, <1>5, <1>6 DEF CountsMatch, Queued
<1>9. Exclusion'
    BY <1>1, <1>2, <1>3, <1>4 DEF Exclusion, LockTypeOK, PC
<1>10. NoLostWakeup'
  <2>1. In("wWait")' # {} /\ readers' = 0 => In("wWake")' # {}
      BY <1>1, <1>2, <1>4, <1>5 DEF In, PC
  <2> QED BY <2>1, <1>3, <1>5 DEF NoLostWakeup
<1> QED BY <1>7, <1>8, <1>9, <1>10

\* write_acquire, at its entry, keeps the invariant.
LEMMA WriteAcquireStep ==
  ASSUME LockInv, NEW t \in Threads, WriteAcquire(t)
  PROVE  LockInv'
<1> USE DEF LockInv
<1>1. CASE WriterMustWait
  <2>1. /\ pc[t] = "idle"
        /\ pc' = [pc EXCEPT ![t] = "wWait"]
        /\ waiting_writers' = waiting_writers + 1
        /\ UNCHANGED <<readers, writers>>
      BY <1>1 DEF WriteAcquire
  <2>2. /\ In("reading")' = In("reading") /\ In("writing")' = In("writing")
        /\ Queued' = Queued \cup {t}
        /\ t \notin Queued
      BY <2>1 DEF In, LockTypeOK, PC, Queued
  <2>3. LockTypeOK'
      BY <2>1 DEF LockTypeOK, PC
  <2>4. CountsMatch'
    <3>1. Cardinality(Queued \cup {t}) = Cardinality(Queued) + 1
        BY <2>2, ThreadSets DEF In, Queued
    <3> QED BY <3>1, <2>1, <2>2 DEF CountsMatch, Queued
  <2>5. Exclusion'
      BY <2>1 DEF Exclusion, LockTypeOK, PC
  <2>6. NoLostWakeup'
      BY <1>1, <2>1 DEF NoLostWakeup, WriterMustWait, LockTypeOK
  <2> QED BY <2>3, <2>4, <2>5, <2>6
<1>2. CASE ~WriterMustWait
  <2>1. /\ pc[t] = "idle"
        /\ pc' = [pc EXCEPT ![t] = "writing"]
        /\ writers' = 1
        /\ UNCHANGED <<readers, waiting_writers>>
      BY <1>2 DEF WriteAcquire
  <2>2. In("writing") = {} /\ In("reading") = {}
    <3>1. writers = 0 /\ readers = 0
        BY <1>2 DEF WriterMustWait, LockTypeOK
    <3> QED BY <3>1, ThreadSets DEF CountsMatch, In
  <2>3. /\ In("reading")' = In("reading")
        /\ In("writing")' = In("writing") \cup {t}
        /\ Queued' = Queued
      BY <2>1 DEF In, LockTypeOK, PC, Queued
  <2>4. LockTypeOK'
      BY <2>1 DEF LockTypeOK, PC
  <2>5. CountsMatch'
    <3>1. Cardinality(In("writing") \cup {t}) = Cardinality(In("writing")) + 1
        BY <2>2, ThreadSets DEF In
    <3>2. Cardinality(In("writing")) = 0
        BY <2>2, ThreadSets DEF In
    <3> QED BY <3>1, <3>2, <2>1, <2>3 DEF CountsMatch, Queued
  <2>6. Exclusion'
      BY <2>1, <2>2 DEF Exclusion, LockTypeOK, PC, In
  <2>7. NoLostWakeup'
      BY <2>1 DEF NoLostWakeup
  <2> QED BY <2>4, <2>5, <2>6, <2>7
<1> QED BY <1>1, <1>2

\* write_acquire, after a wake-up, keeps the invariant: a writer that goes back
\* to sleep does so while somebody holds the lock and will notify again.
LEMMA WriteRetryStep ==
  ASSUME LockInv, NEW t \in Threads, WriteRetry(t)
  PROVE  LockInv'
<1> USE DEF LockInv
<1>1. CASE WriterMustWait
  <2>1. /\ pc[t] = "wWake"
        /\ pc' = [pc EXCEPT ![t] = "wWait"]
        /\ UNCHANGED <<readers, writers, waiting_writers>>
      BY <1>1 DEF WriteRetry
  <2>2. /\ In("reading")' = In("reading") /\ In("writing")' = In("writing")
        /\ Queued' = Queued
        /\ In("rWait")' = In("rWait")
      BY <2>1 DEF In, LockTypeOK, PC, Queued
  <2>3. LockTypeOK'
      BY <2>1 DEF LockTypeOK, PC
  <2>4. CountsMatch'
      BY <2>1, <2>2 DEF CountsMatch, Queued
  <2>5. Exclusion'
      BY <2>1 DEF Exclusion, LockTypeOK, PC
  <2>6. NoLostWakeup'
      BY <1>1, <2>1, <2>2 DEF NoLostWakeup, WriterMustWait, LockTypeOK
  <2> QED BY <2>3, <2>4, <2>5, <2>6
<1>2. CASE ~WriterMustWait
  <2>1. /\ pc[t] = "wWake"
        /\ pc' = [pc EXCEPT ![t] = "writing"]
        /\ writers' = 1
        /\ waiting_writers' = waiting_writers - 1
        /\ UNCHANGED readers
      BY <1>2 DEF WriteRetry
  <2>2. In("writing") = {} /\ In("reading") = {}
    <3>1. writers = 0 /\ readers = 0
        BY <1>2 DEF WriterMustWait, LockTypeOK
    <3> QED BY <3>1, ThreadSets DEF CountsMatch, In
  <2>3. /\ In("reading")' = In("reading")
        /\ In("writing")' = In("writing") \cup {t}
        /\ Queued' = Queued \ {t}
        /\ t \in Queued
      BY <2>1 DEF In, LockTypeOK, PC, Queued
  <2>4. /\ waiting_writers \in Nat \ {0}
        /\ Cardinality(Queued \ {t}) = waiting_writers - 1
      BY <2>3, ThreadSets DEF CountsMatch, Queued, In
  <2>5. LockTypeOK'
      BY <2>1, <2>4 DEF LockTypeOK, PC
  <2>6. CountsMatch'
    <3>1. Cardinality(In("writing") \cup {t}) = Cardinality(In("writing")) + 1
        BY <2>2, ThreadSets DEF In
    <3>2. Cardinality(In("writing")) = 0
        BY <2>2, ThreadSets DEF In
    <3>3. /\ readers' = Cardinality(In("reading")')
          /\ writers' = Cardinality(In("writing")')
        BY <3>1, <3>2, <2>1, <2>3 DEF CountsMatch
    <3>4. waiting_writers' = Cardinality(Queued')
        BY <2>1, <2>3, <2>4
    <3> QED BY <3>3, <3>4 DEF CountsMatch, Queued
  <2>7. Exclusion'
      BY <2>1, <2>2 DEF Exclusion, LockTypeOK, PC, In
  <2>8. NoLostWakeup'
      BY <2>1 DEF NoLostWakeup
  <2> QED BY <2>5, <2>6, <2>7, <2>8
<1> QED BY <1>1, <1>2

\* write_release keeps the invariant: it wakes a writer and every reader.
LEMMA WriteReleaseStep ==
  ASSUME LockInv, NEW t \in Threads, WriteRelease(t)
  PROVE  LockInv'
<1> USE DEF LockInv
<1>1. PICK q \in AfterNotifyWriter :
             pc' = [AfterNotifyReaders(q) EXCEPT ![t] = "idle"]
    BY DEF WriteRelease
<1>2. /\ q \in [Threads -> PC]
      /\ \A u \in Threads : \/ q[u] = pc[u]
                            \/ pc[u] = "wWait" /\ q[u] = "wWake"
      /\ In("wWait") # {} => \E w \in Threads : q[w] = "wWake"
    BY <1>1, NotifyMoves
<1>3. pc[t] = "writing" /\ writers' = 0 /\ UNCHANGED <<readers, waiting_writers>>
    BY DEF WriteRelease
<1>4. /\ pc' \in [Threads -> PC]
      /\ pc'[t] = "idle"
      /\ \A u \in Threads \ {t} :
           pc'[u] = IF q[u] = "rWait" THEN "rWake" ELSE q[u]
    BY <1>1, <1>2 DEF AfterNotifyReaders, PC
<1>5. q[t] = "writing"
    BY <1>2, <1>3
<1>6. /\ In("reading")' = In("reading")
      /\ In("writing")' = In("writing") \ {t}
      /\ Queued' = Queued
      /\ t \in In("writing")
      /\ In("rWait")' = {}
    BY <1>2, <1>3, <1>4, <1>5 DEF In, PC, Queued, LockTypeOK
<1>7. Cardinality(In("writing") \ {t}) = writers - 1 /\ writers = 1
    BY <1>6, ThreadSets DEF CountsMatch, In, LockTypeOK
<1>8. LockTypeOK'
    BY <1>3, <1>4 DEF LockTypeOK
<1>9. CountsMatch'
  <2>1. /\ readers' = Cardinality(In("reading")')
        /\ writers' = Cardinality(In("writing")')
      BY <1>3, <1>6, <1>7 DEF CountsMatch
  <2>2. waiting_writers' = Cardinality(Queued')
      BY <1>3, <1>6 DEF CountsMatch, Queued
  <2> QED BY <2>1, <2>2 DEF CountsMatch, Queued
<1>10. Exclusion'
    BY <1>2, <1>3, <1>4 DEF Exclusion, PC, LockTypeOK
<1>11. NoLostWakeup'
  <2>1. In("wWait")' # {} => In("wWake")' # {}
    <3>1. In("wWait")' # {} => In("wWait") # {}
        BY <1>2, <1>4, <1>5 DEF In, PC
    <3>2. \A w \in Threads : q[w] = "wWake" => pc'[w] = "wWake"
        BY <1>4, <1>5
    <3> QED BY <3>1, <3>2, <1>2 DEF In
  <2> QED BY <2>1, <1>6 DEF NoLostWakeup
<1> QED BY <1>8, <1>9, <1>10, <1>11

-----------------------------------------------------------------------------
LEMMA IInvInit == LockInit => LockInv
<1> SUFFICES ASSUME LockInit PROVE LockInv
    OBVIOUS
<1>1. \A s \in PC \ {"idle"} : In(s) = {}
    BY DEF LockInit, In
<1>2. Cardinality({}) = 0
    BY FS_EmptySet
<1>3. In("wWait") \cup In("wWake") = {} /\ In("reading") = {} /\ In("writing") = {}
    BY <1>1 DEF PC
<1>4. CountsMatch
    BY <1>2, <1>3 DEF CountsMatch, LockInit
<1>5. LockTypeOK
    BY DEF LockTypeOK, PC, LockInit
<1>6. Exclusion
    BY DEF Exclusion, LockInit
<1>7. NoLostWakeup
    BY <1>1, <1>3 DEF NoLostWakeup, LockInit, PC
<1> QED BY <1>4, <1>5, <1>6, <1>7 DEF LockInv

\* Every method step keeps the invariant.
LEMMA LockInvNext == LockInv /\ [LockNext]_lockVars => LockInv'
<1> SUFFICES ASSUME LockInv, [LockNext]_lockVars PROVE LockInv'
    OBVIOUS
<1>1. ASSUME NEW t \in Threads, ReadAcquire(t) PROVE LockInv'
    BY <1>1, ReadAcquireStep
<1>2. ASSUME NEW t \in Threads, ReadRelease(t) PROVE LockInv'
    BY <1>2, ReadReleaseStep
<1>3. ASSUME NEW t \in Threads, WriteAcquire(t) PROVE LockInv'
    BY <1>3, WriteAcquireStep
<1>4. ASSUME NEW t \in Threads, WriteRetry(t) PROVE LockInv'
    BY <1>4, WriteRetryStep
<1>5. ASSUME NEW t \in Threads, WriteRelease(t) PROVE LockInv'
    BY <1>5, WriteReleaseStep
<1>6. CASE UNCHANGED lockVars
    BY <1>6 DEF LockInv, LockTypeOK, CountsMatch, Exclusion, NoLostWakeup, In, lockVars
<1> QED BY <1>1, <1>2, <1>3, <1>4, <1>5, <1>6 DEF LockNext

\* The inductive invariant holds of every behaviour of the lock.
THEOREM LockInvAlways == LockSafety => []LockInv
<1> QED BY IInvInit, LockInvNext, PTL DEF LockSafety

\* The counters of the lock stay natural numbers: no release drives one below zero.
THEOREM LockTypeOKAlways == LockSafety => []LockTypeOK
<1>1. LockInv => LockTypeOK
    BY DEF LockInv
<1> QED BY <1>1, LockInvAlways, PTL

\* The counters of the lock are exact for any number of threads.
THEOREM CountsMatchAlways == LockSafety => []CountsMatch
<1>1. LockInv => CountsMatch
    BY DEF LockInv
<1> QED BY <1>1, LockInvAlways, PTL

\* A writer is alone in the lock (rwlock.py:17), for any number of threads.
THEOREM ExclusionAlways == LockSafety => []Exclusion
<1>1. LockInv => Exclusion
    BY DEF LockInv
<1> QED BY <1>1, LockInvAlways, PTL

\* No notify is lost between read_release, write_release and the waiting loops.
THEOREM NoLostWakeupAlways == LockSafety => []NoLostWakeup
<1>1. LockInv => NoLostWakeup
    BY DEF LockInv
<1> QED BY <1>1, LockInvAlways, PTL

-----------------------------------------------------------------------------
\* What the abstract lock sees of the threads, and when the code's two while
\* conditions agree with the guards of the abstract lock.
LEMMA AbstractView ==
  ASSUME LockInv
  PROVE  /\ Abstract!In("reading") = In("reading")
         /\ Abstract!In("writing") = In("writing")
         /\ Abstract!In("askWrite") = Queued
         /\ ~ReaderMustWait => In("writing") = {} /\ Queued = {}
         /\ ~WriterMustWait => In("writing") = {} /\ In("reading") = {}
<1>1. Abstract!In("reading") = In("reading")
    BY DEF LockInv, LockTypeOK, PC, Abstract!In, In, AbstractState
<1>2. Abstract!In("writing") = In("writing")
    BY DEF LockInv, LockTypeOK, PC, Abstract!In, In, AbstractState
<1>3. Abstract!In("askWrite") = Queued
    BY DEF LockInv, LockTypeOK, PC, Abstract!In, In, AbstractState, Queued
<1>4. /\ readers = 0 => In("reading") = {}
      /\ writers = 0 => In("writing") = {}
      /\ waiting_writers = 0 => Queued = {}
    BY ThreadSets DEF LockInv, CountsMatch, Queued, In
<1>5. ~ReaderMustWait => writers = 0 /\ waiting_writers = 0
    BY DEF LockInv, LockTypeOK, ReaderMustWait
<1>6. ~WriterMustWait => writers = 0 /\ readers = 0
    BY DEF LockInv, LockTypeOK, WriterMustWait
<1> QED BY <1>1, <1>2, <1>3, <1>4, <1>5, <1>6

\* Every step of the lock is a step of the abstract lock, or leaves it alone.
LEMMA RefinementStep ==
  ASSUME LockInv, [LockNext]_lockVars
  PROVE  [Abstract!Next]_AbstractState
<1> DEFINE A == AbstractState
<1>0. /\ A \in [Threads -> Abstract!States]
      /\ pc \in [Threads -> PC]
    BY DEF LockInv, LockTypeOK, PC, AbstractState, Abstract!States
<1>1. ASSUME NEW t \in Threads, ReadAcquire(t)
      PROVE  [Abstract!Next]_AbstractState
  <2>1. CASE ReaderMustWait
    <3>1. pc' = [pc EXCEPT ![t] = "rWait"]
        BY <1>1, <2>1 DEF ReadAcquire
    <3>2. CASE pc[t] = "idle"
      <4>1. Abstract!AskRead(t)
          BY <3>1, <3>2, <1>0 DEF Abstract!AskRead, AbstractState, PC
      <4> QED BY <4>1 DEF Abstract!Next
    <3>3. CASE pc[t] = "rWake"
        BY <3>1, <3>3, <1>0 DEF AbstractState, PC
    <3> QED BY <1>1, <3>2, <3>3 DEF ReadAcquire
  <2>2. CASE ~ReaderMustWait
    <3>1. pc' = [pc EXCEPT ![t] = "reading"] /\ pc[t] \in {"idle", "rWake"}
        BY <1>1, <2>2 DEF ReadAcquire
    <3>2. /\ AbstractState[t] \in {"idle", "askRead"}
          /\ AbstractState' = [AbstractState EXCEPT ![t] = "reading"]
        BY <3>1, <1>0 DEF AbstractState, PC
    <3>3. Abstract!GrantRead(t)
        BY <3>2, <2>2, AbstractView DEF Abstract!GrantRead
    <3> QED BY <3>3 DEF Abstract!Next
  <2> QED BY <2>1, <2>2
<1>2. ASSUME NEW t \in Threads, ReadRelease(t)
      PROVE  [Abstract!Next]_AbstractState
  <2>1. PICK q \in IF readers' = 0 THEN AfterNotifyWriter ELSE {pc} :
               pc' = [q EXCEPT ![t] = "idle"]
      BY <1>2 DEF ReadRelease
  <2>2. /\ q \in [Threads -> PC]
        /\ \A u \in Threads : \/ q[u] = pc[u]
                              \/ pc[u] = "wWait" /\ q[u] = "wWake"
      BY <2>1, <1>0, NotifyMoves DEF LockInv
  <2>3. /\ AbstractState[t] = "reading"
        /\ AbstractState' = [AbstractState EXCEPT ![t] = "idle"]
      BY <1>0, <1>2, <2>1, <2>2 DEF AbstractState, PC, ReadRelease
  <2>4. Abstract!Release(t)
      BY <2>3 DEF Abstract!Release
  <2> QED BY <2>4 DEF Abstract!Next
<1>3. ASSUME NEW t \in Threads, WriteAcquire(t)
      PROVE  [Abstract!Next]_AbstractState
  <2>1. CASE WriterMustWait
    <3>1. Abstract!AskWrite(t)
        BY <1>0, <1>3, <2>1 DEF Abstract!AskWrite, AbstractState, PC, WriteAcquire
    <3> QED BY <3>1 DEF Abstract!Next
  <2>2. CASE ~WriterMustWait
    <3>1. /\ AbstractState[t] = "idle"
          /\ AbstractState' = [AbstractState EXCEPT ![t] = "writing"]
        BY <1>0, <1>3, <2>2 DEF AbstractState, PC, WriteAcquire
    <3>2. Abstract!GrantWrite(t)
        BY <3>1, <2>2, AbstractView DEF Abstract!GrantWrite
    <3> QED BY <3>2 DEF Abstract!Next
  <2> QED BY <2>1, <2>2
<1>4. ASSUME NEW t \in Threads, WriteRetry(t)
      PROVE  [Abstract!Next]_AbstractState
  <2>1. CASE WriterMustWait
      BY <1>0, <1>4, <2>1 DEF AbstractState, PC, WriteRetry
  <2>2. CASE ~WriterMustWait
    <3>1. /\ AbstractState[t] = "askWrite"
          /\ AbstractState' = [AbstractState EXCEPT ![t] = "writing"]
        BY <1>0, <1>4, <2>2 DEF AbstractState, PC, WriteRetry
    <3>2. Abstract!GrantWrite(t)
        BY <3>1, <2>2, AbstractView DEF Abstract!GrantWrite
    <3> QED BY <3>2 DEF Abstract!Next
  <2> QED BY <2>1, <2>2
<1>5. ASSUME NEW t \in Threads, WriteRelease(t)
      PROVE  [Abstract!Next]_AbstractState
  <2>1. PICK q \in AfterNotifyWriter :
               pc' = [AfterNotifyReaders(q) EXCEPT ![t] = "idle"]
      BY <1>5 DEF WriteRelease
  <2>2. /\ q \in [Threads -> PC]
        /\ \A u \in Threads : \/ q[u] = pc[u]
                              \/ pc[u] = "wWait" /\ q[u] = "wWake"
      BY <2>1, NotifyMoves DEF LockInv
  <2>3. /\ AbstractState[t] = "writing"
        /\ AbstractState' = [AbstractState EXCEPT ![t] = "idle"]
      BY <1>0, <1>5, <2>1, <2>2
      DEF AbstractState, PC, WriteRelease, AfterNotifyReaders
  <2>4. Abstract!Release(t)
      BY <2>3 DEF Abstract!Release
  <2> QED BY <2>4 DEF Abstract!Next
<1>6. CASE UNCHANGED lockVars
    BY <1>6 DEF lockVars, AbstractState
<1> QED BY <1>1, <1>2, <1>3, <1>4, <1>5, <1>6 DEF LockNext

\* RWLock implements the writer-priority lock its docstring promises, safety
\* part: the three counters and the two condition variables never admit a
\* thread the abstract lock would keep out.
THEOREM RWLockRefines == LockSafety => Abstract!Safety
<1>1. LockInit => Abstract!Init
    BY DEF LockInit, Abstract!Init, AbstractState
<1>2. LockInv /\ [LockNext]_lockVars => [Abstract!Next]_AbstractState
    BY RefinementStep
<1> QED BY <1>1, <1>2, LockInvAlways, PTL DEF LockSafety, Abstract!Safety

-----------------------------------------------------------------------------
(* TrainingData. *)

Older(S) == {r \in S : r.round < NUM_TRAINS}

\* The rows of S that the round after theirs should have seen are trained.
Caught(S) == \A r \in S : r.round + 1 < NUM_TRAINS => r \in trained

RoundInv ==
  /\ Caught(ONLINE_DF)
  /\ tpc = "select" =>
       Caught(online_df_copy) /\ Older(ONLINE_DF) \subseteq online_df_copy
  /\ tpc \in {"replay", "train", "stats"} => Older(ONLINE_DF) \subseteq training_df
  /\ tpc = "publish" => Older(ONLINE_DF) \subseteq trained

-----------------------------------------------------------------------------
\* Pools and limits are sizes.
LEMMA SettingTypes ==
  ASSUME TypeOK
  PROVE  FIFO_SIZE \in Nat /\ REPLAY_SIZE \in Nat /\ MAX_TOTAL_DATA \in Nat
BY DataConstants DEF TypeOK, SettingsType, FIFO_SIZE, REPLAY_SIZE, MAX_TOTAL_DATA

\* The settings stay what they were at the start.
LEMMA SettingsStay ==
  ASSUME [Next]_vars
  PROVE  /\ settings' = settings
         /\ FIFO_SIZE' = FIFO_SIZE /\ REPLAY_SIZE' = REPLAY_SIZE
         /\ MAX_TOTAL_DATA' = MAX_TOTAL_DATA
         /\ LegacyMode' = LegacyMode
         /\ NUM_TRAINS' = NUM_TRAINS =>
              IsTwoPool' = IsTwoPool /\ IsCLNewOnly' = IsCLNewOnly
<1>1. settings' = settings
    BY DEF Next, vars
<1>2. /\ FIFO_SIZE' = FIFO_SIZE /\ REPLAY_SIZE' = REPLAY_SIZE
      /\ MAX_TOTAL_DATA' = MAX_TOTAL_DATA
      /\ ONLINE_TRAIN_FROM_SCRATCH' = ONLINE_TRAIN_FROM_SCRATCH
    BY <1>1 DEF FIFO_SIZE, REPLAY_SIZE, MAX_TOTAL_DATA, ONLINE_TRAIN_FROM_SCRATCH
<1> QED BY <1>1, <1>2 DEF LegacyMode, IsTwoPool, IsCLNewOnly

\* The rows of a batch are rows.
LEMMA BatchRowsType ==
  ASSUME TypeOK, NEW n \in Nat, NEW k \in 0..n
  PROVE  BatchRows(k) \subseteq Row
BY DataConstants DEF BatchRows, Row, TypeOK

\* The rows of the offline CSV are rows.
LEMMA OfflineType == Offline \subseteq Row
BY DataConstants DEF Offline, OfflineRow, Row

\* The selections return rows of the sets they are given.
LEMMA Selections ==
  /\ \A S, n : Newest(S, n) \subseteq S
  /\ \A S, n : Samples(S, n) \subseteq SUBSET S
BY DEF Newest, Samples

\* The rows that fill the pool come from the replay buffer and from history.
LEMMA PoolRows ==
  ASSUME NEW fifo, NEW rep \in ReplayAndBackfill(fifo)
  PROVE  rep \subseteq REPLAY_BUFFER \cup Historical
<1> DEFINE need == FIFO_SIZE + REPLAY_SIZE - Cardinality(fifo)
           Fill(rp) == Samples(Historical \ (fifo \cup rp), need - Cardinality(rp))
<1>1. PICK U \in {{rp \cup fill : fill \in Fill(rp)} : rp \in Samples(REPLAY_BUFFER, need)} :
             rep \in U
    BY DEF ReplayAndBackfill
<1>2. PICK rp \in Samples(REPLAY_BUFFER, need) : U = {rp \cup fill : fill \in Fill(rp)}
    BY <1>1
<1>3. PICK fill \in Fill(rp) : rep = rp \cup fill
    BY <1>1, <1>2
<1>4. rp \subseteq REPLAY_BUFFER /\ fill \subseteq Historical
    BY <1>2, <1>3, Selections
<1> QED BY <1>3, <1>4

\* What TrainOn does to the training thread.
LEMMA TrainOnType ==
  ASSUME TypeOK, NEW set \in SUBSET Row, TrainOn(set)
  PROVE  /\ tpc' \in {"idle", "replay"} /\ TRAINING_RIGHT_NOW' \in BOOLEAN
         /\ offline_df_copy' \in SUBSET Row /\ online_df_copy' \in SUBSET Row
         /\ training_df' \in SUBSET Row
         /\ online_df_copy' \in {online_df_copy, {}}
         /\ training_df' \subseteq set \/ training_df' = {}
         /\ tpc' = "replay" => training_df' = set
BY DEF TrainOn, Return, TypeOK

\* What the choice of the training set does, in every mode: the frames keep rows
\* of their own or of the copies.
LEMMA SelectType ==
  ASSUME TypeOK, TrainSelect
  PROVE  /\ tpc' \in {"idle", "replay"} /\ TRAINING_RIGHT_NOW' \in BOOLEAN
         /\ offline_df_copy' \in SUBSET Row /\ training_df' \in SUBSET Row
         /\ online_df_copy' \in {online_df_copy, {}}
         /\ OFFLINE_DF' \subseteq OFFLINE_DF \cup offline_df_copy
         /\ ONLINE_DF' = ONLINE_DF \/ ONLINE_DF' \subseteq online_df_copy
         /\ training_df' \subseteq offline_df_copy \cup online_df_copy \cup REPLAY_BUFFER
<1>0. /\ offline_df_copy \subseteq Row /\ online_df_copy \subseteq Row
      /\ NewBatch \subseteq online_df_copy /\ REPLAY_BUFFER \subseteq Row
      /\ Historical \subseteq offline_df_copy \cup online_df_copy
    BY DEF TypeOK, NewBatch, Historical
<1>1. CASE IsCLNewOnly /\ SelectNew
  <2>1. TrainOn(NewBatch) /\ OFFLINE_DF' = OFFLINE_DF /\ ONLINE_DF' = ONLINE_DF
      BY <1>1 DEF SelectNew
  <2>2. NewBatch \in SUBSET Row
      BY <1>0
  <2> QED BY <1>0, <2>1, <2>2, TrainOnType
<1>2. CASE IsTwoPool /\ SelectTwoPool
  <2> DEFINE fifo == Newest(Historical, FIFO_SIZE)
  <2>1. PICK rep \in ReplayAndBackfill(fifo) : TrainOn(NewBatch \cup fifo \cup rep)
      BY <1>2 DEF SelectTwoPool
  <2>2. /\ NewBatch \cup fifo \cup rep
             \subseteq offline_df_copy \cup online_df_copy \cup REPLAY_BUFFER
        /\ NewBatch \cup fifo \cup rep \in SUBSET Row
      BY <1>0, <2>1, PoolRows, Selections
  <2>3. Evict(FIFO_SIZE + REPLAY_SIZE)
      BY <1>2 DEF SelectTwoPool
  <2>4. /\ OFFLINE_DF' \subseteq OFFLINE_DF \cup offline_df_copy
        /\ ONLINE_DF' = ONLINE_DF \/ ONLINE_DF' \subseteq online_df_copy
      BY <2>3 DEF Evict
  <2> HIDE DEF fifo
  <2> QED BY <2>1, <2>2, <2>4, TrainOnType
<1>3. CASE IsLegacy /\ SelectLegacy
  <2> DEFINE over == Cardinality(offline_df_copy) + Cardinality(online_df_copy)
                       - MAX_TOTAL_DATA
             off == Newest(offline_df_copy, Cardinality(offline_df_copy) - over)
             kept == Samples(online_df_copy, MAX_TOTAL_DATA - Cardinality(off))
  <2>1. CASE /\ TrainOn(offline_df_copy \cup online_df_copy)
             /\ UNCHANGED <<OFFLINE_DF, ONLINE_DF>>
    <3>1. offline_df_copy \cup online_df_copy \in SUBSET Row
        BY <1>0
    <3> QED BY <2>1, <3>1, TrainOnType
  <2>2. CASE \E on \in kept :
               OFFLINE_DF' = off /\ ONLINE_DF' = on /\ TrainOn(off \cup on)
    <3>1. PICK on \in kept :
               OFFLINE_DF' = off /\ ONLINE_DF' = on /\ TrainOn(off \cup on)
        BY <2>2
    <3>2. off \subseteq offline_df_copy /\ on \subseteq online_df_copy
        BY <3>1, Selections
    <3>3. off \cup on \in SUBSET Row
        BY <1>0, <3>2
    <3> HIDE DEF off
    <3> QED BY <3>1, <3>2, <3>3, TrainOnType
  <2> QED BY <1>3, <2>1, <2>2 DEF SelectLegacy
<1> QED BY <1>1, <1>2, <1>3 DEF TrainSelect

-----------------------------------------------------------------------------
LEMMA TypeInit == Init => TypeOK
<1> SUFFICES ASSUME Init PROVE TypeOK
    OBVIOUS
<1>1. TRAINING_RIGHT_NOW \in BOOLEAN
    BY DEF Init, Initialize
<1>2. OFFLINE_DF \in SUBSET Row /\ OfflineRows \in Nat
    BY OfflineType, DataConstants DEF Init, Initialize
<1> QED BY <1>1, <1>2 DEF Init, Initialize, TypeOK

\* Every step of the handler, of the trainer and of a restart keeps the types.
LEMMA TypeNext == TypeOK /\ [Next]_vars => TypeOK'
<1> SUFFICES ASSUME TypeOK, [Next]_vars PROVE TypeOK'
    OBVIOUS
<1>0. settings' = settings
    BY SettingsStay
<1> USE <1>0 DEF store, replay, counters, round, trainer, flush, history
<1>1. ASSUME NEW n \in BatchSizes, NEW k \in 0..n, FlushAppend(n, k)
      PROVE  TypeOK'
  <2>1. n \in Nat /\ k \in Nat
      BY DataConstants
  <2>2. BatchRows(k) \subseteq Row
      BY <2>1, BatchRowsType
  <2> QED BY <1>1, <2>1, <2>2 DEF FlushAppend, TypeOK
<1>2. CASE FlushLoad
    BY <1>2 DEF FlushLoad, TypeOK
<1>3. CASE FlushStore
    BY <1>3 DEF FlushStore, TypeOK
<1>4. CASE TrainStart
    BY <1>4 DEF TrainStart, TypeOK
<1>5. CASE TrainCopy
  <2>1. TRAINING_RIGHT_NOW' \in BOOLEAN
      BY <1>5 DEF TrainCopy, TypeOK
  <2>2. /\ offline_df_copy' \in SUBSET Row /\ online_df_copy' \in SUBSET Row
        /\ training_df' \in SUBSET Row
        /\ tpc' \in {"idle", "select"} /\ sinceCopy' \in Nat
      BY <1>5 DEF TrainCopy, Return, TypeOK
  <2>3. UNCHANGED <<store, replay, counters, NUM_TRAINS, flush, received,
                    trained, restarts>>
      BY <1>5 DEF TrainCopy
  <2> QED BY <2>1, <2>2, <2>3 DEF TypeOK
<1>6. CASE TrainSelect
  <2>1. UNCHANGED <<ONLINE_SEQ, replay, counters, NUM_TRAINS, flush, history>>
      BY <1>6 DEF TrainSelect
  <2> QED BY <1>6, <2>1, SelectType DEF TypeOK
<1>7. CASE TrainReplay
    BY <1>7, Selections DEF TrainReplay, TypeOK
<1>8. CASE TrainModel
    BY <1>8 DEF TrainModel, Return, TypeOK
<1>8a. CASE TrainStats
    BY <1>8a DEF TrainStats, TypeOK
<1>9. CASE TrainPublish
  <2>1. TRAINING_RIGHT_NOW' \in BOOLEAN
      BY <1>9 DEF TrainPublish
  <2>2. NUM_TRAINS' \in Nat /\ tpc' = "reset"
      BY <1>9 DEF TrainPublish, TypeOK
  <2>3. UNCHANGED <<store, replay, counters, offline_df_copy, online_df_copy,
                    training_df, flush, received, sinceCopy, trained, restarts>>
      BY <1>9 DEF TrainPublish
  <2> QED BY <2>1, <2>2, <2>3 DEF TypeOK
<1>10. CASE TrainReset
    BY <1>10 DEF TrainReset, Return, TypeOK
<1>11. CASE TrainFail
    BY <1>11 DEF TrainFail, Return, TypeOK
<1>12. CASE Restart
  <2>1. TRAINING_RIGHT_NOW' \in BOOLEAN
      BY <1>12 DEF Restart
  <2>2. OFFLINE_DF' \in SUBSET Row /\ TOTAL_NUM_NEW_DATA' \in Nat
      BY <1>12, OfflineType, DataConstants DEF Restart
  <2>3. restarts' \in Nat
      BY <1>12 DEF Restart, TypeOK
  <2>4. REPLAY_BUFFER' \in SUBSET Row
      BY <1>12 DEF Restart, TypeOK
  <2>5. /\ ONLINE_DF' = {} /\ ONLINE_SEQ' = 0 /\ NUM_NEW_DATA' = 0 /\ NUM_TRAINS' = 0
        /\ tpc' = "idle" /\ offline_df_copy' = {} /\ online_df_copy' = {}
        /\ training_df' = {} /\ fpc' = "idle" /\ len_log' = 0 /\ reg' = 0
        /\ sinceCopy' = 0 /\ UNCHANGED <<received, trained, replay_file>>
      BY <1>12 DEF Restart
  <2> QED BY <2>1, <2>2, <2>3, <2>4, <2>5 DEF TypeOK
<1>13. CASE UNCHANGED vars
    BY <1>13 DEF vars, TypeOK
<1> QED
    BY <1>1, <1>2, <1>3, <1>4, <1>5, <1>6, <1>7, <1>8, <1>8a, <1>9, <1>10, <1>11,
       <1>12, <1>13
    DEF Next, FlushStep, TrainStep

\* The variables keep their types.
THEOREM TypeAlways == Safety => []TypeOK
BY TypeInit, TypeNext, PTL DEF Safety

-----------------------------------------------------------------------------
\* A subset of an ordered set is ordered, and stays so as rounds and sequence
\* numbers advance.
LEMMA OrderedLater ==
  ASSUME NEW seq \in Nat, NEW num \in Nat, NEW S \in SUBSET Row,
         Ordered(S, seq, num), NEW T \in SUBSET S,
         NEW seq2 \in Nat, NEW num2 \in Nat, seq2 >= seq, num2 >= num
  PROVE  Ordered(T, seq2, num2)
BY DEF Ordered, Row

\* A batch goes on where the stored rows end.
LEMMA OrderedAppend ==
  ASSUME TypeOK, NEW n \in Nat, NEW k \in 0..n,
         Ordered(ONLINE_DF, ONLINE_SEQ, NUM_TRAINS)
  PROVE  Ordered(ONLINE_DF \cup BatchRows(k), ONLINE_SEQ + k, NUM_TRAINS)
<1> DEFINE B == BatchRows(k)
<1>1. \A r \in ONLINE_DF : r.seq \in Int /\ r.round \in Int
    BY DEF TypeOK, Row
<1>2. \A r \in B : /\ r.seq \in ONLINE_SEQ..((ONLINE_SEQ + k) - 1)
                   /\ r.round = NUM_TRAINS
    BY DEF TypeOK, BatchRows
<1>3. \A r, q \in B : r.seq = q.seq => r = q
    BY DEF TypeOK, BatchRows
<1>4. \A r \in ONLINE_DF, q \in B : r.seq < q.seq /\ r.round <= q.round
    BY <1>1, <1>2 DEF Ordered, TypeOK
<1>5. \A r \in ONLINE_DF \cup B :
        r.seq \in 0..((ONLINE_SEQ + k) - 1) /\ r.round \in 0..NUM_TRAINS
    BY <1>1, <1>2 DEF Ordered, TypeOK
<1>6. \A r, q \in ONLINE_DF \cup B : /\ r.seq = q.seq => r = q
                                     /\ r.seq < q.seq => r.round <= q.round
  <2> HIDE DEF B
  <2>0. NUM_TRAINS \in Int /\ ONLINE_SEQ \in Int
      BY DEF TypeOK
  <2>1. ASSUME NEW r \in ONLINE_DF, NEW q \in ONLINE_DF
        PROVE  (r.seq = q.seq => r = q) /\ (r.seq < q.seq => r.round <= q.round)
      BY DEF Ordered
  <2>2. ASSUME NEW r \in ONLINE_DF, NEW q \in B
        PROVE  (r.seq = q.seq => r = q) /\ (r.seq < q.seq => r.round <= q.round)
      BY <1>1, <1>2, <1>4
  <2>3. ASSUME NEW r \in B, NEW q \in ONLINE_DF
        PROVE  (r.seq = q.seq => r = q) /\ (r.seq < q.seq => r.round <= q.round)
    <3>1. q.seq < r.seq /\ q.seq \in Int /\ r.seq \in Int
        BY <1>1, <1>2, <1>4, <2>0
    <3> QED BY <3>1
  <2>4. ASSUME NEW r \in B, NEW q \in B
        PROVE  (r.seq = q.seq => r = q) /\ (r.seq < q.seq => r.round <= q.round)
      BY <1>2, <1>3, <2>0
  <2> QED BY <2>1, <2>2, <2>3, <2>4
<1> QED BY <1>5, <1>6 DEF Ordered

\* Every step keeps the rows ordered.
LEMMA SeqOrderNext ==
  ASSUME TypeOK, TypeOK', SeqOrder, [Next]_vars
  PROVE  SeqOrder'
<1> USE DEF store, replay, counters, round, trainer, flush, history
<1>0. /\ ONLINE_SEQ \in Nat /\ NUM_TRAINS \in Nat
      /\ ONLINE_SEQ' \in Nat /\ NUM_TRAINS' \in Nat
      /\ ONLINE_DF \in SUBSET Row /\ online_df_copy \in SUBSET Row
    BY DEF TypeOK
\* The frames shrink or are overwritten by the copy, and nothing goes back.
<1>1. ASSUME ONLINE_SEQ' >= ONLINE_SEQ, NUM_TRAINS' >= NUM_TRAINS,
             \/ ONLINE_DF' \subseteq ONLINE_DF
             \/ ONLINE_DF' \subseteq online_df_copy,
             \/ online_df_copy' \subseteq ONLINE_DF
             \/ online_df_copy' \subseteq online_df_copy
      PROVE  SeqOrder'
  <2>1. Ordered(ONLINE_DF', ONLINE_SEQ', NUM_TRAINS')
      BY <1>0, <1>1, OrderedLater DEF SeqOrder
  <2>2. Ordered(online_df_copy', ONLINE_SEQ', NUM_TRAINS')
      BY <1>0, <1>1, OrderedLater DEF SeqOrder
  <2> QED BY <2>1, <2>2 DEF SeqOrder
<1>2. ASSUME NEW n \in BatchSizes, NEW k \in 0..n, FlushAppend(n, k)
      PROVE  SeqOrder'
  <2>1. n \in Nat /\ k \in Nat
      BY DataConstants
  <2>2. /\ ONLINE_DF' = ONLINE_DF \cup BatchRows(k)
        /\ ONLINE_SEQ' = ONLINE_SEQ + k
        /\ NUM_TRAINS' = NUM_TRAINS /\ online_df_copy' = online_df_copy
      BY <1>2 DEF FlushAppend
  <2>3. Ordered(ONLINE_DF', ONLINE_SEQ', NUM_TRAINS')
      BY <2>1, <2>2, OrderedAppend DEF SeqOrder
  <2>4. ONLINE_SEQ' >= ONLINE_SEQ /\ NUM_TRAINS' >= NUM_TRAINS
      BY <1>0, <2>1, <2>2
  <2>5. Ordered(online_df_copy', ONLINE_SEQ', NUM_TRAINS')
      BY <1>0, <2>2, <2>4, OrderedLater DEF SeqOrder
  <2> QED BY <2>3, <2>5 DEF SeqOrder
<1>3. CASE FlushLoad \/ FlushStore \/ TrainStart \/ TrainReplay
    BY <1>0, <1>1, <1>3 DEF FlushLoad, FlushStore, TrainStart, TrainReplay
<1>4. CASE TrainCopy
    BY <1>0, <1>1, <1>4 DEF TrainCopy, Return
<1>5. CASE TrainSelect
  <2>1. ONLINE_SEQ' = ONLINE_SEQ /\ NUM_TRAINS' = NUM_TRAINS
      BY <1>5 DEF TrainSelect
  <2> QED BY <1>0, <1>1, <1>5, <2>1, SelectType
<1>6. CASE TrainModel \/ TrainStats
    BY <1>0, <1>1, <1>6 DEF TrainModel, TrainStats, Return
<1>7. CASE TrainPublish
    BY <1>0, <1>1, <1>7 DEF TrainPublish
<1>8. CASE TrainReset
    BY <1>0, <1>1, <1>8 DEF TrainReset, Return
<1>9. CASE TrainFail
    BY <1>0, <1>1, <1>9 DEF TrainFail, Return
<1>10. CASE Restart
    BY <1>10 DEF Restart, SeqOrder, Ordered
<1>11. CASE UNCHANGED vars
    BY <1>0, <1>1, <1>11 DEF vars
<1> QED
    BY <1>2, <1>3, <1>4, <1>5, <1>6, <1>7, <1>8, <1>9, <1>10, <1>11
    DEF Next, FlushStep, TrainStep

\* For every configuration: however flushes, rounds, evictions from stale
\* copies and restarts interleave, sequence numbers stay unique and agree with
\* the collection rounds.
THEOREM SeqOrderAlways == Safety => []SeqOrder
<1>1. Init => SeqOrder
    BY DEF Init, Initialize, SeqOrder, Ordered
<1>2. TypeOK /\ TypeOK' /\ SeqOrder /\ [Next]_vars => SeqOrder'
    BY SeqOrderNext
<1> QED BY <1>1, <1>2, TypeAlways, PTL DEF Safety

-----------------------------------------------------------------------------
\* Without pools the training set covers the rows of earlier rounds that stay.
LEMMA LegacySelect ==
  ASSUME LegacyMode, TypeOK, RoundInv, TrainSelect
  PROVE  /\ ONLINE_DF' = ONLINE_DF \/ ONLINE_DF' \subseteq online_df_copy
         /\ tpc' = "replay" => Older(ONLINE_DF') \subseteq training_df'
         /\ tpc' \in {"idle", "replay"}
         /\ NUM_TRAINS' = NUM_TRAINS /\ trained' = trained
<1>1. /\ tpc = "select" /\ SelectLegacy
      /\ NUM_TRAINS' = NUM_TRAINS /\ trained' = trained
    BY DEF TrainSelect, LegacyMode, IsCLNewOnly, IsTwoPool, history
<1>2. Older(ONLINE_DF) \subseteq online_df_copy
    BY <1>1 DEF RoundInv
<1>3. ASSUME NEW set, TrainOn(set)
      PROVE  tpc' \in {"idle", "replay"} /\ (tpc' = "replay" => training_df' = set)
    BY <1>3 DEF TrainOn, Return
<1> DEFINE over == Cardinality(offline_df_copy) + Cardinality(online_df_copy)
                     - MAX_TOTAL_DATA
           off == Newest(offline_df_copy, Cardinality(offline_df_copy) - over)
           kept == Samples(online_df_copy, MAX_TOTAL_DATA - Cardinality(off))
<1>4. CASE /\ TrainOn(offline_df_copy \cup online_df_copy)
           /\ UNCHANGED <<OFFLINE_DF, ONLINE_DF>>
    BY <1>1, <1>2, <1>3, <1>4
<1>5. CASE \E on \in kept :
             OFFLINE_DF' = off /\ ONLINE_DF' = on /\ TrainOn(off \cup on)
  <2>1. PICK on \in kept :
             OFFLINE_DF' = off /\ ONLINE_DF' = on /\ TrainOn(off \cup on)
      BY <1>5
  <2>2. on \subseteq online_df_copy
      BY <2>1, Selections
  <2>3. Older(on) \subseteq on
      BY DEF Older
  <2> HIDE DEF off, kept
  <2> QED BY <1>1, <1>3, <2>1, <2>2, <2>3
<1> QED BY <1>1, <1>4, <1>5 DEF SelectLegacy

\* Every step keeps RoundInv when there are no pools.
LEMMA RoundInvNext ==
  ASSUME LegacyMode, TypeOK, RoundInv, [Next]_vars
  PROVE  RoundInv'
<1> USE DEF store, replay, counters, round, trainer, flush, history
<1>0. /\ NUM_TRAINS \in Nat
      /\ \A r \in ONLINE_DF \cup online_df_copy : r.round \in Int
    BY DEF TypeOK, Row
<1>1. ASSUME NEW n \in BatchSizes, NEW k \in 0..n, FlushAppend(n, k)
      PROVE  RoundInv'
  <2>1. /\ ONLINE_DF' = ONLINE_DF \cup BatchRows(k)
        /\ UNCHANGED <<NUM_TRAINS, trained, tpc, online_df_copy, training_df>>
      BY <1>1 DEF FlushAppend
  <2>2. \A r \in BatchRows(k) : r.round = NUM_TRAINS
      BY DEF BatchRows
  <2>3. Older(ONLINE_DF') = Older(ONLINE_DF)
      BY <1>0, <2>1, <2>2 DEF Older
  <2>4. Caught(ONLINE_DF)'
      BY <1>0, <2>1, <2>2 DEF RoundInv, Caught
  <2> QED BY <2>1, <2>3, <2>4 DEF RoundInv, Caught, Older
<1>2. CASE FlushLoad \/ FlushStore
    BY <1>2 DEF FlushLoad, FlushStore, RoundInv, Caught, Older
<1>3. CASE TrainStart
    BY <1>3 DEF TrainStart, RoundInv, Caught, Older
<1>4. CASE TrainCopy
    BY <1>4 DEF TrainCopy, Return, RoundInv, Caught, Older
<1>5. CASE TrainSelect
  <2>1. tpc = "select" /\ Caught(ONLINE_DF) /\ Caught(online_df_copy)
      BY <1>5 DEF TrainSelect, RoundInv
  <2>2. Caught(ONLINE_DF)'
      BY <1>5, <2>1, LegacySelect DEF Caught
  <2> QED BY <1>5, <2>2, LegacySelect DEF RoundInv, Older
<1>6. CASE TrainReplay
    BY <1>6 DEF TrainReplay, RoundInv, Caught, Older
<1>7. CASE TrainModel
    BY <1>7 DEF TrainModel, Return, RoundInv, Caught, Older
<1>7a. CASE TrainStats
    BY <1>7a DEF TrainStats, RoundInv, Caught, Older
<1>8. CASE TrainPublish
  <2>1. /\ tpc' = "reset" /\ NUM_TRAINS' = NUM_TRAINS + 1
        /\ UNCHANGED <<ONLINE_DF, trained>> /\ Older(ONLINE_DF) \subseteq trained
      BY <1>8 DEF TrainPublish, RoundInv
  <2>2. Caught(ONLINE_DF)'
      BY <1>0, <2>1 DEF Caught, Older
  <2> QED BY <2>1, <2>2 DEF RoundInv
<1>9. CASE TrainReset
    BY <1>9 DEF TrainReset, Return, RoundInv, Caught, Older
<1>10. CASE TrainFail
    BY <1>10 DEF TrainFail, Return, RoundInv, Caught, Older
<1>11. CASE Restart
    BY <1>11 DEF Restart, RoundInv, Caught, Older
<1>12. CASE UNCHANGED vars
    BY <1>12 DEF vars, RoundInv, Caught, Older
<1> QED
    BY <1>1, <1>2, <1>3, <1>4, <1>5, <1>6, <1>7, <1>7a, <1>8, <1>9, <1>10,
       <1>11, <1>12
    DEF Next, FlushStep, TrainStep

\* With neither pool nor continual learning, no stored sample is passed over:
\* one that arrives while a round runs is trained on by the next round.
THEOREM TrainedByNextRoundAlways == Safety => []TrainedByNextRound
<1> DEFINE Inv == LegacyMode => RoundInv
<1>1. Init => Inv
    BY DEF Init, Initialize, RoundInv, Caught
<1>2. TypeOK /\ Inv /\ [Next]_vars => Inv'
    BY RoundInvNext, SettingsStay
<1>3. Inv => TrainedByNextRound
    BY DEF RoundInv, Caught, TrainedByNextRound
<1> HIDE DEF Inv
<1> QED BY <1>1, <1>2, <1>3, TypeAlways, PTL DEF Safety

-----------------------------------------------------------------------------
\* What the frames may hold when a round has chosen its rows.
Limit == IF IsTwoPool THEN FIFO_SIZE + REPLAY_SIZE ELSE MAX_TOTAL_DATA

\* All sets of rows are finite, and the offline frame only loses rows.
Finite ==
  /\ OFFLINE_DF \subseteq Offline /\ offline_df_copy \subseteq Offline
  /\ IsFiniteSet(ONLINE_DF) /\ IsFiniteSet(online_df_copy)
  /\ IsFiniteSet(training_df)
  /\ IsFiniteSet(REPLAY_BUFFER) /\ IsFiniteSet(replay_file)

\* Between the copy and the choice the frames only gain what is flushed.
CopyIsClose ==
  tpc = "select" =>
    /\ OFFLINE_DF = offline_df_copy
    /\ Cardinality(ONLINE_DF) <= Cardinality(online_df_copy) + sinceCopy

BoundInv == Finite /\ CopyIsClose /\ StorageBounded /\ PoolBounded

\* A finite set of rows that is not empty has an oldest row.
LEMMA OldestRow ==
  ASSUME NEW S \in SUBSET Row, IsFiniteSet(S), S # {}
  PROVE  \E r \in S : \A q \in S : r.seq <= q.seq
<1> DEFINE F == {T \in SUBSET S : T # {} => \E r \in T : \A q \in T : r.seq <= q.seq}
<1>0. \A r \in S : r.seq \in Int
    BY DEF Row
<1>1. ASSUME NEW T \in SUBSET S, \A U \in SUBSET T : U # T => U \in F
      PROVE  T \in F
  <2>1. SUFFICES ASSUME NEW x \in T
                 PROVE  \E r \in T : \A q \in T : r.seq <= q.seq
      OBVIOUS
  <2>2. T \ {x} \in F
      BY <1>1
  <2>3. CASE T \ {x} = {}
    <3>1. \A q \in T : x.seq <= q.seq
        BY <1>0, <2>3
    <3> QED BY <3>1
  <2>4. CASE T \ {x} # {}
    <3>1. PICK r \in T \ {x} : \A q \in T \ {x} : r.seq <= q.seq
        BY <2>2, <2>4
    <3>2. CASE r.seq <= x.seq
      <4>1. \A q \in T : r.seq <= q.seq
          BY <3>1, <3>2
      <4> QED BY <4>1
    <3>3. CASE ~(r.seq <= x.seq)
      <4>1. \A q \in T : x.seq <= q.seq
          BY <1>0, <3>1, <3>3
      <4> QED BY <4>1
    <3> QED BY <3>2, <3>3
  <2> QED BY <2>3, <2>4
<1>2. \A T \in SUBSET S : T \in F
  <2> HIDE DEF F
  <2> QED BY <1>1, SubsetInduction
<1> QED BY <1>2

\* The n newest of rows with distinct sequence numbers are at most n.
LEMMA NewestSize ==
  ASSUME NEW S \in SUBSET Row, IsFiniteSet(S), NEW n \in Int,
         \A r, q \in S : r.seq = q.seq => r = q
  PROVE  /\ IsFiniteSet(Newest(S, n))
         /\ Newest(S, n) = {} \/ Cardinality(Newest(S, n)) <= n
<1> DEFINE N == Newest(S, n)
<1>1. N \subseteq S /\ IsFiniteSet(N)
    BY Selections, FS_Subset
<1>2. ASSUME N # {}
      PROVE  Cardinality(N) <= n
  <2>1. PICK r \in N : \A q \in N : r.seq <= q.seq
    <3> HIDE DEF N
    <3> QED BY <1>1, <1>2, OldestRow
  <2> DEFINE Later == {q \in S : q.seq > r.seq}
  <2>2. Cardinality(Later) < n
      BY <2>1 DEF Newest
  <2>3. N \ {r} \subseteq Later
    <3> SUFFICES ASSUME NEW q \in N \ {r} PROVE q.seq > r.seq
        BY <1>1
    <3>1. q.seq \in Int /\ r.seq \in Int
        BY <1>1, <2>1 DEF Row
    <3>2. r.seq <= q.seq /\ r.seq # q.seq
        BY <1>1, <2>1
    <3> QED BY <3>1, <3>2
  <2> HIDE DEF N
  <2>4. IsFiniteSet(Later)
      BY FS_Subset
  <2> HIDE DEF Later
  <2>5. /\ Cardinality(N \ {r}) = Cardinality(N) - 1
        /\ Cardinality(N \ {r}) <= Cardinality(Later)
      BY <1>1, <2>1, <2>3, <2>4, FS_RemoveElement, FS_Subset
  <2>6. Cardinality(N) \in Nat /\ Cardinality(Later) \in Nat
      BY <1>1, <2>4, FS_CardinalityType
  <2> QED BY <2>2, <2>5, <2>6
<1> QED BY <1>1, <1>2

\* A sample of n rows has at most n rows.
LEMMA SampleSize ==
  ASSUME NEW S, IsFiniteSet(S), NEW n \in Nat, NEW T \in Samples(S, n)
  PROVE  /\ IsFiniteSet(T) /\ Cardinality(T) \in Nat
         /\ Cardinality(T) <= n /\ Cardinality(T) <= Cardinality(S)
<1>1. T \subseteq S
    BY DEF Samples
<1>2. IsFiniteSet(T) /\ Cardinality(T) \in Nat /\ Cardinality(S) \in Nat
    BY <1>1, FS_Subset, FS_CardinalityType
<1>3. Cardinality(T) = IF Cardinality(S) < n THEN Cardinality(S) ELSE n
    BY DEF Samples
<1> QED BY <1>2, <1>3

\* A batch that keeps k samples adds at most k rows.
LEMMA BatchSize ==
  ASSUME NEW k \in Nat
  PROVE  IsFiniteSet(BatchRows(k)) /\ Cardinality(BatchRows(k)) <= k
<1> DEFINE f == [i \in 1..k |-> [id |-> OfflineRows + received + i,
                                seq |-> ONLINE_SEQ + i - 1, round |-> NUM_TRAINS]]
<1>1. f \in Surjection(1..k, BatchRows(k))
    BY DEF Surjection, BatchRows
<1>2. IsFiniteSet(1..k) /\ Cardinality(1..k) = k
    BY FS_Interval
<1> QED BY <1>1, <1>2, FS_Surjection

\* The offline rows are finitely many.
LEMMA OfflineFinite == IsFiniteSet(Offline)
<1> DEFINE f == [i \in 1..OfflineRows |-> OfflineRow(i)]
<1>1. f \in Surjection(1..OfflineRows, Offline)
    BY DEF Surjection, Offline
<1>2. IsFiniteSet(1..OfflineRows)
    BY FS_Interval, DataConstants
<1> QED BY <1>1, <1>2, FS_Surjection

\* Size of the union of two finite sets.
LEMMA UnionSize ==
  ASSUME NEW S, NEW T, IsFiniteSet(S), IsFiniteSet(T)
  PROVE  /\ IsFiniteSet(S \cup T)
         /\ Cardinality(S) \in Nat /\ Cardinality(T) \in Nat
         /\ Cardinality(S \cup T) \in Nat
         /\ Cardinality(S \cup T) <= Cardinality(S) + Cardinality(T)
         /\ S \cap T = {} => Cardinality(S \cup T) = Cardinality(S) + Cardinality(T)
<1>1. /\ IsFiniteSet(S \cup T)
      /\ Cardinality(S \cup T)
           = Cardinality(S) + Cardinality(T) - Cardinality(S \cap T)
    BY FS_Union
<1>2. IsFiniteSet(S \cap T)
    BY FS_Subset
<1>3. /\ Cardinality(S) \in Nat /\ Cardinality(T) \in Nat
      /\ Cardinality(S \cup T) \in Nat /\ Cardinality(S \cap T) \in Nat
      /\ S \cap T = {} => Cardinality(S \cap T) = 0
    BY <1>1, <1>2, FS_CardinalityType, FS_EmptySet
<1> QED BY <1>1, <1>3

\* The copies hold no two rows of one sequence number.
LEMMA CopiesDistinct ==
  ASSUME TypeOK, SeqOrder, Finite
  PROVE  /\ \A r, q \in offline_df_copy \cup online_df_copy : r.seq = q.seq => r = q
         /\ offline_df_copy \cap online_df_copy = {}
<1>1. \A r, q \in Offline : r.seq = q.seq => r = q
    BY DataConstants DEF Offline, OfflineRow
<1>2. \A r \in offline_df_copy : r \in Offline /\ r.seq \in Int /\ r.seq < 0
    BY DataConstants DEF Finite, Offline, OfflineRow
<1>3. /\ \A r \in online_df_copy : r.seq \in Int /\ r.seq >= 0
      /\ \A r, q \in online_df_copy : r.seq = q.seq => r = q
    BY DEF TypeOK, SeqOrder, Ordered
<1>4. offline_df_copy \cap online_df_copy = {}
    BY <1>2, <1>3
<1>5. ASSUME NEW r \in offline_df_copy \cup online_df_copy,
             NEW q \in offline_df_copy \cup online_df_copy, r.seq = q.seq
      PROVE  r = q
  <2>1. CASE r \in offline_df_copy /\ q \in offline_df_copy
      BY <1>1, <1>2, <1>5, <2>1
  <2>2. CASE r \in online_df_copy /\ q \in online_df_copy
      BY <1>3, <1>5, <2>2
  <2>3. CASE \/ r \in offline_df_copy /\ q \in online_df_copy
             \/ r \in online_df_copy /\ q \in offline_df_copy
      BY <1>2, <1>3, <1>5, <2>3
  <2> QED BY <2>1, <2>2, <2>3
<1> QED BY <1>4, <1>5

\* The pool of a two-pool round is no larger than its two parts.
LEMMA PoolSize ==
  ASSUME TypeOK, SeqOrder, Finite, NEW rep \in ReplayAndBackfill(Newest(Historical, FIFO_SIZE))
  PROVE  LET pool == Newest(Historical, FIFO_SIZE) \cup rep
         IN  IsFiniteSet(pool) /\ Cardinality(pool) <= FIFO_SIZE + REPLAY_SIZE
<1> DEFINE fifo == Newest(Historical, FIFO_SIZE)
           need == FIFO_SIZE + REPLAY_SIZE - Cardinality(fifo)
           Fill(rp) == Samples(Historical \ (fifo \cup rp), need - Cardinality(rp))
<1>0. FIFO_SIZE \in Nat /\ REPLAY_SIZE \in Nat
    BY SettingTypes
<1>1. /\ Historical \subseteq offline_df_copy \cup online_df_copy
      /\ Historical \in SUBSET Row
    BY DEF Historical, TypeOK
<1>2. IsFiniteSet(Historical)
  <2>1. IsFiniteSet(offline_df_copy) /\ IsFiniteSet(online_df_copy)
      BY OfflineFinite, FS_Subset DEF Finite
  <2>2. IsFiniteSet(offline_df_copy \cup online_df_copy)
      BY <2>1, UnionSize
  <2> QED BY <1>1, <2>2, FS_Subset
<1>3. \A r, q \in Historical : r.seq = q.seq => r = q
    BY <1>1, CopiesDistinct
<1>4. IsFiniteSet(fifo) /\ (fifo = {} \/ Cardinality(fifo) <= FIFO_SIZE)
    BY <1>0, <1>1, <1>2, <1>3, NewestSize
<1> HIDE DEF fifo
<1>5. Cardinality(fifo) \in Nat /\ need \in Nat
    BY <1>0, <1>4, FS_CardinalityType, FS_EmptySet
<1>6. PICK U \in {{rp \cup fill : fill \in Fill(rp)} : rp \in Samples(REPLAY_BUFFER, need)} :
             rep \in U
    BY DEF ReplayAndBackfill, fifo
<1> HIDE DEF need
<1>7. PICK rp \in Samples(REPLAY_BUFFER, need) : U = {rp \cup fill : fill \in Fill(rp)}
    BY <1>6
<1>8. PICK fill \in Fill(rp) : rep = rp \cup fill
    BY <1>6, <1>7
<1>9. IsFiniteSet(rp) /\ Cardinality(rp) \in Nat /\ Cardinality(rp) <= need
    BY <1>5, <1>7, SampleSize DEF Finite
<1>10. IsFiniteSet(fill) /\ Cardinality(fill) \in Nat
       /\ Cardinality(fill) <= need - Cardinality(rp)
  <2>1. need - Cardinality(rp) \in Nat
      BY <1>5, <1>9
  <2>2. IsFiniteSet(Historical \ (fifo \cup rp))
      BY <1>2, FS_Subset
  <2> QED BY <1>8, <2>1, <2>2, SampleSize
<1>11. IsFiniteSet(rep) /\ Cardinality(rep) \in Nat /\ Cardinality(rep) <= need
    BY <1>5, <1>8, <1>9, <1>10, UnionSize
<1>12. /\ IsFiniteSet(fifo \cup rep) /\ Cardinality(fifo \cup rep) \in Nat
       /\ Cardinality(fifo \cup rep) <= Cardinality(fifo) + Cardinality(rep)
    BY <1>4, <1>11, UnionSize
<1>13. Cardinality(fifo \cup rep) <= FIFO_SIZE + REPLAY_SIZE
    BY <1>0, <1>5, <1>11, <1>12 DEF need
<1> QED BY <1>12, <1>13 DEF fifo

\* The choice of a round and its eviction keep to the limits.
LEMMA SelectBounds ==
  ASSUME TypeOK, SeqOrder, Finite, CopyIsClose, TrainSelect
  PROVE  /\ IsFiniteSet(training_df') /\ IsFiniteSet(ONLINE_DF')
         /\ OFFLINE_DF' \subseteq Offline
         /\ ~IsCLNewOnly => Cardinality(OFFLINE_DF') + Cardinality(ONLINE_DF') <= sinceCopy + Limit
         /\ tpc' = "replay" /\ IsTwoPool =>
              /\ NewBatch \subseteq training_df'
              /\ Cardinality(training_df' \ NewBatch) <= FIFO_SIZE + REPLAY_SIZE
<1> DEFINE offline == offline_df_copy
           online == online_df_copy
<1>0. /\ {FIFO_SIZE, REPLAY_SIZE, MAX_TOTAL_DATA, sinceCopy} \subseteq Nat
      /\ Limit \in Nat
    BY SettingTypes DEF TypeOK, Limit
<1>1. /\ tpc = "select" /\ OFFLINE_DF = offline
      /\ Cardinality(ONLINE_DF) <= Cardinality(online) + sinceCopy
    BY DEF TrainSelect, CopyIsClose
<1>2. /\ IsFiniteSet(offline) /\ IsFiniteSet(online) /\ IsFiniteSet(ONLINE_DF)
      /\ IsFiniteSet(REPLAY_BUFFER)
    BY OfflineFinite, FS_Subset DEF Finite
<1>3. /\ Cardinality(offline) \in Nat /\ Cardinality(online) \in Nat
      /\ Cardinality(ONLINE_DF) \in Nat
    BY <1>2, FS_CardinalityType
<1>4. /\ OFFLINE_DF' \subseteq offline
      /\ ONLINE_DF' = ONLINE_DF \/ ONLINE_DF' \subseteq online
      /\ training_df' \subseteq offline \cup online \cup REPLAY_BUFFER
    BY <1>1, SelectType
<1>5. OFFLINE_DF' \subseteq Offline /\ IsFiniteSet(ONLINE_DF')
    BY <1>2, <1>4, FS_Subset DEF Finite
<1>6. IsFiniteSet(training_df')
  <2>1. IsFiniteSet(offline \cup online)
      BY <1>2, UnionSize
  <2>2. IsFiniteSet(offline \cup online \cup REPLAY_BUFFER)
      BY <1>2, <2>1, UnionSize
  <2> QED BY <1>4, <2>2, FS_Subset
\* Frames that are left as they are.
<1>7. ASSUME UNCHANGED <<OFFLINE_DF, ONLINE_DF>>,
             Cardinality(offline) + Cardinality(online) <= Limit
      PROVE  Cardinality(OFFLINE_DF') + Cardinality(ONLINE_DF') <= sinceCopy + Limit
    BY <1>0, <1>1, <1>3, <1>7
<1>8. ASSUME ~IsCLNewOnly
      PROVE  Cardinality(OFFLINE_DF') + Cardinality(ONLINE_DF') <= sinceCopy + Limit
  <2>1. CASE IsTwoPool /\ SelectTwoPool
    <3> DEFINE keep == FIFO_SIZE + REPLAY_SIZE
               all == offline \cup online
               kept == Newest(all, keep)
    <3>0. Limit = keep /\ Evict(keep) /\ keep \in Nat
        BY <1>0, <2>1 DEF Limit, SelectTwoPool
    <3> HIDE DEF keep
    <3>1. CASE Cardinality(offline) + Cardinality(online) <= keep
        BY <1>7, <3>0, <3>1 DEF Evict
    <3>2. CASE ~(Cardinality(offline) + Cardinality(online) <= keep)
      <4>1. OFFLINE_DF' = offline \cap kept /\ ONLINE_DF' = online \cap kept
          BY <3>0, <3>2 DEF Evict
      <4>2. IsFiniteSet(all) /\ all \in SUBSET Row
          BY <1>2, UnionSize DEF TypeOK
      <4>3. \A r, q \in all : r.seq = q.seq => r = q
          BY CopiesDistinct
      <4> HIDE DEF all
      <4>4. IsFiniteSet(kept) /\ (kept = {} \/ Cardinality(kept) <= keep)
          BY <3>0, <4>2, <4>3, NewestSize
      <4> HIDE DEF kept
      <4>5. Cardinality(kept) \in Nat /\ Cardinality(kept) <= keep
          BY <3>0, <4>4, FS_CardinalityType, FS_EmptySet
      <4>6. /\ OFFLINE_DF' \cap ONLINE_DF' = {}
            /\ OFFLINE_DF' \cup ONLINE_DF' \in SUBSET kept
          BY <4>1, CopiesDistinct
      <4>7. /\ Cardinality(OFFLINE_DF' \cup ONLINE_DF') <= Cardinality(kept)
            /\ IsFiniteSet(OFFLINE_DF') /\ IsFiniteSet(ONLINE_DF')
          BY <1>2, <4>1, <4>4, <4>6, FS_Subset
      <4>8. /\ Cardinality(OFFLINE_DF' \cup ONLINE_DF')
                 = Cardinality(OFFLINE_DF') + Cardinality(ONLINE_DF')
            /\ Cardinality(OFFLINE_DF') \in Nat /\ Cardinality(ONLINE_DF') \in Nat
          BY <4>6, <4>7, UnionSize
      <4> QED BY <1>0, <3>0, <4>5, <4>7, <4>8
    <3> QED BY <3>1, <3>2
  <2>2. CASE IsLegacy /\ SelectLegacy
    <3> DEFINE over == Cardinality(offline) + Cardinality(online) - MAX_TOTAL_DATA
               size == Cardinality(offline) - over
               off == Newest(offline, size)
    <3>0. Limit = MAX_TOTAL_DATA /\ over \in Int /\ size \in Int
        BY <1>0, <1>3, <2>2 DEF Limit, IsLegacy, IsTwoPool
    <3>1. CASE over <= 0 /\ UNCHANGED <<OFFLINE_DF, ONLINE_DF>>
        BY <1>0, <1>3, <1>7, <3>0, <3>1
    <3>2. ASSUME over > 0, NEW on \in Samples(online, MAX_TOTAL_DATA - Cardinality(off)),
                 OFFLINE_DF' = off, ONLINE_DF' = on
          PROVE  Cardinality(OFFLINE_DF') + Cardinality(ONLINE_DF') <= sinceCopy + Limit
      <4>1. offline \in SUBSET Row /\ \A r, q \in offline : r.seq = q.seq => r = q
          BY CopiesDistinct DEF TypeOK
      <4> HIDE DEF size
      <4>2. IsFiniteSet(off) /\ (off = {} \/ Cardinality(off) <= size)
          BY <1>2, <3>0, <4>1, NewestSize
      <4> HIDE DEF off
      <4>3. Cardinality(off) \in Nat /\ Cardinality(off) <= MAX_TOTAL_DATA
          BY <1>0, <1>3, <4>2, FS_CardinalityType, FS_EmptySet, SMTT(30) DEF size
      <4>4. MAX_TOTAL_DATA - Cardinality(off) \in Nat
          BY <1>0, <4>3
      <4>5. /\ Cardinality(on) \in Nat
            /\ Cardinality(on) <= MAX_TOTAL_DATA - Cardinality(off)
          BY <1>2, <3>2, <4>4, SampleSize
      <4> QED BY <1>0, <3>0, <3>2, <4>3, <4>5
    <3> QED BY <2>2, <3>1, <3>2 DEF SelectLegacy
  <2> QED BY <1>8, <2>1, <2>2 DEF TrainSelect
<1>9. ASSUME tpc' = "replay", IsTwoPool
      PROVE  /\ NewBatch \subseteq training_df'
             /\ Cardinality(training_df' \ NewBatch) <= FIFO_SIZE + REPLAY_SIZE
  <2> DEFINE fifo == Newest(Historical, FIFO_SIZE)
  <2>1. PICK rep \in ReplayAndBackfill(fifo) : TrainOn(NewBatch \cup fifo \cup rep)
      BY <1>9 DEF TrainSelect, IsTwoPool, IsLegacy, SelectTwoPool
  <2>2. training_df' = NewBatch \cup fifo \cup rep
      BY <1>9, <2>1 DEF TrainOn, Return
  <2>3. /\ IsFiniteSet(fifo \cup rep)
        /\ Cardinality(fifo \cup rep) <= FIFO_SIZE + REPLAY_SIZE
      BY <2>1, PoolSize
  <2> HIDE DEF fifo
  <2>4. training_df' \ NewBatch \in SUBSET (fifo \cup rep)
      BY <2>2
  <2>5. /\ Cardinality(training_df' \ NewBatch) <= Cardinality(fifo \cup rep)
        /\ IsFiniteSet(training_df' \ NewBatch)
      BY <2>3, <2>4, FS_Subset
  <2>6. /\ Cardinality(training_df' \ NewBatch) \in Nat /\ Cardinality(fifo \cup rep) \in Nat
      BY <2>3, <2>5, FS_CardinalityType
  <2> QED BY <1>0, <2>2, <2>3, <2>5, <2>6
<1> QED BY <1>5, <1>6, <1>8, <1>9

\* A flush adds no more rows than samples.
LEMMA FlushSize ==
  ASSUME TypeOK, Finite, NEW n \in BatchSizes, NEW k \in 0..n, FlushAppend(n, k)
  PROVE  /\ IsFiniteSet(ONLINE_DF')
         /\ Cardinality(ONLINE_DF) \in Nat /\ Cardinality(ONLINE_DF') \in Nat
         /\ n \in Nat /\ sinceCopy' = sinceCopy + n
         /\ Cardinality(ONLINE_DF') <= Cardinality(ONLINE_DF) + n
<1>1. n \in Nat /\ k \in Nat /\ k <= n
    BY DataConstants
<1>2. ONLINE_DF' = ONLINE_DF \cup BatchRows(k) /\ sinceCopy' = sinceCopy + n
    BY DEF FlushAppend
<1>3. IsFiniteSet(BatchRows(k)) /\ Cardinality(BatchRows(k)) <= k
    BY <1>1, BatchSize
<1>4. /\ IsFiniteSet(ONLINE_DF')
      /\ Cardinality(ONLINE_DF) \in Nat /\ Cardinality(BatchRows(k)) \in Nat
      /\ Cardinality(ONLINE_DF') \in Nat
      /\ Cardinality(ONLINE_DF') <= Cardinality(ONLINE_DF) + Cardinality(BatchRows(k))
    BY <1>2, <1>3, UnionSize DEF Finite
<1> QED BY <1>1, <1>2, <1>3, <1>4

\* Every step keeps the limits.
LEMMA BoundInvNext ==
  ASSUME TypeOK, SeqOrder, BoundInv, [Next]_vars
  PROVE  BoundInv'
<1> USE DEF store, replay, counters, round, trainer, flush, history
<1>0. /\ Finite /\ CopyIsClose /\ StorageBounded /\ PoolBounded
      /\ sinceCopy \in Nat /\ NUM_TRAINS \in Nat
      /\ Limit \in Nat
    BY SettingTypes DEF BoundInv, TypeOK, Limit
<1> USE SettingsStay
<1>1. IsFiniteSet({})
    BY FS_EmptySet
\* Outside a choice the bounds say nothing.
<1>2. ASSUME Finite', tpc' \in {"idle", "copy", "reset"}
      PROVE  BoundInv'
    BY <1>2 DEF BoundInv, CopyIsClose, StorageBounded, PoolBounded
\* A step that leaves the frames and the round alone.
<1>3. ASSUME UNCHANGED <<OFFLINE_DF, ONLINE_DF, offline_df_copy, online_df_copy, training_df,
                         NUM_TRAINS, sinceCopy>>, Finite',
             \/ tpc' = tpc
             \/ /\ tpc \in {"replay", "train", "stats"}
                /\ tpc' \in {"train", "stats", "publish"}
      PROVE  BoundInv'
  <2>1. /\ IsTwoPool' = IsTwoPool /\ IsCLNewOnly' = IsCLNewOnly /\ NewBatch' = NewBatch
      BY <1>3 DEF NewBatch
  <2>2. CopyIsClose'
      BY <1>0, <1>3 DEF CopyIsClose
  <2>3. StorageBounded'
      BY <1>0, <1>3, <2>1 DEF StorageBounded
  <2>4. PoolBounded'
      BY <1>0, <1>3, <2>1 DEF PoolBounded
  <2> QED BY <1>3, <2>2, <2>3, <2>4 DEF BoundInv
<1>4. ASSUME NEW n \in BatchSizes, NEW k \in 0..n, FlushAppend(n, k)
      PROVE  BoundInv'
  <2>1. UNCHANGED <<OFFLINE_DF, REPLAY_BUFFER, replay_file, NUM_TRAINS, tpc,
                    offline_df_copy, online_df_copy, training_df>>
      BY <1>4 DEF FlushAppend
  <2>2. /\ IsFiniteSet(ONLINE_DF')
        /\ Cardinality(ONLINE_DF) \in Nat /\ Cardinality(ONLINE_DF') \in Nat
        /\ n \in Nat /\ sinceCopy' = sinceCopy + n
        /\ Cardinality(ONLINE_DF') <= Cardinality(ONLINE_DF) + n
      BY <1>0, <1>4, FlushSize
  <2>3. Finite'
      BY <1>0, <2>1, <2>2 DEF Finite
  <2>4. IsTwoPool' = IsTwoPool /\ IsCLNewOnly' = IsCLNewOnly /\ NewBatch' = NewBatch
      BY <2>1 DEF NewBatch
  <2>5. /\ Cardinality(OFFLINE_DF) \in Nat /\ Cardinality(online_df_copy) \in Nat
      BY <1>0, OfflineFinite, FS_Subset, FS_CardinalityType DEF Finite
  <2>6. CopyIsClose'
      BY <1>0, <2>1, <2>2, <2>5 DEF CopyIsClose
  <2>7. StorageBounded'
    <3>1. StorageBounded <=>
            (tpc \in {"replay", "train", "stats", "publish"} /\ ~IsCLNewOnly =>
               Cardinality(OFFLINE_DF) + Cardinality(ONLINE_DF) <= sinceCopy + Limit)
        BY DEF StorageBounded, Limit
    <3>2. StorageBounded' <=>
            (tpc \in {"replay", "train", "stats", "publish"} /\ ~IsCLNewOnly =>
               Cardinality(OFFLINE_DF) + Cardinality(ONLINE_DF') <= sinceCopy' + Limit)
        BY <2>1, <2>4 DEF StorageBounded, Limit
    <3> QED BY <1>0, <2>2, <2>5, <3>1, <3>2
  <2>8. PoolBounded'
      BY <1>0, <2>1, <2>4 DEF PoolBounded
  <2> QED BY <2>3, <2>6, <2>7, <2>8 DEF BoundInv
<1>5. CASE FlushLoad \/ FlushStore
    BY <1>0, <1>3, <1>5 DEF FlushLoad, FlushStore, Finite
<1>6. CASE TrainStart
    BY <1>0, <1>2, <1>6 DEF TrainStart, Finite
<1>7. CASE TrainCopy
  <2>1. Finite'
      BY <1>0, <1>1, <1>7 DEF TrainCopy, Return, Finite
  <2>2. CASE tpc' = "select"
    <3>1. /\ UNCHANGED <<OFFLINE_DF, ONLINE_DF>> /\ sinceCopy' = 0
          /\ offline_df_copy' = OFFLINE_DF /\ online_df_copy' = ONLINE_DF
        BY <1>7, <2>2 DEF TrainCopy, Return
    <3>2. Cardinality(ONLINE_DF) \in Nat
        BY <1>0, FS_CardinalityType DEF Finite
    <3> QED BY <2>1, <2>2, <3>1, <3>2
            DEF BoundInv, CopyIsClose, StorageBounded, PoolBounded
  <2>3. CASE tpc' = "idle"
      BY <1>2, <2>1, <2>3
  <2> QED BY <1>7, <2>2, <2>3 DEF TrainCopy, Return
<1>8. CASE TrainSelect
  <2>1. UNCHANGED <<NUM_TRAINS, REPLAY_BUFFER, replay_file, sinceCopy>>
      BY <1>8 DEF TrainSelect
  <2>2. /\ tpc' \in {"idle", "replay"}
        /\ online_df_copy' \in {online_df_copy, {}}
      BY <1>8, SelectType
  <2>3. /\ offline_df_copy' \in {offline_df_copy, {}}
        /\ tpc' = "replay" => online_df_copy' = online_df_copy
      BY <1>8 DEF TrainSelect, SelectNew, SelectTwoPool, SelectLegacy, TrainOn, Return
  <2>4. /\ IsFiniteSet(training_df') /\ IsFiniteSet(ONLINE_DF')
        /\ OFFLINE_DF' \subseteq Offline
        /\ ~IsCLNewOnly =>
             Cardinality(OFFLINE_DF') + Cardinality(ONLINE_DF') <= sinceCopy + Limit
        /\ tpc' = "replay" /\ IsTwoPool =>
             /\ NewBatch \subseteq training_df'
             /\ Cardinality(training_df' \ NewBatch) <= FIFO_SIZE + REPLAY_SIZE
      BY <1>0, <1>8, SelectBounds
  <2>5. Finite'
      BY <1>0, <1>1, <2>1, <2>2, <2>3, <2>4 DEF Finite
  <2>6. CASE tpc' = "replay"
    <3>1. IsTwoPool' = IsTwoPool /\ IsCLNewOnly' = IsCLNewOnly /\ NewBatch' = NewBatch
        BY <2>1, <2>3, <2>6 DEF NewBatch
    <3>2. StorageBounded'
        BY <2>1, <2>4, <3>1 DEF StorageBounded, Limit
    <3>3. PoolBounded'
        BY <2>4, <2>6, <3>1 DEF PoolBounded
    <3> QED BY <2>5, <2>6, <3>2, <3>3 DEF BoundInv, CopyIsClose
  <2> QED BY <1>2, <2>2, <2>5, <2>6
<1>9. CASE TrainReplay
  <2>1. /\ UNCHANGED <<OFFLINE_DF, ONLINE_DF, offline_df_copy, online_df_copy,
                       training_df, NUM_TRAINS, sinceCopy>>
        /\ tpc = "replay" /\ tpc' = "train"
      BY <1>9 DEF TrainReplay
  <2>2. REPLAY_BUFFER' \subseteq training_df \/ REPLAY_BUFFER' = REPLAY_BUFFER
      BY <1>9, Selections DEF TrainReplay
  <2>3. replay_file' \in {REPLAY_BUFFER', replay_file}
      BY <1>9 DEF TrainReplay
  <2>4. IsFiniteSet(REPLAY_BUFFER') /\ IsFiniteSet(replay_file')
      BY <1>0, <2>2, <2>3, FS_Subset DEF Finite
  <2>5. Finite'
      BY <1>0, <2>1, <2>4 DEF Finite
  <2> QED BY <1>3, <2>1, <2>5
<1>10. CASE TrainModel
  <2>1. Finite'
      BY <1>0, <1>1, <1>10 DEF TrainModel, Return, Finite
  <2> QED BY <1>2, <1>3, <1>10, <2>1 DEF TrainModel, Return
<1>10a. CASE TrainStats
    BY <1>0, <1>3, <1>10a DEF TrainStats, Finite
<1>11. CASE TrainPublish
    BY <1>0, <1>2, <1>11 DEF TrainPublish, Finite
<1>12. CASE TrainReset
    BY <1>0, <1>1, <1>2, <1>12 DEF TrainReset, Return, Finite
<1>13. CASE TrainFail
    BY <1>0, <1>1, <1>2, <1>13 DEF TrainFail, Return, Finite
<1>14. CASE Restart
    BY <1>0, <1>1, <1>2, <1>14 DEF Restart, Finite
<1>15. CASE UNCHANGED vars
    BY <1>0, <1>3, <1>15 DEF vars, Finite
<1> QED
    BY <1>4, <1>5, <1>6, <1>7, <1>8, <1>9, <1>10, <1>10a, <1>11, <1>12, <1>13,
       <1>14, <1>15
    DEF Next, FlushStep, TrainStep

LEMMA BoundInvAlways == Safety => []BoundInv
<1>1. Init => BoundInv
  <2> SUFFICES ASSUME Init PROVE BoundInv
      OBVIOUS
  <2>1. Finite
      BY FS_EmptySet DEF Init, Initialize, Finite
  <2>2. tpc = "idle"
      BY DEF Init, Initialize
  <2> QED BY <2>1, <2>2 DEF BoundInv, CopyIsClose, StorageBounded, PoolBounded
<1>2. TypeOK /\ SeqOrder /\ BoundInv /\ [Next]_vars => BoundInv'
    BY BoundInvNext
<1> QED BY <1>1, <1>2, TypeAlways, SeqOrderAlways, PTL DEF Safety

\* For every configuration with eviction, and whatever is flushed meanwhile: once a
\* round has chosen its rows, the frames hold at most the pools, or MAX_TOTAL_DATA,
\* and what arrived since the copy.
THEOREM StorageBoundedAlways == Safety => []StorageBounded
<1>1. BoundInv => StorageBounded
    BY DEF BoundInv
<1> QED BY <1>1, BoundInvAlways, PTL

\* A two-pool round trains on all rows of its own and on at most FIFO_SIZE +
\* REPLAY_SIZE others, whatever rows an earlier process left in replay_buffer.pkl.
THEOREM PoolBoundedAlways == Safety => []PoolBounded
<1>1. BoundInv => PoolBounded
    BY DEF BoundInv
<1> QED BY <1>1, BoundInvAlways, PTL

-----------------------------------------------------------------------------
\* The rows of S are among those received so far.
Old(S) == \A r \in S : r.id <= OfflineRows + received

\* Every row was received, by this process or by an earlier one.
Received ==
  /\ Old(OFFLINE_DF) /\ Old(ONLINE_DF) /\ Old(offline_df_copy) /\ Old(online_df_copy)
  /\ Old(training_df) /\ Old(REPLAY_BUFFER) /\ Old(replay_file) /\ Old(trained)

\* A stored row that was trained on belongs to a finished round, except in the
\* moment between the end of the try block and the new round number.
Finished(S) == \A r \in S : r \in trained => r.round < NUM_TRAINS \/ tpc = "publish"

LearnInv == Received /\ Finished(ONLINE_DF) /\ Finished(online_df_copy) /\ NewDataOnly

\* Every step keeps the rows of finished rounds apart from the new ones.
LEMMA LearnInvNext ==
  ASSUME TypeOK, SeqOrder, LearnInv, [Next]_vars
  PROVE  LearnInv'
<1> USE DEF store, replay, counters, round, trainer, flush, history
<1>0. /\ Received /\ Finished(ONLINE_DF) /\ Finished(online_df_copy) /\ NewDataOnly
      /\ received \in Nat /\ OfflineRows \in Nat /\ NUM_TRAINS \in Nat
    BY DataConstants DEF LearnInv, TypeOK
<1> USE SettingsStay
<1>1. Old({}) /\ Finished({})
    BY DEF Old, Finished
<1>2. \A r \in ONLINE_DF \cup online_df_copy : r.round \in Int /\ r.round <= NUM_TRAINS
    BY DEF TypeOK, SeqOrder, Ordered
\* Nothing is received or trained on, and no training set is chosen.
<1>3. ASSUME UNCHANGED <<received, trained, NUM_TRAINS>>, Received',
             ONLINE_DF' \subseteq ONLINE_DF \/ ONLINE_DF' \subseteq online_df_copy,
             \/ online_df_copy' \subseteq ONLINE_DF
             \/ online_df_copy' \subseteq online_df_copy,
             tpc # "publish" \/ tpc' = "publish",
             NewDataOnly'
      PROVE  LearnInv'
  <2>1. Finished(ONLINE_DF)' /\ Finished(online_df_copy)'
      BY <1>0, <1>3 DEF Finished
  <2> QED BY <1>3, <2>1 DEF LearnInv
<1>4. ASSUME NEW n \in BatchSizes, NEW k \in 0..n, FlushAppend(n, k)
      PROVE  LearnInv'
  <2>1. n \in Nat /\ k \in Nat /\ k <= n
      BY DataConstants
  <2>2. /\ ONLINE_DF' = ONLINE_DF \cup BatchRows(k) /\ received' = received + n
        /\ UNCHANGED <<OFFLINE_DF, REPLAY_BUFFER, replay_file, NUM_TRAINS, tpc,
                       offline_df_copy, online_df_copy, training_df, trained>>
      BY <1>4 DEF FlushAppend
  <2>3. \A r \in BatchRows(k) : /\ r.id \in Nat /\ r.id > OfflineRows + received
                                /\ r.id <= OfflineRows + received + n
      BY <1>0, <2>1 DEF BatchRows
  <2>4. Received'
    <3>1. /\ Old(OFFLINE_DF)' /\ Old(offline_df_copy)' /\ Old(online_df_copy)'
          /\ Old(training_df)' /\ Old(REPLAY_BUFFER)' /\ Old(replay_file)' /\ Old(trained)'
        BY <1>0, <2>1, <2>2 DEF Received, Old, TypeOK, Row
    <3>2. Old(ONLINE_DF)'
        BY <1>0, <2>1, <2>2, <2>3 DEF Received, Old, TypeOK, Row
    <3> QED BY <3>1, <3>2 DEF Received
  <2>5. BatchRows(k) \cap trained = {}
      BY <1>0, <2>3 DEF Received, Old, TypeOK, Row
  <2>6. Finished(ONLINE_DF)' /\ Finished(online_df_copy)'
      BY <1>0, <2>2, <2>5 DEF Finished
  <2>7. NewDataOnly'
      BY <1>0, <2>2 DEF NewDataOnly
  <2> QED BY <2>4, <2>6, <2>7 DEF LearnInv
<1>5. CASE FlushLoad \/ FlushStore \/ TrainStart
  <2>1. UNCHANGED <<OFFLINE_DF, ONLINE_DF, REPLAY_BUFFER, replay_file, NUM_TRAINS,
                    offline_df_copy, online_df_copy, training_df, trained, received>>
      BY <1>5 DEF FlushLoad, FlushStore, TrainStart
  <2>2. tpc' = tpc \/ (tpc = "idle" /\ tpc' = "copy")
      BY <1>5 DEF FlushLoad, FlushStore, TrainStart
  <2>3. Received'
      BY <1>0, <2>1 DEF Received, Old
  <2>4. NewDataOnly'
      BY <1>0, <2>1, <2>2 DEF NewDataOnly
  <2> QED BY <1>3, <2>1, <2>2, <2>3, <2>4
<1>6. CASE TrainCopy
  <2>1. Received'
      BY <1>0, <1>1, <1>6 DEF TrainCopy, Return, Received, Old
  <2>2. NewDataOnly'
      BY <1>6 DEF TrainCopy, Return, NewDataOnly
  <2> QED BY <1>3, <1>6, <2>1, <2>2 DEF TrainCopy, Return
<1>7. CASE TrainSelect
  <2>1. /\ UNCHANGED <<NUM_TRAINS, REPLAY_BUFFER, replay_file, received, trained>>
        /\ tpc = "select"
      BY <1>7 DEF TrainSelect
  <2>2. /\ tpc' \in {"idle", "replay"}
        /\ online_df_copy' \in {online_df_copy, {}}
        /\ OFFLINE_DF' \subseteq OFFLINE_DF \cup offline_df_copy
        /\ ONLINE_DF' = ONLINE_DF \/ ONLINE_DF' \subseteq online_df_copy
        /\ training_df' \subseteq offline_df_copy \cup online_df_copy \cup REPLAY_BUFFER
      BY <1>7, SelectType
  <2>3. offline_df_copy' \in {offline_df_copy, {}}
      BY <1>7 DEF TrainSelect, SelectNew, SelectTwoPool, SelectLegacy, TrainOn, Return
  <2>4. Received'
      BY <1>0, <2>1, <2>2, <2>3 DEF Received, Old
  <2>5. NewDataOnly'
    <3> SUFFICES ASSUME tpc' = "replay", IsCLNewOnly
                 PROVE  training_df' \cap trained = {}
        BY <2>1, <2>2 DEF NewDataOnly
    <3>1. training_df' = NewBatch
        BY <1>7 DEF TrainSelect, IsTwoPool, IsLegacy, SelectNew, TrainOn, Return
    <3> QED BY <1>0, <1>2, <2>1, <3>1 DEF NewBatch, Finished
  <2> QED BY <1>3, <2>1, <2>2, <2>4, <2>5
<1>8. CASE TrainReplay
  <2>1. UNCHANGED <<OFFLINE_DF, ONLINE_DF, NUM_TRAINS, offline_df_copy, online_df_copy,
                    training_df, trained, received>>
      BY <1>8 DEF TrainReplay
  <2>2. REPLAY_BUFFER' \subseteq training_df \/ REPLAY_BUFFER' = REPLAY_BUFFER
      BY <1>8, Selections DEF TrainReplay
  <2>3. replay_file' \in {REPLAY_BUFFER', replay_file} /\ tpc = "replay" /\ tpc' = "train"
      BY <1>8 DEF TrainReplay
  <2>4. Received'
      BY <1>0, <2>1, <2>2, <2>3 DEF Received, Old
  <2>5. NewDataOnly'
      BY <1>0, <2>1, <2>3 DEF NewDataOnly
  <2> QED BY <1>3, <2>1, <2>3, <2>4, <2>5
<1>9. CASE TrainModel
  <2>1. /\ UNCHANGED <<OFFLINE_DF, ONLINE_DF, REPLAY_BUFFER, replay_file, NUM_TRAINS,
                       trained, received>>
        /\ tpc = "train"
      BY <1>9 DEF TrainModel
  <2>2. \/ tpc' = "stats" /\ UNCHANGED <<offline_df_copy, online_df_copy, training_df>>
        \/ Return
      BY <1>9 DEF TrainModel
  <2>3. Received'
      BY <1>0, <1>1, <2>1, <2>2 DEF Received, Old, Return
  <2>4. NewDataOnly'
      BY <1>0, <2>1, <2>2 DEF NewDataOnly, Return
  <2> QED BY <1>3, <2>1, <2>2, <2>3, <2>4 DEF Return
<1>9a. CASE TrainStats
  <2>1. /\ UNCHANGED <<OFFLINE_DF, ONLINE_DF, REPLAY_BUFFER, replay_file, NUM_TRAINS,
                       offline_df_copy, online_df_copy, training_df, received>>
        /\ tpc' = "publish" /\ trained' = trained \cup training_df
      BY <1>9a DEF TrainStats
  <2>2. Received'
      BY <1>0, <2>1 DEF Received, Old
  <2>3. Finished(ONLINE_DF)' /\ Finished(online_df_copy)'
      BY <2>1 DEF Finished
  <2> QED BY <2>1, <2>2, <2>3 DEF LearnInv, NewDataOnly
<1>10. CASE TrainPublish
  <2>1. /\ UNCHANGED <<OFFLINE_DF, ONLINE_DF, REPLAY_BUFFER, replay_file,
                       offline_df_copy, online_df_copy, training_df, trained, received>>
        /\ NUM_TRAINS' = NUM_TRAINS + 1 /\ tpc' = "reset"
      BY <1>10 DEF TrainPublish
  <2>2. Received'
      BY <1>0, <2>1 DEF Received, Old
  <2>3. Finished(ONLINE_DF)' /\ Finished(online_df_copy)'
      BY <1>0, <1>2, <2>1 DEF Finished
  <2> QED BY <2>1, <2>2, <2>3 DEF LearnInv, NewDataOnly
<1>11. CASE TrainReset \/ TrainFail
  <2>1. /\ UNCHANGED <<OFFLINE_DF, ONLINE_DF, REPLAY_BUFFER, replay_file, NUM_TRAINS,
                       trained, received>>
        /\ Return /\ tpc # "publish"
      BY <1>11 DEF TrainReset, TrainFail
  <2>2. Received'
      BY <1>0, <1>1, <2>1 DEF Received, Old, Return
  <2>3. NewDataOnly'
      BY <2>1 DEF NewDataOnly, Return
  <2> QED BY <1>3, <2>1, <2>2, <2>3 DEF Return
<1>12. CASE Restart
  <2>1. /\ OFFLINE_DF' = Offline /\ ONLINE_DF' = {} /\ REPLAY_BUFFER' = replay_file
        /\ offline_df_copy' = {} /\ online_df_copy' = {} /\ training_df' = {}
        /\ tpc' = "idle" /\ UNCHANGED <<received, trained, replay_file>>
      BY <1>12 DEF Restart
  <2>2. Old(Offline)
      BY <1>0 DEF Old, Offline, OfflineRow
  <2>3. Received'
      BY <1>0, <2>1, <2>2 DEF Received, Old
  <2> QED BY <2>1, <2>3 DEF LearnInv, Finished, NewDataOnly
<1>13. CASE UNCHANGED vars
  <2>1. Received' /\ NewDataOnly'
      BY <1>0, <1>13 DEF vars, Received, Old, NewDataOnly
  <2> QED BY <1>3, <1>13, <2>1 DEF vars
<1> QED
    BY <1>4, <1>5, <1>6, <1>7, <1>8, <1>9, <1>9a, <1>10, <1>11, <1>12, <1>13
    DEF Next, FlushStep, TrainStep

\* A continual-learning round repeats no row that a finished round has trained on,
\* whenever samples arrive, other rounds fail (before or after they have learned)
\* or the process starts again.
THEOREM NewDataOnlyAlways == Safety => []NewDataOnly
<1>1. Init => LearnInv
  <2> SUFFICES ASSUME Init PROVE LearnInv
      OBVIOUS
  <2>1. OfflineRows \in Nat /\ received = 0
      BY DataConstants DEF Init
  <2>2. Old(Offline)
      BY <2>1 DEF Old, Offline, OfflineRow
  <2> QED BY <2>2 DEF Init, Initialize, LearnInv, Received, Old, Finished, NewDataOnly
<1>2. TypeOK /\ SeqOrder /\ LearnInv /\ [Next]_vars => LearnInv'
    BY LearnInvNext
<1>3. LearnInv => NewDataOnly
    BY DEF LearnInv
<1> QED BY <1>1, <1>2, <1>3, TypeAlways, SeqOrderAlways, PTL DEF Safety
=============================================================================
