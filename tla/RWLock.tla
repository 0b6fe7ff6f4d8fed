------------------------------- MODULE RWLock -------------------------------
(***************************************************************************)
(* rwlock.RWLock (agent_codes/rwlock.py): the lock between the prediction  *)
(* handlers (readers) and the model initialisation and update (writers) of *)
(* the routing service.  Every method body runs under the mutex _lock, so  *)
(* each critical section is one step; Condition.wait() splits a method at  *)
(* the point where the mutex is given up.  A thread in "rWait"/"wWait" is  *)
(* asleep in wait(); one in "rWake"/"wWake" was notified and still has to  *)
(* take the mutex again and re-test the while condition.                   *)
(***************************************************************************)
EXTENDS Naturals, FiniteSets

CONSTANT Threads

ASSUME ThreadsAssumption == IsFiniteSet(Threads)

VARIABLES
  readers,          \* _readers
  writers,          \* _writers
  waiting_writers,  \* _waiting_writers
  pc                \* where each thread stands

lockVars == <<readers, writers, waiting_writers, pc>>

PC == {"idle", "rWait", "rWake", "reading", "wWait", "wWake", "writing"}

In(s) == {t \in Threads : pc[t] = s}

LockTypeOK ==
  /\ readers \in Nat /\ writers \in 0..1 /\ waiting_writers \in Nat
  /\ pc \in [Threads -> PC]

LockInit ==
  /\ readers = 0 /\ writers = 0 /\ waiting_writers = 0
  /\ pc = [t \in Threads |-> "idle"]

-----------------------------------------------------------------------------
\* The while condition of read_acquire, without the writer priority.
ReaderIgnoresQueue == writers > 0

\* The while condition of read_acquire.
ReaderMustWait == writers > 0 \/ waiting_writers > 0

\* The while condition of write_acquire, without the readers.
WriterIgnoresReaders == writers > 0

\* The while condition of write_acquire.
WriterMustWait == readers > 0 \/ writers > 0

\* threading.Condition.notify() on _write_ready: one sleeping writer wakes,
\* none if nobody sleeps.  CPython wakes the oldest waiter; any is allowed here.
AfterNotifyWriter ==
  IF In("wWait") = {} THEN {pc}
  ELSE {[pc EXCEPT ![w] = "wWake"] : w \in In("wWait")}

\* threading.Condition.notify_all() on _read_ready, as a function of pc.
AfterNotifyReaders(q) ==
  [t \in Threads |-> IF q[t] = "rWait" THEN "rWake" ELSE q[t]]

-----------------------------------------------------------------------------
\* Mutant of ReadAcquire: the reader is not counted.
ReadAcquireUncounted(t) ==
  /\ pc[t] \in {"idle", "rWake"}
  /\ pc' = [pc EXCEPT ![t] = IF ReaderMustWait THEN "rWait" ELSE "reading"]
  /\ UNCHANGED <<readers, writers, waiting_writers>>

\* read_acquire, from its entry or from a wake-up to the next loop test.
ReadAcquire(t) ==
  /\ pc[t] \in {"idle", "rWake"}
  /\ \/ /\ ReaderMustWait
        /\ pc' = [pc EXCEPT ![t] = "rWait"]
        /\ readers' = readers
     \/ /\ ~ReaderMustWait
        /\ pc' = [pc EXCEPT ![t] = "reading"]
        /\ readers' = readers + 1
  /\ UNCHANGED <<writers, waiting_writers>>

\* Mutant of ReadRelease: the test for the last reader is off by one.
ReadReleaseOffByOne(t) ==
  /\ pc[t] = "reading"
  /\ readers' = readers - 1
  /\ \E q \in IF readers' = 1 THEN AfterNotifyWriter ELSE {pc} :
       pc' = [q EXCEPT ![t] = "idle"]
  /\ UNCHANGED <<writers, waiting_writers>>

\* read_release: the last reader out notifies one writer.
ReadRelease(t) ==
  /\ pc[t] = "reading"
  /\ readers' = readers - 1
  /\ \E q \in IF readers' = 0 THEN AfterNotifyWriter ELSE {pc} :
       pc' = [q EXCEPT ![t] = "idle"]
  /\ UNCHANGED <<writers, waiting_writers>>

\* write_acquire from its entry: the writer queues before it tests.
WriteAcquire(t) ==
  /\ pc[t] = "idle"
  /\ \/ /\ WriterMustWait
        /\ pc' = [pc EXCEPT ![t] = "wWait"]
        /\ waiting_writers' = waiting_writers + 1
        /\ writers' = writers
     \/ /\ ~WriterMustWait
        /\ pc' = [pc EXCEPT ![t] = "writing"]
        /\ writers' = 1
        /\ waiting_writers' = waiting_writers
  /\ UNCHANGED readers

\* Mutant of WriteRetry: the writer stays counted as waiting.
WriteRetryStillQueued(t) ==
  /\ pc[t] = "wWake" /\ ~WriterMustWait
  /\ pc' = [pc EXCEPT ![t] = "writing"]
  /\ writers' = 1
  /\ UNCHANGED <<readers, waiting_writers>>

\* write_acquire after a wake-up: the loop test again.
WriteRetry(t) ==
  /\ pc[t] = "wWake"
  /\ \/ /\ WriterMustWait
        /\ pc' = [pc EXCEPT ![t] = "wWait"]
        /\ UNCHANGED <<writers, waiting_writers>>
     \/ /\ ~WriterMustWait
        /\ pc' = [pc EXCEPT ![t] = "writing"]
        /\ writers' = 1
        /\ waiting_writers' = waiting_writers - 1
  /\ UNCHANGED readers

\* Mutant of WriteRelease: only a writer is notified, never the readers.
WriteReleaseWriterOnly(t) ==
  /\ pc[t] = "writing"
  /\ writers' = 0
  /\ \E q \in AfterNotifyWriter : pc' = [q EXCEPT ![t] = "idle"]
  /\ UNCHANGED <<readers, waiting_writers>>

\* write_release: one writer and all readers are notified.
WriteRelease(t) ==
  /\ pc[t] = "writing"
  /\ writers' = 0
  /\ \E q \in AfterNotifyWriter :
       pc' = [AfterNotifyReaders(q) EXCEPT ![t] = "idle"]
  /\ UNCHANGED <<readers, waiting_writers>>

LockNext ==
  \E t \in Threads :
    \/ ReadAcquire(t) \/ ReadRelease(t)
    \/ WriteAcquire(t) \/ WriteRetry(t) \/ WriteRelease(t)

\* A notified thread eventually runs and a holder eventually leaves its with
\* block; nobody is obliged to ask for the lock.
LockFairness ==
  \A t \in Threads :
    /\ WF_lockVars(pc[t] = "rWake" /\ ReadAcquire(t))
    /\ WF_lockVars(WriteRetry(t))
    /\ WF_lockVars(ReadRelease(t))
    /\ WF_lockVars(WriteRelease(t))

LockSafety == LockInit /\ [][LockNext]_lockVars

LockSpec == LockSafety /\ LockFairness

-----------------------------------------------------------------------------
\* The counters of the lock say what the threads do: the lock decides on them
\* alone, so a count that drifts admits or bars a thread for ever.
CountsMatch ==
  /\ readers = Cardinality(In("reading"))
  /\ writers = Cardinality(In("writing"))
  /\ waiting_writers = Cardinality(In("wWait") \cup In("wWake"))

\* "Writers get exclusive access (no readers or other writers)" (rwlock.py:17):
\* a model update never overlaps a prediction or another update.
Exclusion ==
  \A t, u \in Threads :
    pc[t] = "writing" /\ u # t => pc[u] \notin {"reading", "writing"}

\* No wake-up is lost.  If a writer sleeps while the lock is free, another was
\* notified and has yet to run; a reader sleeps only while a writer holds the
\* lock or is queued, whose write_release will notify it.
NoLostWakeup ==
  /\ In("wWait") # {} /\ readers = 0 /\ writers = 0 => In("wWake") # {}
  /\ In("rWait") # {} => writers > 0 \/ waiting_writers > 0

\* "Writers have priority to prevent starvation" (rwlock.py:18): while writers
\* wait, one of them gets the lock, however many readers keep arriving.
WritersServed ==
  In("wWait") \cup In("wWake") # {} ~> In("writing") # {}

\* Readers are starved by writers only: once no thread wants to write any more,
\* every waiting reader gets in.
ReadersServedWhenQuiet ==
  <>[](\A u \in Threads : pc[u] \notin {"wWait", "wWake", "writing"})
    => \A t \in Threads : pc[t] \in {"rWait", "rWake"} ~> pc[t] = "reading"

\* The refinement mapping: asleep and notified are both "asking".
AbstractState ==
  [t \in Threads |->
    CASE pc[t] \in {"rWait", "rWake"} -> "askRead"
      [] pc[t] \in {"wWait", "wWake"} -> "askWrite"
      [] OTHER -> pc[t]]

Abstract == INSTANCE RWLockSpec WITH state <- AbstractState

\* RWLock implements the writer-priority lock of its docstring: every step of
\* a method is a step of RWLockSpec or none, and writers that ask are served.
ImplementsRWLockSpec == Abstract!Spec
=============================================================================
