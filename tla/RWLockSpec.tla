----------------------------- MODULE RWLockSpec -----------------------------
(***************************************************************************)
(* What rwlock.RWLock promises (rwlock.py:13-18): several readers at once, *)
(* a writer alone, and writers served before readers.  A thread is idle,   *)
(* asking for the lock, or holding it; the counters, the two condition     *)
(* variables and the wake-ups of the code are not visible here.            *)
(***************************************************************************)
CONSTANT Threads

VARIABLE state

States == {"idle", "askRead", "reading", "askWrite", "writing"}

In(s) == {t \in Threads : state[t] = s}

Init == state = [t \in Threads |-> "idle"]

AskRead(t) == state[t] = "idle" /\ state' = [state EXCEPT ![t] = "askRead"]

AskWrite(t) == state[t] = "idle" /\ state' = [state EXCEPT ![t] = "askWrite"]

\* A reader gets in only when nobody writes and nobody asks to write.
GrantRead(t) ==
  /\ state[t] \in {"idle", "askRead"}
  /\ In("writing") = {} /\ In("askWrite") = {}
  /\ state' = [state EXCEPT ![t] = "reading"]

\* A writer gets in only alone.
GrantWrite(t) ==
  /\ state[t] \in {"idle", "askWrite"}
  /\ In("writing") = {} /\ In("reading") = {}
  /\ state' = [state EXCEPT ![t] = "writing"]

Release(t) ==
  /\ state[t] \in {"reading", "writing"}
  /\ state' = [state EXCEPT ![t] = "idle"]

Next ==
  \E t \in Threads :
    AskRead(t) \/ AskWrite(t) \/ GrantRead(t) \/ GrantWrite(t) \/ Release(t)

Safety == Init /\ [][Next]_state

\* While writers ask for a free lock, some writer gets it.
GrantSomeWriter ==
  In("askWrite") # {} /\ \E t \in Threads : GrantWrite(t)

Spec == Safety /\ WF_state(GrantSomeWriter)
=============================================================================
