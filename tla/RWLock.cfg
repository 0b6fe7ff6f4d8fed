SPECIFICATION LockSpec
CONSTANTS
  Threads = {t1, t2, t3, t4}
INVARIANTS LockTypeOK CountsMatch Exclusion NoLostWakeup
PROPERTIES WritersServed ReadersServedWhenQuiet ImplementsRWLockSpec
