----------------------------- MODULE AbstractLock -----------------------------
(***************************************************************************)
(* What a lock promises: at most one holder, and only the holder gives the *)
(* lock back.  pthread_mutex_t and pthread_spinlock_t implement it.        *)
(***************************************************************************)
CONSTANTS Threads,  \* the threads that use the lock
          NoThread  \* the holder of a free lock

VARIABLE holder

Init == holder = NoThread

Acquire(t) == /\ holder = NoThread
              /\ holder' = t

Release(t) == /\ holder = t
              /\ holder' = NoThread

Next == \E t \in Threads : Acquire(t) \/ Release(t)

Spec == Init /\ [][Next]_holder
=============================================================================
