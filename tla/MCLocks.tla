-------------------------------- MODULE MCLocks --------------------------------
(***************************************************************************)
(* The locks of the library, one at a time: the initial state chooses a    *)
(* kind of lock, and the threads then use one lock of that kind while the  *)
(* others stay as they are.                                                *)
(*   mutex            pthread_mutex_t, on the variables of Mutex           *)
(*   spin             pthread_spinlock_t                                   *)
(*   shared, writers  pthread_rwlock_t, with readers or without            *)
(***************************************************************************)
EXTENDS Mutex

CONSTANTS Readers, Writers  \* of the read-write lock

VARIABLES kind,
          spinWord, spinQueue, spinPc, spinCalls,
          readers, writer, rwPc, mode, rwCalls

spinVars == <<spinWord, spinQueue, spinPc, spinCalls>>
rwVars   == <<readers, writer, rwPc, mode, rwCalls>>
lockVars == <<kind, vars, spinVars, rwVars>>

Spin   == INSTANCE SpinLock WITH locked <- spinWord, waitq <- spinQueue,
                                 pc <- spinPc, calls <- spinCalls
Shared == INSTANCE RWLock WITH pc <- rwPc, calls <- rwCalls

(* The lock is used by writers only. *)
Writes(t) == Shared!WrLock(t) \/ Shared!Progress(t) \/ Shared!Interrupt(t)

LocksInit ==
  /\ kind \in {"mutex", "spin", "shared", "writers"}
  /\ Init /\ Spin!Init /\ Shared!Init
  /\ kind # "mutex" => type = "normal"

LocksNext ==
  /\ UNCHANGED kind
  /\ \/ kind = "mutex" /\ Next /\ UNCHANGED <<spinVars, rwVars>>
     \/ kind = "spin" /\ Spin!Next /\ UNCHANGED <<vars, rwVars>>
     \/ kind = "shared" /\ Shared!Next /\ UNCHANGED <<vars, spinVars>>
     \/ kind = "writers" /\ (\E t \in Threads : Writes(t)) /\ UNCHANGED <<vars, spinVars>>

(* The fairness of the modules; a lock that is not used enables nothing. *)
LocksSpec ==
  /\ LocksInit /\ [][LocksNext]_lockVars
  /\ Fairness
  /\ Spin!Fairness
  /\ Shared!Fairness
-----------------------------------------------------------------------------
(* RWLock!Exclusion and RWLock!ReadersCounted: beside a writer there is no *)
(* reader and no second writer, and pthread_rwlock_t forgets no reader,    *)
(* although unlock has to guess what it releases.                          *)
Exclusion == Shared!Exclusion /\ Shared!ReadersCounted

(* pthread_spinlock_t is a lock in the same sense as the mutex. *)
SpinImplementsLock == Spin!ImplementsLock

(* Every pthread_mutex_lock and pthread_spin_lock returns, and so does     *)
(* pthread_rwlock_wrlock when the lock is used by writers only: no wake    *)
(* falls between the test of a lock and the sleep.                         *)
LocksReturn ==
  /\ LockReturns
  /\ Spin!LockReturns
  /\ \A t \in Writers : kind = "writers" /\ rwPc[t] = "w_xchg" ~> mode[t] = "write"
=============================================================================
