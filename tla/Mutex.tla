-------------------------------- MODULE Mutex --------------------------------
(***************************************************************************)
(* pthread_mutex_t (src/pthread.c): a futex word "locked", the owner and   *)
(* the recursion count.  Threads call lock, trylock and unlock in any      *)
(* order a correct client may: a normal mutex is not locked again by its   *)
(* holder nor unlocked by another thread (both are undefined), a recursive *)
(* one may be, and reports EPERM to a thread that does not own it.         *)
(***************************************************************************)
EXTENDS Futex

CONSTANT MaxDepth  \* bound: nested acquisitions of a recursive mutex

ASSUME DepthAssumption == MaxDepth \in Nat \ {0}

VARIABLES
  type,       \* mutex->type, which pthread_mutex_init sets for good
  locked,     \* mutex->locked, the futex word
  owner,      \* mutex->owner
  recursion,  \* mutex->recursion
  waitq,      \* threads asleep on mutex->locked
  pc,         \* where each thread is inside the mutex code
  held,       \* the client's view: how often it has locked the mutex
  calls       \* lock and trylock calls made so far

vars == <<type, locked, owner, recursion, waitq, pc, held, calls>>
mutex == <<type, locked, owner, recursion, waitq>>

Recursive == type = "recursive"

Init ==
  /\ type \in {"normal", "recursive"}
  /\ locked = 0
  /\ owner = NoThread
  /\ recursion = 0
  /\ waitq = <<>>
  /\ pc = [t \in Threads |-> "idle"]
  /\ held = [t \in Threads |-> 0]
  /\ calls = [t \in Threads |-> 0]

Goto(t, l) == pc' = [pc EXCEPT ![t] = l]

(* A lock or trylock call a correct client may make now. *)
Call(t) ==
  /\ pc[t] = "idle"
  /\ calls[t] < MaxCalls
  /\ held[t] < (IF Recursive THEN MaxDepth ELSE 1)
  /\ calls' = [calls EXCEPT ![t] = @ + 1]

(* Both calls start with an unsynchronised look at the owner. *)
Relock(t) ==
  /\ Call(t)
  /\ Recursive /\ owner = t
  /\ recursion' = recursion + 1
  /\ held' = [held EXCEPT ![t] = @ + 1]
  /\ UNCHANGED <<type, locked, owner, waitq, pc>>

Lock(t) ==
  /\ Call(t)
  /\ ~(Recursive /\ owner = t)
  /\ Goto(t, "xchg")
  /\ UNCHANGED <<mutex, held>>

(* Variant: a fetch-and-add in place of the exchange. *)
ExchangeAdds(t) ==
  /\ pc[t] = "xchg"
  /\ locked' = locked + 1
  /\ Goto(t, IF locked = 0 THEN "own" ELSE "wait")
  /\ UNCHANGED <<type, owner, recursion, waitq, held, calls>>

Exchange(t) ==
  /\ pc[t] = "xchg"
  /\ locked' = 1
  /\ Goto(t, IF locked = 0 THEN "own" ELSE "wait")
  /\ UNCHANGED <<type, owner, recursion, waitq, held, calls>>

(* Variant: sleeping without comparing the word with 1 first. *)
FutexWaitBlind(t) ==
  /\ pc[t] = "wait"
  /\ waitq' = Enqueue(waitq, t)
  /\ Goto(t, "asleep")
  /\ UNCHANGED <<type, locked, owner, recursion, held, calls>>

FutexWait(t) ==
  /\ pc[t] = "wait"
  /\ IF locked = 1
     THEN waitq' = Enqueue(waitq, t) /\ Goto(t, "asleep")
     ELSE UNCHANGED waitq /\ Goto(t, "xchg")
  /\ UNCHANGED <<type, locked, owner, recursion, held, calls>>

SetOwner(t) ==
  /\ pc[t] = "own"
  /\ owner' = t
  /\ recursion' = 1
  /\ held' = [held EXCEPT ![t] = 1]
  /\ Goto(t, "idle")
  /\ UNCHANGED <<type, locked, waitq, calls>>

TryLock(t) ==
  /\ Call(t)
  /\ ~(Recursive /\ owner = t)
  /\ IF locked = 0 THEN locked' = 1 /\ Goto(t, "own")
                   ELSE UNCHANGED <<locked, pc>>
  /\ UNCHANGED <<type, owner, recursion, waitq, held>>

(* EPERM: the thread does not own the recursive mutex. *)
UnlockRefused(t) ==
  /\ pc[t] = "idle"
  /\ Recursive /\ owner # t
  /\ calls[t] < MaxCalls
  /\ calls' = [calls EXCEPT ![t] = @ + 1]
  /\ UNCHANGED <<mutex, pc, held>>

UnlockNested(t) ==
  /\ pc[t] = "idle"
  /\ Recursive /\ owner = t /\ recursion > 1
  /\ recursion' = recursion - 1
  /\ held' = [held EXCEPT ![t] = @ - 1]
  /\ UNCHANGED <<type, locked, owner, waitq, pc, calls>>

(* Variant: the recursion count is left alone by an inner unlock. *)
UnlockUncounted(t) ==
  /\ pc[t] = "idle"
  /\ IF Recursive THEN owner = t ELSE held[t] > 0
  /\ owner' = NoThread
  /\ recursion' = 0
  /\ held' = [held EXCEPT ![t] = IF @ > 0 THEN @ - 1 ELSE 0]
  /\ Goto(t, "store")
  /\ UNCHANGED <<type, locked, waitq, calls>>

(* The owner is cleared before the word is, so that the next holder's own  *)
(* assignment to it cannot be overwritten.                                 *)
Unlock(t) ==
  /\ pc[t] = "idle"
  /\ IF Recursive THEN owner = t /\ recursion = 1 ELSE held[t] > 0
  /\ owner' = NoThread
  /\ recursion' = 0
  /\ held' = [held EXCEPT ![t] = 0]
  /\ Goto(t, "store")
  /\ UNCHANGED <<type, locked, waitq, calls>>

Store(t) ==
  /\ pc[t] = "store"
  /\ locked' = 0
  /\ Goto(t, "wake")
  /\ UNCHANGED <<type, owner, recursion, waitq, held, calls>>

(* Variant: the owner is cleared after the word. *)
WakeThenDisown(t) ==
  /\ pc[t] = "wake"
  /\ owner' = NoThread
  /\ waitq' = AfterWake(waitq, 1)
  /\ pc' = [Move(pc, Woken(waitq, 1), "xchg") EXCEPT ![t] = "idle"]
  /\ UNCHANGED <<type, locked, recursion, held, calls>>

Wake(t) ==
  /\ pc[t] = "wake"
  /\ waitq' = AfterWake(waitq, 1)
  /\ pc' = [Move(pc, Woken(waitq, 1), "xchg") EXCEPT ![t] = "idle"]
  /\ UNCHANGED <<type, locked, owner, recursion, held, calls>>

(* futex_wait returns early on a signal; the loop tries again. *)
Interrupt(t) ==
  /\ pc[t] = "asleep"
  /\ waitq' = Dequeue(waitq, t)
  /\ Goto(t, "xchg")
  /\ UNCHANGED <<type, locked, owner, recursion, held, calls>>

(* The steps of a call in progress, and the end of a critical section. *)
Progress(t) ==
  \/ Exchange(t) \/ FutexWait(t) \/ SetOwner(t)
  \/ UnlockNested(t) \/ Unlock(t) \/ Store(t) \/ Wake(t)

Next == \E t \in Threads :
  \/ Relock(t) \/ Lock(t) \/ TryLock(t) \/ UnlockRefused(t)
  \/ Progress(t) \/ Interrupt(t)

Spec == Init /\ [][Next]_vars

(* Every runnable thread is scheduled, and critical sections end.  Nothing *)
(* obliges a thread to call lock, or a signal to arrive.                   *)
Fairness == \A t \in Threads : WF_vars(Progress(t))
FairSpec == Spec /\ Fairness
-----------------------------------------------------------------------------
TypeOK ==
  /\ type \in {"normal", "recursive"}
  /\ locked \in {0, 1}
  /\ owner \in Threads \cup {NoThread}
  /\ recursion \in 0..MaxDepth
  /\ waitq \in Seq(Threads)
  /\ pc \in [Threads -> {"idle", "xchg", "wait", "asleep", "own", "store", "wake"}]
  /\ held \in [Threads -> 0..MaxDepth]
  /\ calls \in [Threads -> 0..MaxCalls]

(* The thread is between winning the exchange and clearing the word. *)
Inside(t) == held[t] > 0 \/ pc[t] \in {"own", "store"}

(* Two threads are never between a successful exchange (or CAS) in         *)
(* pthread_mutex_lock/trylock and the release store in _unlock together.   *)
MutualExclusion == \A t, u \in Threads : Inside(t) /\ Inside(u) => t = u

(* mutex->owner and mutex->recursion describe the holder exactly whenever  *)
(* a client can observe them: a recursive relock or an EPERM check by any  *)
(* thread decides on the truth, however unlock and lock of others overlap. *)
OwnerAccurate ==
  /\ \A t \in Threads : held[t] > 0 => owner = t /\ recursion = held[t]
  /\ \A t \in Threads : owner = t => held[t] > 0

(* No lost wakeup: while a thread sleeps on the word, some thread is bound *)
(* to look at the queue again: one inside the lock, one about to wake, or  *)
(* one that will retry the exchange.                                       *)
SleeperHasRescuer ==
  (\E s \in Threads : pc[s] = "asleep") =>
     \E t \in Threads : Inside(t) \/ pc[t] \in {"wake", "xchg", "wait"}

(* Every pthread_mutex_lock call returns, if critical sections end. *)
LockReturns == \A t \in Threads : pc[t] = "xchg" ~> held[t] > 0

(* The lock as its clients see it: pthread_mutex_lock and _unlock take and *)
(* give back an atomic lock (AbstractLock) held from exchange to store.    *)
holder == IF \E t \in Threads : Inside(t)
          THEN CHOOSE t \in Threads : Inside(t) ELSE NoThread
Abstract == INSTANCE AbstractLock
ImplementsLock == Abstract!Spec
=============================================================================
