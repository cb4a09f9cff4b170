------------------------------- MODULE SpinLock -------------------------------
(***************************************************************************)
(* pthread_spinlock_t (src/pthread_spin.c): a futex word.  Its waiters     *)
(* sleep rather than spin, and pthread_spin_unlock wakes one of them.      *)
(***************************************************************************)
EXTENDS Futex

VARIABLES
  locked,  \* lock->locked, the futex word
  waitq,   \* threads asleep on it
  pc,
  calls

vars == <<locked, waitq, pc, calls>>

Init ==
  /\ locked = 0
  /\ waitq = <<>>
  /\ pc = [t \in Threads |-> "idle"]
  /\ calls = [t \in Threads |-> 0]

Goto(t, l) == pc' = [pc EXCEPT ![t] = l]

Call(t) ==
  /\ pc[t] = "idle" /\ calls[t] < MaxCalls
  /\ calls' = [calls EXCEPT ![t] = @ + 1]

Lock(t) ==
  /\ Call(t)
  /\ Goto(t, "exchange")
  /\ UNCHANGED <<locked, waitq>>

(* while (atomic_exchange(&lock->locked, 1)) futex_wait(&lock->locked, 1) *)
Exchange(t) ==
  /\ pc[t] = "exchange"
  /\ locked' = 1
  /\ Goto(t, IF locked = 0 THEN "held" ELSE "wait")
  /\ UNCHANGED <<waitq, calls>>

FutexWait(t) ==
  /\ pc[t] = "wait"
  /\ IF locked = 1 THEN waitq' = Enqueue(waitq, t) /\ Goto(t, "asleep")
                   ELSE UNCHANGED waitq /\ Goto(t, "exchange")
  /\ UNCHANGED <<locked, calls>>

(* Variant: the exchange of trylock ignores the value it replaces. *)
TryLockAlways(t) ==
  /\ Call(t)
  /\ locked' = 1
  /\ Goto(t, "held")
  /\ UNCHANGED waitq

(* The strong compare-and-swap decides between 0 and EBUSY. *)
TryLock(t) ==
  /\ Call(t)
  /\ locked' = 1
  /\ Goto(t, IF locked = 0 THEN "held" ELSE "idle")
  /\ UNCHANGED waitq

Unlock(t) ==
  /\ pc[t] = "held"
  /\ locked' = 0
  /\ Goto(t, "wake")
  /\ UNCHANGED <<waitq, calls>>

Wake(t) ==
  /\ pc[t] = "wake"
  /\ waitq' = AfterWake(waitq, 1)
  /\ pc' = [Move(pc, Woken(waitq, 1), "exchange") EXCEPT ![t] = "idle"]
  /\ UNCHANGED <<locked, calls>>

(* A signal handler ends the sleep. *)
Interrupt(t) ==
  /\ pc[t] = "asleep"
  /\ waitq' = Dequeue(waitq, t)
  /\ Goto(t, "exchange")
  /\ UNCHANGED <<locked, calls>>

Progress(t) == Exchange(t) \/ FutexWait(t) \/ Unlock(t) \/ Wake(t)

Next == \E t \in Threads : Lock(t) \/ TryLock(t) \/ Progress(t) \/ Interrupt(t)

Spec == Init /\ [][Next]_vars

(* Threads inside the lock code run on, and holders do unlock. *)
Fairness == \A t \in Threads : WF_vars(Progress(t))
FairSpec == Spec /\ Fairness
-----------------------------------------------------------------------------
TypeOK ==
  /\ locked \in {0, 1}
  /\ waitq \in Seq(Threads)
  /\ pc \in [Threads -> {"idle", "exchange", "wait", "asleep", "held", "wake"}]
  /\ calls \in [Threads -> 0 .. MaxCalls]

Holders == {t \in Threads : pc[t] = "held"}

holder == IF Holders = {} THEN NoThread ELSE CHOOSE t \in Holders : TRUE

Abstract == INSTANCE AbstractLock

(* pthread_spin_lock, _trylock and _unlock are a lock: one holder at a     *)
(* time, and the lock passes from one to the next only through an unlock.  *)
ImplementsLock == Abstract!Spec

(* The sleep inside pthread_spin_lock loses no wakeup: every caller gets   *)
(* the lock, since every holder gives it back.                             *)
LockReturns == \A t \in Threads : pc[t] = "exchange" ~> pc[t] = "held"
=============================================================================
