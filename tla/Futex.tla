-------------------------------- MODULE Futex --------------------------------
(***************************************************************************)
(* The futex calls of include/futex.h on Linux.  A futex word has a FIFO   *)
(* queue of sleeping threads.  FUTEX_WAIT compares the word with the       *)
(* expected value and enqueues the caller in one atomic step; FUTEX_WAKE   *)
(* dequeues up to n threads.  The kernel's queue is ordered by priority    *)
(* and by arrival among equals; all threads here have equal priority.      *)
(* The threads and bounds are those of all models of src/pthread*.c and    *)
(* src/semaphore*.c.                                                       *)
(***************************************************************************)
EXTENDS Integers, Sequences, FiniteSets

CONSTANTS
  Threads,   \* the threads of the process
  NoThread,  \* nobody: a free lock has this holder
  MaxCalls   \* bound: calls made by one thread

ASSUME ThreadsAssumption == IsFiniteSet(Threads) /\ NoThread \notin Threads

ASSUME CallsAssumption == MaxCalls \in Nat
-----------------------------------------------------------------------------

(* Thread t sleeps in queue q. *)
Sleeping(q, t) == \E i \in 1..Len(q) : q[i] = t

(* No thread occurs twice in q. *)
Injective(q) == \A i, j \in 1..Len(q) : q[i] = q[j] => i = j

(* futex_wait(addr, val): the queue after t went to sleep on it. *)
Enqueue(q, t) == Append(q, t)

(* futex_wake(addr, n): the threads it wakes, and the queue it leaves. *)
Woken(q, n) == {q[i] : i \in {j \in 1..Len(q) : j <= n}}
AfterWake(q, n) == IF n < Len(q) THEN SubSeq(q, n + 1, Len(q)) ELSE <<>>

(* A signal or a timeout ends the sleep of t: it leaves the queue. *)
Dequeue(q, t) ==
  LET i == CHOOSE i \in 1..Len(q) : q[i] = t
  IN  [j \in 1..(Len(q) - 1) |-> IF j < i THEN q[j] ELSE q[j + 1]]

(* Program counters after the threads of S were moved to label l. *)
Move(pc, S, l) == [t \in DOMAIN pc |-> IF t \in S THEN l ELSE pc[t]]
=============================================================================
