--------------------------------- MODULE Cond ---------------------------------
(***************************************************************************)
(* pthread_cond_t (src/pthread.c): a sequence number used as futex word.   *)
(* The mutex that goes with it is the atomic lock of AbstractLock, which   *)
(* LocksProofs shows pthread_mutex_t to implement.  The client is a        *)
(* monitor: takers wait for a token under the mutex, givers add one and    *)
(* signal or broadcast, with the mutex still held or after releasing it.   *)
(***************************************************************************)
EXTENDS Futex

CONSTANTS Takers,  \* threads that call pthread_cond_wait,
          Timed,   \* pthread_cond_timedwait,
          Givers   \* and pthread_cond_signal or _broadcast

Waiting == Takers \cup Timed

VARIABLES
  holder,  \* who holds the mutex
  seq,     \* cond->seq; an int whose wrap-around is out of reach here
  waitq,   \* threads asleep on cond->seq
  saved,   \* the local seq of a waiting thread
  late,    \* abstime of a timed waiter has passed
  tokens,  \* what the takers wait for
  pc

vars == <<holder, seq, waitq, saved, late, tokens, pc>>

Init ==
  /\ holder = NoThread
  /\ seq = 0
  /\ waitq = <<>>
  /\ saved = [t \in Waiting |-> 0]
  /\ late = [t \in Timed |-> FALSE]
  /\ tokens = 0
  /\ pc = [t \in Threads |-> "start"]

Goto(t, l) == pc' = [pc EXCEPT ![t] = l]

(* pthread_mutex_lock and _unlock around the move from label l to m. *)
Locking(t, l, m) ==
  /\ pc[t] = l /\ holder = NoThread
  /\ holder' = t
  /\ Goto(t, m)
  /\ UNCHANGED <<seq, waitq, saved, late, tokens>>

Unlocking(t, l, m) ==
  /\ pc[t] = l
  /\ holder' = NoThread
  /\ Goto(t, m)
  /\ UNCHANGED <<seq, waitq, saved, late, tokens>>

-----------------------------------------------------------------------------
(* The client's loop: while (tokens == 0) pthread_cond_wait(cond, mutex) *)
Enter(t) == t \in Waiting /\ Locking(t, "start", "test")

Test(t) ==
  /\ pc[t] = "test"
  /\ IF tokens > 0 THEN tokens' = tokens - 1 /\ Goto(t, "leave")
                   ELSE UNCHANGED tokens /\ Goto(t, "load")
  /\ UNCHANGED <<holder, seq, waitq, saved, late>>

Leave(t) == t \in Waiting /\ Unlocking(t, "leave", "done")
-----------------------------------------------------------------------------
(* pthread_cond_wait and pthread_cond_timedwait *)
LoadSeq(t) ==
  /\ pc[t] = "load"
  /\ saved' = [saved EXCEPT ![t] = seq]
  /\ Goto(t, "unlock")
  /\ UNCHANGED <<holder, seq, waitq, late, tokens>>

WaitUnlock(t) == t \in Waiting /\ Unlocking(t, "unlock", "loop")

Compare(t) ==
  /\ pc[t] = "loop"
  /\ Goto(t, IF seq # saved[t] THEN "relock"
             ELSE IF t \in Timed THEN "clock" ELSE "wait")
  /\ UNCHANGED <<holder, seq, waitq, saved, late, tokens>>

(* Variant: a timed-out wait returns without the mutex. *)
ClockUnlocked(t) ==
  /\ pc[t] = "clock"
  /\ Goto(t, IF late[t] THEN "leave" ELSE "wait")
  /\ UNCHANGED <<holder, seq, waitq, saved, late, tokens>>

(* The timed version compares the time with abstime before it sleeps. *)
Clock(t) ==
  /\ pc[t] = "clock"
  /\ Goto(t, IF late[t] THEN "expired" ELSE "wait")
  /\ UNCHANGED <<holder, seq, waitq, saved, late, tokens>>

(* Variant: the sleep without the comparison of the futex word. *)
FutexWaitBlind(t) ==
  /\ pc[t] = "wait"
  /\ waitq' = Enqueue(waitq, t)
  /\ Goto(t, "asleep")
  /\ UNCHANGED <<holder, seq, saved, late, tokens>>

FutexWait(t) ==
  /\ pc[t] = "wait"
  /\ IF seq = saved[t] THEN waitq' = Enqueue(waitq, t) /\ Goto(t, "asleep")
                       ELSE UNCHANGED waitq /\ Goto(t, "loop")
  /\ UNCHANGED <<holder, seq, saved, late, tokens>>

(* A signal, or the timeout given to FUTEX_WAIT, ends the sleep early. *)
Interrupt(t) ==
  /\ pc[t] = "asleep"
  /\ waitq' = Dequeue(waitq, t)
  /\ Goto(t, "loop")
  /\ UNCHANGED <<holder, seq, saved, late, tokens>>

Timeout(t) == t \in Timed /\ late[t] /\ Interrupt(t)

Relock(t) == t \in Waiting /\ Locking(t, "relock", "test")

(* ETIMEDOUT: the taker gives up, with the mutex held again. *)
RelockExpired(t) == t \in Timed /\ Locking(t, "expired", "leave")

(* The real-time clock reaches abstime. *)
Expire(t) ==
  /\ t \in Timed /\ ~late[t]
  /\ late' = [late EXCEPT ![t] = TRUE]
  /\ UNCHANGED <<holder, seq, waitq, saved, tokens, pc>>
-----------------------------------------------------------------------------
(* A giver: lock, add a token, then signal and unlock in either order. *)
Give(t) == Locking(t, "start", "give")

AddToken(t) ==
  /\ pc[t] = "give"
  /\ tokens' = tokens + 1
  /\ \/ holder' = holder /\ Goto(t, "inside")
     \/ holder' = NoThread /\ Goto(t, "outside")
  /\ UNCHANGED <<seq, waitq, saved, late>>

(* pthread_cond_signal and _broadcast: first the sequence number. *)
Advance(t, l, m) ==
  /\ pc[t] = l
  /\ seq' = seq + 1
  /\ Goto(t, m)
  /\ UNCHANGED <<holder, waitq, saved, late, tokens>>

AdvanceInside(t) == Advance(t, "inside", "wake_inside")
AdvanceOutside(t) == Advance(t, "outside", "wake_outside")

(* ... then FUTEX_WAKE of n threads. *)
Wake(t, n) ==
  /\ pc[t] \in {"wake_inside", "wake_outside"}
  /\ waitq' = AfterWake(waitq, n)
  /\ pc' = [Move(pc, Woken(waitq, n), "loop")
             EXCEPT ![t] = IF pc[t] = "wake_inside" THEN "release" ELSE "done"]
  /\ UNCHANGED <<holder, seq, saved, late, tokens>>

Signal(t) == Wake(t, 1)
Broadcast(t) == Wake(t, Len(waitq))

Release(t) == t \in Givers /\ Unlocking(t, "release", "done")
-----------------------------------------------------------------------------
Progress(t) ==
  \/ Enter(t) \/ Test(t) \/ Leave(t)
  \/ LoadSeq(t) \/ WaitUnlock(t) \/ Compare(t) \/ Clock(t)
  \/ FutexWait(t) \/ Timeout(t)
  \/ Relock(t) \/ RelockExpired(t)
  \/ AddToken(t) \/ AdvanceInside(t) \/ AdvanceOutside(t)
  \/ Signal(t) \/ Broadcast(t) \/ Release(t)

Next ==
  \/ \E t \in Threads : Progress(t)
  \/ \E t \in Givers : Give(t)
  \/ \E t \in Waiting : Interrupt(t)
  \/ \E t \in Timed : Expire(t)

Spec == Init /\ [][Next]_vars

(* Runnable threads run and time passes; nobody has to give a token, and   *)
(* signals need never arrive.                                              *)
Fairness == /\ \A t \in Threads : WF_vars(Progress(t))
            /\ \A t \in Timed : WF_vars(Expire(t))
FairSpec == Spec /\ Fairness
-----------------------------------------------------------------------------
TypeOK ==
  /\ holder \in Threads \cup {NoThread}
  /\ seq \in Nat
  /\ waitq \in Seq(Waiting)
  /\ saved \in [Waiting -> Nat]
  /\ late \in [Timed -> BOOLEAN]
  /\ tokens \in Nat
  /\ pc \in [Threads -> {"start", "test", "leave", "done", "load", "unlock", "loop",
                         "clock", "wait", "asleep", "relock", "expired", "give", "inside",
                         "outside", "wake_inside", "wake_outside", "release"}]

(* pthread_cond_wait and _timedwait return, on success and on ETIMEDOUT,   *)
(* with the mutex held by the caller and by nobody else.                   *)
ReturnsLocked ==
  \A t \in Waiting : pc[t] \in {"test", "leave", "load", "unlock"} => holder = t

(* No wakeup is lost between the unlock and the sleep of a waiter: in the  *)
(* end no token is left beside a thread that waits for one.                *)
TokensTaken == <>[](tokens = 0 \/ \A t \in Waiting : pc[t] = "done")

(* pthread_cond_timedwait returns: by a signal or when abstime has passed. *)
TimedReturns == \A t \in Timed : pc[t] = "load" ~> pc[t] \in {"test", "leave"}
=============================================================================
