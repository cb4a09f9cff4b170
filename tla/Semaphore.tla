------------------------------- MODULE Semaphore -------------------------------
(***************************************************************************)
(* sem_t (src/semaphore.c, and sem_timedwait of src/semaphore_named.c): an *)
(* atomic int that is also the futex word its waiters sleep on.  Every     *)
(* sem_post wakes at most one of them; which one is the kernel's choice.   *)
(***************************************************************************)
EXTENDS Futex

CONSTANTS Initial,  \* the value given to sem_init
          IntMax,   \* INT_MAX
          SemCalls  \* bound: calls made by all threads together

(* The counter cannot reach INT_MAX in the calls considered. *)
ASSUME IntAssumption ==
  IntMax \in Nat /\ Initial \in Nat /\ SemCalls \in Nat /\ Initial + SemCalls <= IntMax

VARIABLES
  count,    \* sem->count
  pc,
  op,       \* the call a thread is in
  val,      \* its local val
  late,     \* the abstime of its sem_timedwait has passed
  calls,    \* calls begun
  posted,   \* sem_posts that incremented the counter
  acquired  \* calls that decremented it

vars == <<count, pc, op, val, late, calls, posted, acquired>>

Init ==
  /\ count = Initial
  /\ pc = [t \in Threads |-> "idle"]
  /\ op = [t \in Threads |-> "wait"]
  /\ val = [t \in Threads |-> 0]
  /\ late = [t \in Threads |-> FALSE]
  /\ calls = 0
  /\ posted = 0
  /\ acquired = 0

Goto(t, l) == pc' = [pc EXCEPT ![t] = l]

Begin(t) == /\ pc[t] = "idle" /\ calls < SemCalls
            /\ calls' = calls + 1

(* A signed atomic wraps from INT_MAX to INT_MIN. *)
Increment(n) == IF n = IntMax THEN -IntMax - 1 ELSE n + 1
-----------------------------------------------------------------------------
(* sem_wait, sem_trywait and sem_timedwait, whose abstime may be past. *)
Call(t, o, passed) ==
  /\ Begin(t)
  /\ op' = [op EXCEPT ![t] = o]
  /\ late' = [late EXCEPT ![t] = passed /\ o = "timed"]
  /\ Goto(t, "load")
  /\ UNCHANGED <<count, val, posted, acquired>>

(* Where a call goes that has not got the semaphore. *)
Failed(t) == CASE op[t] = "wait"  -> "block"
               [] op[t] = "try"   -> "idle"
               [] op[t] = "timed" -> "clock"

Load(t) ==
  /\ pc[t] = "load"
  /\ val' = [val EXCEPT ![t] = count]
  /\ Goto(t, IF count > 0 THEN "cas" ELSE Failed(t))
  /\ UNCHANGED <<count, op, late, calls, posted, acquired>>

(* Variant: the decrement is a plain store of the value read before. *)
ExchangeStores(t) ==
  /\ pc[t] = "cas"
  /\ count' = val[t] - 1
  /\ acquired' = acquired + 1
  /\ Goto(t, "idle")
  /\ UNCHANGED <<op, val, late, calls, posted>>

Exchange(t) ==
  /\ pc[t] = "cas" /\ count = val[t]
  /\ count' = val[t] - 1
  /\ acquired' = acquired + 1
  /\ Goto(t, "idle")
  /\ UNCHANGED <<op, val, late, calls, posted>>

(* The weak compare-and-swap fails, for a new value or spuriously.         *)
(* sem_wait goes to the futex; sem_trywait goes on with the value it met.  *)
ExchangeFails(t) ==
  /\ pc[t] = "cas"
  /\ val' = [val EXCEPT ![t] = count]
  /\ Goto(t, IF op[t] # "wait" /\ count > 0 THEN "cas" ELSE Failed(t))
  /\ UNCHANGED <<count, op, late, calls, posted, acquired>>

(* sem_timedwait: ETIMEDOUT, or on to the futex. *)
Clock(t) ==
  /\ pc[t] = "clock"
  /\ Goto(t, IF late[t] THEN "idle" ELSE "block")
  /\ UNCHANGED <<count, op, val, late, calls, posted, acquired>>

(* Variant: the sleep without the comparison of the futex word. *)
BlockBlind(t) ==
  /\ pc[t] = "block"
  /\ Goto(t, "asleep")
  /\ UNCHANGED <<count, op, val, late, calls, posted, acquired>>

(* futex_wait(&sem->count, 0, ...) *)
Block(t) ==
  /\ pc[t] = "block"
  /\ Goto(t, IF count = 0 THEN "asleep" ELSE "load")
  /\ UNCHANGED <<count, op, val, late, calls, posted, acquired>>

(* The sleep ends without a sem_post: a signal, or the timeout. *)
Interrupt(t) ==
  /\ pc[t] = "asleep"
  /\ Goto(t, "load")
  /\ UNCHANGED <<count, op, val, late, calls, posted, acquired>>

(* Variant: the timeout is not passed to the futex. *)
NoTimeout(t) == FALSE

Timeout(t) == late[t] /\ Interrupt(t)

Expire(t) ==
  /\ op[t] = "timed" /\ pc[t] # "idle" /\ ~late[t]
  /\ late' = [late EXCEPT ![t] = TRUE]
  /\ UNCHANGED <<count, pc, op, val, calls, posted, acquired>>
-----------------------------------------------------------------------------
(* sem_post *)
Post(t) ==
  /\ Begin(t)
  /\ count' = Increment(count)
  /\ posted' = posted + 1
  /\ Goto(t, "wake")
  /\ UNCHANGED <<op, val, late, acquired>>

(* futex_wake(&sem->count, 1) *)
Wake(t) ==
  /\ pc[t] = "wake"
  /\ \/ \E s \in Threads : pc[s] = "asleep" /\ pc' = [pc EXCEPT ![s] = "load", ![t] = "idle"]
     \/ (\A s \in Threads : pc[s] # "asleep") /\ Goto(t, "idle")
  /\ UNCHANGED <<count, op, val, late, calls, posted, acquired>>
-----------------------------------------------------------------------------
(* The steps a thread takes by itself once it is in a call. *)
Progress(t) == Load(t) \/ Exchange(t) \/ ExchangeFails(t) \/ Clock(t) \/ Block(t) \/ Timeout(t) \/ Wake(t)

Next ==
  \E t \in Threads :
     \/ \E o \in {"wait", "try", "timed"}, passed \in BOOLEAN : Call(t, o, passed)
     \/ Post(t)
     \/ Progress(t)
     \/ Interrupt(t)
     \/ Expire(t)

Spec == Init /\ [][Next]_vars

(* Threads run and time passes.  A compare-and-swap tried again and again  *)
(* does not fail for ever.  Nobody has to call, and no signal to arrive.   *)
Fairness == \A t \in Threads :
  WF_vars(Progress(t)) /\ SF_vars(Exchange(t)) /\ WF_vars(Expire(t))
FairSpec == Spec /\ Fairness
-----------------------------------------------------------------------------
Labels == {"idle", "load", "cas", "clock", "block", "asleep", "wake"}

TypeOK ==
  /\ count \in -IntMax - 1 .. IntMax
  /\ pc \in [Threads -> Labels]
  /\ op \in [Threads -> {"wait", "try", "timed"}]
  /\ val \in [Threads -> Int]
  /\ \A t \in Threads : pc[t] = "cas" => val[t] > 0
  /\ late \in [Threads -> BOOLEAN]
  /\ calls \in 0 .. SemCalls
  /\ posted \in Nat
  /\ acquired \in Nat

(* Every post is worth exactly one acquisition: sem_post, sem_wait,        *)
(* sem_trywait and sem_timedwait neither lose nor invent units, and never  *)
(* take one that is not there.                                             *)
Conservation == count = Initial + posted - acquired /\ count >= 0

(* Threads that have yet to wake a sleeper or to look at the count again. *)
Active == {t \in Threads : pc[t] \in {"wake", "load", "cas", "block"}}

(* No sem_post is lost on a sleeper: while somebody sleeps on the count,   *)
(* each unit that is there has a thread of its own that will take it or    *)
(* wake a sleeper for it.                                                  *)
UnitsAttended ==
  (\E t \in Threads : pc[t] = "asleep") => count <= Cardinality(Active)

(* sem_wait does not sleep for ever beside a positive count. *)
UnitsTaken == <>[](count = 0 \/ \A t \in Threads : pc[t] # "asleep")

(* sem_timedwait returns, with a unit or when abstime has passed. *)
TimedReturns == \A t \in Threads : op[t] = "timed" /\ pc[t] # "idle" ~> pc[t] = "idle"
=============================================================================
