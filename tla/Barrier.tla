-------------------------------- MODULE Barrier --------------------------------
(***************************************************************************)
(* pthread_barrier_wait (src/pthread_barrier.c) over the condition         *)
(* variable of src/pthread.c, whose steps are part of this model, and over *)
(* a mutex taken and released in one step, as AbstractLock allows.         *)
(***************************************************************************)
EXTENDS Futex

CONSTANT Count  \* the count given to pthread_barrier_init, which refuses 0

ASSUME CountAssumption == Count \in Nat \ {0}

VARIABLES
  holder,   \* who holds barrier->lock
  waiting,  \* barrier->waiting
  phase,    \* barrier->phase, an unsigned whose wrap is out of reach here
  seq,      \* barrier->cond.seq
  pc,
  myphase,  \* the local phase
  saved,    \* the local seq of pthread_cond_wait
  calls

vars == <<holder, waiting, phase, seq, pc, myphase, saved, calls>>

Init ==
  /\ holder = NoThread
  /\ waiting = 0 /\ phase = 0 /\ seq = 0
  /\ pc = [t \in Threads |-> "idle"]
  /\ myphase = [t \in Threads |-> 0]
  /\ saved = [t \in Threads |-> 0]
  /\ calls = [t \in Threads |-> 0]

(* A step from label l to m that does not touch the lock. *)
Step(t, l, m) == pc[t] = l /\ pc' = [pc EXCEPT ![t] = m] /\ UNCHANGED <<holder, calls>>

Lock(t, l, m) ==
  /\ pc[t] = l /\ holder = NoThread
  /\ holder' = t
  /\ pc' = [pc EXCEPT ![t] = m]
  /\ UNCHANGED <<waiting, phase, seq, myphase, saved, calls>>

Unlock(t, l, m) ==
  /\ pc[t] = l
  /\ holder' = NoThread
  /\ pc' = [pc EXCEPT ![t] = m]
  /\ UNCHANGED <<waiting, phase, seq, myphase, saved, calls>>
-----------------------------------------------------------------------------
Call(t) ==
  /\ pc[t] = "idle" /\ calls[t] < MaxCalls
  /\ calls' = [calls EXCEPT ![t] = @ + 1]
  /\ pc' = [pc EXCEPT ![t] = "enter"]
  /\ UNCHANGED <<holder, waiting, phase, seq, myphase, saved>>

Enter(t) == Lock(t, "enter", "phase")

LoadPhase(t) ==
  /\ Step(t, "phase", "add")
  /\ myphase' = [myphase EXCEPT ![t] = phase]
  /\ UNCHANGED <<waiting, phase, seq, saved>>

(* w == barrier->count makes the caller the last of its group. *)
Add(t) ==
  /\ Step(t, "add", IF waiting + 1 = Count THEN "reset" ELSE "test")
  /\ waiting' = waiting + 1
  /\ UNCHANGED <<phase, seq, myphase, saved>>

(* Variant: the counter is not reset for the next group. *)
ResetNot(t) ==
  /\ Step(t, "reset", "advance")
  /\ UNCHANGED <<waiting, phase, seq, myphase, saved>>

Reset(t) ==
  /\ Step(t, "reset", "advance")
  /\ waiting' = 0
  /\ UNCHANGED <<phase, seq, myphase, saved>>

AdvancePhase(t) ==
  /\ Step(t, "advance", "signal")
  /\ phase' = phase + 1
  /\ UNCHANGED <<waiting, seq, myphase, saved>>

(* pthread_cond_broadcast: the new sequence number, then the wakeup. *)
BroadcastSeq(t) ==
  /\ Step(t, "signal", "wake")
  /\ seq' = seq + 1
  /\ UNCHANGED <<waiting, phase, myphase, saved>>

(* Variant: pthread_cond_signal in place of the broadcast. *)
WakeOne(t) ==
  /\ pc[t] = "wake"
  /\ \/ \E s \in Threads : pc[s] = "asleep" /\ pc' = [pc EXCEPT ![t] = "last", ![s] = "loop"]
     \/ (\A s \in Threads : pc[s] # "asleep") /\ pc' = [pc EXCEPT ![t] = "last"]
  /\ UNCHANGED <<holder, waiting, phase, seq, myphase, saved, calls>>

BroadcastWake(t) ==
  /\ pc[t] = "wake"
  /\ pc' = [s \in Threads |-> IF s = t THEN "last"
                              ELSE IF pc[s] = "asleep" THEN "loop" ELSE pc[s]]
  /\ UNCHANGED <<holder, waiting, phase, seq, myphase, saved, calls>>

LeaveSerial(t) == Unlock(t, "last", "idle")

(* Variant: one wakeup is taken for the end of the phase. *)
TestOnce(t) ==
  /\ Step(t, "test", IF myphase[t] = phase /\ seq = saved[t] THEN "load" ELSE "leave")
  /\ UNCHANGED <<waiting, phase, seq, myphase, saved>>

(* while (phase == barrier->phase) pthread_cond_wait(...) *)
Test(t) ==
  /\ Step(t, "test", IF myphase[t] = phase THEN "load" ELSE "leave")
  /\ UNCHANGED <<waiting, phase, seq, myphase, saved>>

Leave(t) == Unlock(t, "leave", "idle")
-----------------------------------------------------------------------------
(* pthread_cond_wait *)
CondLoad(t) ==
  /\ Step(t, "load", "unlock")
  /\ saved' = [saved EXCEPT ![t] = seq]
  /\ UNCHANGED <<waiting, phase, seq, myphase>>

CondUnlock(t) == Unlock(t, "unlock", "loop")

CondTest(t) ==
  /\ Step(t, "loop", IF seq = saved[t] THEN "wait" ELSE "relock")
  /\ UNCHANGED <<waiting, phase, seq, myphase, saved>>

FutexWait(t) ==
  /\ Step(t, "wait", IF seq = saved[t] THEN "asleep" ELSE "loop")
  /\ UNCHANGED <<waiting, phase, seq, myphase, saved>>

Interrupt(t) ==
  /\ Step(t, "asleep", "loop")
  /\ UNCHANGED <<waiting, phase, seq, myphase, saved>>

CondRelock(t) == Lock(t, "relock", "test")
-----------------------------------------------------------------------------
Progress(t) ==
  \/ Enter(t) \/ LoadPhase(t) \/ Add(t) \/ Reset(t) \/ AdvancePhase(t)
  \/ BroadcastSeq(t) \/ BroadcastWake(t) \/ LeaveSerial(t) \/ Test(t) \/ Leave(t)
  \/ CondLoad(t) \/ CondUnlock(t) \/ CondTest(t) \/ FutexWait(t) \/ CondRelock(t)

Next == \E t \in Threads : Call(t) \/ Progress(t) \/ Interrupt(t)

Spec == Init /\ [][Next]_vars

(* Threads make all the calls they have to make and run on. *)
Fairness == \A t \in Threads : WF_vars(Call(t)) /\ WF_vars(Progress(t))
FairSpec == Spec /\ Fairness
-----------------------------------------------------------------------------
(* The group of the phase that is being assembled: the threads that have   *)
(* been counted in it, up to the phase change made by the last of them.    *)
InLoop == {"test", "load", "unlock", "loop", "wait", "asleep", "relock"}
Serial == {t \in Threads : pc[t] \in {"signal", "wake", "last"}}
Arrived == {t \in Threads : pc[t] \in InLoop /\ myphase[t] = phase}
Released == {t \in Threads : pc[t] = "leave" \/ (pc[t] \in InLoop /\ myphase[t] # phase)}
              \cup Serial

Abstract == INSTANCE AbstractBarrier
              WITH arrived <- Arrived, released <- Released, serial <- Serial

(* pthread_barrier_wait lets exactly Count threads go at a time, nobody    *)
(* before the group is complete, and has one serial thread per group.      *)
ImplementsBarrier == Abstract!Spec

Labels == InLoop \cup {"idle", "enter", "phase", "add", "reset", "advance",
                      "signal", "wake", "last", "leave"}

TypeOK ==
  /\ holder \in Threads \cup {NoThread}
  /\ waiting \in 0 .. Count
  /\ phase \in Nat /\ seq \in Nat
  /\ pc \in [Threads -> Labels]
  /\ myphase \in [Threads -> Nat]
  /\ saved \in [Threads -> Nat]
  /\ calls \in [Threads -> 0 .. MaxCalls]

(* The counter tells how many threads of the current phase are held in     *)
(* pthread_barrier_wait, whenever nobody is inside the critical section.   *)
WaitingExact == holder = NoThread => waiting = Cardinality(Arrived)

(* When the calls come in complete groups every pthread_barrier_wait       *)
(* returns: no thread misses the broadcast, even one that has released the *)
(* lock and not gone to sleep yet.                                         *)
AllReturn == <>(\A t \in Threads : pc[t] = "idle" /\ calls[t] = MaxCalls)
=============================================================================
