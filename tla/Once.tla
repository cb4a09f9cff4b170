--------------------------------- MODULE Once ---------------------------------
(***************************************************************************)
(* pthread_once (src/pthread.c): a flag per control object, tested without *)
(* and again with the one once_lock of the process, which is held while    *)
(* the initialisation routine runs.  A routine may itself call             *)
(* pthread_once on another control object.                                 *)
(***************************************************************************)
EXTENDS Futex

CONSTANTS Controls,   \* pthread_once_t objects
          NoControl   \* none

VARIABLES
  inner,      \* the control a routine initialises in turn, or NoControl
  done,       \* once_control->done
  holder,     \* who holds once_lock
  runs,       \* how often the routine of a control was started
  completed,  \* controls whose routine has run to its end
  returned,   \* controls some pthread_once has returned for
  stack,      \* the controls a thread is in pthread_once for, innermost first
  pc

vars == <<inner, done, holder, runs, completed, returned, stack, pc>>

Init ==
  /\ inner \in [Controls -> Controls \cup {NoControl}]
  /\ done = [c \in Controls |-> FALSE]
  /\ holder = NoThread
  /\ runs = [c \in Controls |-> 0]
  /\ completed = {} /\ returned = {}
  /\ stack = [t \in Threads |-> <<>>]
  /\ pc = [t \in Threads |-> "start"]

Top(t) == Head(stack[t])
Goto(t, l) == pc' = [pc EXCEPT ![t] = l]

(* Each thread calls pthread_once once, on a control of its choice. *)
Call(t, c) ==
  /\ pc[t] = "start"
  /\ stack' = [stack EXCEPT ![t] = <<c>>]
  /\ Goto(t, "check")
  /\ UNCHANGED <<inner, done, holder, runs, completed, returned>>

Check(t) ==
  /\ pc[t] = "check"
  /\ Goto(t, IF done[Top(t)] THEN "return" ELSE "lock")
  /\ UNCHANGED <<inner, done, holder, runs, completed, returned, stack>>

Lock(t) ==
  /\ pc[t] = "lock" /\ holder = NoThread
  /\ holder' = t
  /\ Goto(t, "recheck")
  /\ UNCHANGED <<inner, done, runs, completed, returned, stack>>

(* Variant: the flag is set before the routine has run. *)
RecheckSets(t) ==
  /\ pc[t] = "recheck"
  /\ IF done[Top(t)] THEN Goto(t, "unlock") /\ UNCHANGED <<done, runs>>
     ELSE /\ runs' = [runs EXCEPT ![Top(t)] = @ + 1]
          /\ done' = [done EXCEPT ![Top(t)] = TRUE]
          /\ Goto(t, "init")
  /\ UNCHANGED <<inner, holder, completed, returned, stack>>

Recheck(t) ==
  /\ pc[t] = "recheck"
  /\ IF done[Top(t)] THEN Goto(t, "unlock") /\ UNCHANGED runs
     ELSE runs' = [runs EXCEPT ![Top(t)] = @ + 1] /\ Goto(t, "init")
  /\ UNCHANGED <<inner, done, holder, completed, returned, stack>>

(* init_routine(): a nested pthread_once, or straight to its end. *)
Routine(t) ==
  /\ pc[t] = "init"
  /\ IF inner[Top(t)] # NoControl
       THEN stack' = [stack EXCEPT ![t] = <<inner[Top(t)]>> \o @] /\ Goto(t, "check")
       ELSE UNCHANGED stack /\ Goto(t, "end")
  /\ UNCHANGED <<inner, done, holder, runs, completed, returned>>

RoutineEnds(t) ==
  /\ pc[t] = "end"
  /\ completed' = completed \cup {Top(t)}
  /\ Goto(t, "store")
  /\ UNCHANGED <<inner, done, holder, runs, returned, stack>>

Store(t) ==
  /\ pc[t] = "store"
  /\ done' = [done EXCEPT ![Top(t)] = TRUE]
  /\ Goto(t, "unlock")
  /\ UNCHANGED <<inner, holder, runs, completed, returned, stack>>

Unlock(t) ==
  /\ pc[t] = "unlock"
  /\ holder' = NoThread
  /\ Goto(t, "return")
  /\ UNCHANGED <<inner, done, runs, completed, returned, stack>>

(* The return to the client, or into the routine that made the call. *)
Return(t) ==
  /\ pc[t] = "return"
  /\ returned' = returned \cup {Top(t)}
  /\ stack' = [stack EXCEPT ![t] = Tail(@)]
  /\ Goto(t, IF Len(stack[t]) = 1 THEN "done" ELSE "end")
  /\ UNCHANGED <<inner, done, holder, runs, completed>>

Progress(t) ==
  \/ Check(t) \/ Lock(t) \/ Recheck(t) \/ Routine(t) \/ RoutineEnds(t)
  \/ Store(t) \/ Unlock(t) \/ Return(t)

Next == \E t \in Threads : Progress(t) \/ \E c \in Controls : Call(t, c)

Spec == Init /\ [][Next]_vars
Fairness == \A t \in Threads : WF_vars(Progress(t))
FairSpec == Spec /\ Fairness
-----------------------------------------------------------------------------
(* "Ensure that init_routine is executed only once", however many threads  *)
(* meet on the unlocked first test of the flag.                            *)
RunsOnce == \A c \in Controls : runs[c] <= 1

(* When pthread_once returns, the routine has run to its end: a thread     *)
(* that takes the path without the lock never overtakes the initialiser.   *)
ReadyOnReturn == returned \subseteq completed

(* Every pthread_once returns, its routine having run. *)
OnceReturns == \A t \in Threads : pc[t] = "check" ~> pc[t] = "done"
=============================================================================
