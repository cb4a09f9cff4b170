-------------------------------- MODULE MCWaits --------------------------------
(***************************************************************************)
(* Semaphores and condition variables, one or the other at a time: kind    *)
(* says which is in use.                                                   *)
(***************************************************************************)
EXTENDS Semaphore

CONSTANTS Takers, Timed, Givers  \* the users of the condition variable

ASSUME UsersAssumption ==
  IsFiniteSet(Takers \cup Timed \cup Givers) /\ NoThread \notin Takers \cup Timed \cup Givers

VARIABLES kind, holder, seq, waitq, saved, condLate, tokens, condPc

condVars == <<holder, seq, waitq, saved, condLate, tokens, condPc>>
waitVars == <<kind, vars, condVars>>

Cond == INSTANCE Cond WITH Threads <- Takers \cup Timed \cup Givers,
                           late <- condLate, pc <- condPc

WaitsInit == kind \in {"sem", "cond"} /\ Init /\ Cond!Init

WaitsNext ==
  /\ UNCHANGED kind
  /\ \/ kind = "sem" /\ Next /\ UNCHANGED condVars
     \/ kind = "cond" /\ Cond!Next /\ UNCHANGED vars

WaitsSpec ==
  /\ WaitsInit /\ [][WaitsNext]_waitVars
  /\ Fairness
  /\ \A t \in Takers \cup Timed \cup Givers :
        WF_condVars(kind = "cond" /\ Cond!Progress(t))
  /\ \A t \in Timed : WF_condVars(kind = "cond" /\ Cond!Expire(t))
-----------------------------------------------------------------------------
(* Cond!ReturnsLocked: pthread_cond_wait and _timedwait return with the    *)
(* mutex held, timed out or not.                                           *)
ReturnsLocked == Cond!ReturnsLocked

(* UnitsTaken and Cond!TokensTaken: no sem_post, pthread_cond_signal or    *)
(* _broadcast is lost on a thread that is about to sleep.                  *)
NothingMissed == UnitsTaken /\ Cond!TokensTaken

(* TimedReturns of both: sem_timedwait and pthread_cond_timedwait return.  *)
TimedWaitsReturn == TimedReturns /\ Cond!TimedReturns
=============================================================================
