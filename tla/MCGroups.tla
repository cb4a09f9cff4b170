------------------------------- MODULE MCGroups -------------------------------
(***************************************************************************)
(* Barriers, one-time initialisation and thread-specific keys, one at a    *)
(* time: kind says which is in use.                                        *)
(*   once          pthread_once, with independent and nested routines      *)
(*   keys, single  thread-specific keys, used by all KeyUsers and by one   *)
(***************************************************************************)
EXTENDS Barrier

CONSTANTS Controls, NoControl,  \* the controls of pthread_once
          KeyUsers, Single,     \* the threads that use keys, and one of them
          KEY_MAX, Values, Null, MaxCreate

ASSUME SingleAssumption == Single \in KeyUsers

VARIABLES kind,
          inner, done, onceLock, runs, completed, returned, stack, oncePc,
          used, value, made, live, stored, keyPc, arg

onceVars  == <<inner, done, onceLock, runs, completed, returned, stack, oncePc>>
keyVars   == <<used, value, made, live, stored, keyPc, arg>>
groupVars == <<kind, vars, onceVars, keyVars>>

Once == INSTANCE Once WITH holder <- onceLock, pc <- oncePc
Keys == INSTANCE ThreadKeys WITH Threads <- KeyUsers, pc <- keyPc

GroupsInit ==
  /\ kind \in {"barrier", "once", "keys", "single"}
  /\ Init /\ Once!Init /\ Keys!Init
  /\ kind # "once" => \A c \in Controls : inner[c] = NoControl

GroupsNext ==
  /\ UNCHANGED kind
  /\ \/ kind = "barrier" /\ Next /\ UNCHANGED <<onceVars, keyVars>>
     \/ kind = "once" /\ Once!Next /\ UNCHANGED <<vars, keyVars>>
     \/ kind = "keys" /\ Keys!Next /\ UNCHANGED <<vars, onceVars>>
     \/ kind = "single" /\ Keys!Step(Single) /\ UNCHANGED <<vars, onceVars>>

GroupsSpec ==
  /\ GroupsInit /\ [][GroupsNext]_groupVars
  /\ \A t \in Threads :
        /\ WF_vars(kind = "barrier" /\ Call(t))
        /\ WF_vars(kind = "barrier" /\ Progress(t))
        /\ WF_onceVars(kind = "once" /\ Once!Progress(t))
-----------------------------------------------------------------------------
(* Once!RunsOnce and Once!ReadyOnReturn: "init_routine is executed only    *)
(* once", nested or not, and has ended when pthread_once returns.          *)
OnceExact == Once!RunsOnce /\ Once!ReadyOnReturn

(* ThreadKeys!KeysDistinct: no key of pthread_key_create is in use twice;  *)
(* and ThreadKeys!NewKeyEmpty, for keys used by a single thread.           *)
KeysExact == Keys!KeysDistinct /\ (kind = "single" => Keys!NewKeyEmpty)

(* Every control that a routine initialises in turn has been initialised. *)
InnerDone == \A c \in Controls : inner[c] = NoControl \/ done[inner[c]]

(* Complete groups of pthread_barrier_wait all return, and so does         *)
(* pthread_once for routines that do not call it themselves.  A routine    *)
(* that does blocks on once_lock, which its own thread holds, unless the   *)
(* inner control has been initialised before: then the calls return too.   *)
GroupsReturn ==
  /\ kind = "barrier" ~> \A t \in Threads : pc[t] = "idle" /\ calls[t] = MaxCalls
  /\ \A t \in Threads : kind = "once" /\ InnerDone /\ oncePc[t] = "check" ~> oncePc[t] = "done"
=============================================================================
