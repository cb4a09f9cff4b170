-------------------------------- MODULE RWLock --------------------------------
(***************************************************************************)
(* pthread_rwlock_t (src/pthread_rwlock.c): a count of readers and a       *)
(* writer flag, both futex words.  Readers take and release read holds,    *)
(* writers write holds; a release does not know which kind it releases.    *)
(* Every wakeup of this lock wakes all sleepers, so a futex queue is the   *)
(* set of threads whose label says that they sleep on the word.            *)
(***************************************************************************)
EXTENDS Futex

CONSTANTS Readers,  \* threads that call rdlock
          Writers   \* threads that call wrlock (may overlap Readers)

VARIABLES
  readers,  \* rwlock->readers
  writer,   \* rwlock->writer
  pc,       \* where each thread is inside the lock code
  mode,     \* the client's view: "none", "read" or "write"
  calls     \* lock calls made so far

vars == <<readers, writer, pc, mode, calls>>

Init ==
  /\ readers = 0
  /\ writer = 0
  /\ pc = [t \in Threads |-> "idle"]
  /\ mode = [t \in Threads |-> "none"]
  /\ calls = [t \in Threads |-> 0]

Goto(t, l) == pc' = [pc EXCEPT ![t] = l]

Return(t, m) == /\ Goto(t, "idle")
                /\ mode' = [mode EXCEPT ![t] = m]

Call(t, l) ==
  /\ pc[t] = "idle" /\ mode[t] = "none"
  /\ calls[t] < MaxCalls
  /\ calls' = [calls EXCEPT ![t] = @ + 1]
  /\ Goto(t, l)
  /\ UNCHANGED <<readers, writer, mode>>

(* futex_wait(word, val) from label l: the thread sleeps at label s if the *)
(* word still has the value, and is back at its loop head h otherwise.     *)
FutexWait(t, l, word, val, s, h) ==
  /\ pc[t] = l
  /\ Goto(t, IF word = val THEN s ELSE h)
  /\ UNCHANGED <<readers, writer, mode, calls>>

(* Where the loops of rdlock and wrlock continue after a sleep. *)
Resume(l) == CASE l = "r_asleep" -> "r_load"
               [] l = "w_asleep" -> "w_xchg"
               [] l = "w_sleep"  -> "w_load"
               [] OTHER -> l

-----------------------------------------------------------------------------
(* pthread_rwlock_rdlock *)
RdLock(t) == t \in Readers /\ Call(t, "r_load")

RdLoad(t) ==
  /\ pc[t] = "r_load"
  /\ Goto(t, IF writer = 1 THEN "r_wait" ELSE "r_add")
  /\ UNCHANGED <<readers, writer, mode, calls>>

RdWait(t) == FutexWait(t, "r_wait", writer, 1, "r_asleep", "r_load")

RdAdd(t) ==
  /\ pc[t] = "r_add"
  /\ readers' = readers + 1
  /\ Goto(t, "r_check")
  /\ UNCHANGED <<writer, mode, calls>>

(* Variant: the flag is not looked at again after counting oneself. *)
RdCheckSkipped(t) ==
  /\ pc[t] = "r_check"
  /\ Return(t, "read")
  /\ UNCHANGED <<readers, writer, calls>>

RdCheck(t) ==
  /\ pc[t] = "r_check"
  /\ IF writer = 0 THEN Return(t, "read") ELSE Goto(t, "r_sub") /\ UNCHANGED mode
  /\ UNCHANGED <<readers, writer, calls>>

RdSub(t) ==
  /\ pc[t] = "r_sub"
  /\ readers' = readers - 1
  /\ Goto(t, "r_load")
  /\ UNCHANGED <<writer, mode, calls>>
-----------------------------------------------------------------------------
(* pthread_rwlock_wrlock *)
WrLock(t) == t \in Writers /\ Call(t, "w_xchg")

WrExchange(t) ==
  /\ pc[t] = "w_xchg"
  /\ writer' = 1
  /\ Goto(t, IF writer = 0 THEN "w_load" ELSE "w_wait")
  /\ UNCHANGED <<readers, mode, calls>>

WrWait(t) == FutexWait(t, "w_wait", writer, 1, "w_asleep", "w_xchg")

WrLoad(t) ==
  /\ pc[t] = "w_load"
  /\ IF readers = 0 THEN Return(t, "write") ELSE Goto(t, "w_drain") /\ UNCHANGED mode
  /\ UNCHANGED <<readers, writer, calls>>

(* futex_wait(&readers, 0): sleeps only if the readers are gone by now. *)
WrDrain(t) == FutexWait(t, "w_drain", readers, 0, "w_sleep", "w_load")
-----------------------------------------------------------------------------
(* pthread_rwlock_unlock: the writer flag decides which hold is released,  *)
(* whoever set it.                                                         *)
Unlock(t) ==
  /\ pc[t] = "idle" /\ mode[t] # "none"
  /\ mode' = [mode EXCEPT ![t] = "none"]
  /\ Goto(t, IF writer = 1 THEN "u_store" ELSE "u_sub")
  /\ UNCHANGED <<readers, writer, calls>>

UnlockStore(t) ==
  /\ pc[t] = "u_store"
  /\ writer' = 0
  /\ Goto(t, "u_wakew")
  /\ UNCHANGED <<readers, mode, calls>>

(* Variant: the wakeup is skipped. *)
UnlockWakeNobody(t) ==
  /\ pc[t] = "u_wakew"
  /\ Goto(t, "idle")
  /\ UNCHANGED <<readers, writer, mode, calls>>

UnlockWakeWriter(t) ==
  /\ pc[t] = "u_wakew"
  /\ pc' = [u \in Threads |-> IF u = t THEN "idle"
                              ELSE IF pc[u] \in {"r_asleep", "w_asleep"} THEN Resume(pc[u])
                              ELSE pc[u]]
  /\ UNCHANGED <<readers, writer, mode, calls>>

UnlockSub(t) ==
  /\ pc[t] = "u_sub"
  /\ readers' = readers - 1
  /\ Goto(t, IF readers = 1 THEN "u_waker" ELSE "idle")
  /\ UNCHANGED <<writer, mode, calls>>

UnlockWakeReader(t) ==
  /\ pc[t] = "u_waker"
  /\ pc' = [u \in Threads |-> IF u = t THEN "idle"
                              ELSE IF pc[u] = "w_sleep" THEN Resume(pc[u]) ELSE pc[u]]
  /\ UNCHANGED <<readers, writer, mode, calls>>

(* A signal ends a futex_wait; the loop looks at the word again. *)
Interrupt(t) ==
  /\ pc[t] \in {"r_asleep", "w_asleep", "w_sleep"}
  /\ Goto(t, Resume(pc[t]))
  /\ UNCHANGED <<readers, writer, mode, calls>>
-----------------------------------------------------------------------------
Progress(t) ==
  \/ RdLoad(t) \/ RdWait(t) \/ RdAdd(t) \/ RdCheck(t) \/ RdSub(t)
  \/ WrExchange(t) \/ WrWait(t) \/ WrLoad(t) \/ WrDrain(t)
  \/ Unlock(t) \/ UnlockStore(t) \/ UnlockWakeWriter(t)
  \/ UnlockSub(t) \/ UnlockWakeReader(t)

Next == \E t \in Threads : RdLock(t) \/ WrLock(t) \/ Progress(t) \/ Interrupt(t)

Spec == Init /\ [][Next]_vars

(* Every runnable thread is scheduled and every hold is released. *)
Fairness == \A t \in Threads : WF_vars(Progress(t))
FairSpec == Spec /\ Fairness
-----------------------------------------------------------------------------
Labels == {"idle", "r_load", "r_wait", "r_asleep", "r_add", "r_check", "r_sub",
           "w_xchg", "w_wait", "w_asleep", "w_load", "w_drain", "w_sleep",
           "u_store", "u_wakew", "u_sub", "u_waker"}

TypeOK ==
  /\ readers \in Nat
  /\ writer \in {0, 1}
  /\ pc \in [Threads -> Labels]
  /\ mode \in [Threads -> {"none", "read", "write"}]
  /\ calls \in [Threads -> 0..MaxCalls]

(* pthread_rwlock_wrlock returns only to a thread that shares the lock     *)
(* with nobody, and pthread_rwlock_rdlock never while a writer holds it,   *)
(* however the releases of the two kinds are mixed up.                     *)
Exclusion ==
  \A t, u \in Threads : mode[t] = "write" /\ t # u => mode[u] = "none"

(* The threads the reader count stands for. *)
Counted == {t \in Threads : mode[t] = "read" \/ pc[t] \in {"r_check", "r_sub", "u_sub"}}

(* rwlock->readers counts every thread that holds or is about to hold the  *)
(* lock for reading: a reader is never forgotten while it reads.           *)
ReadersCounted == readers >= Cardinality(Counted)

(* Every pthread_rwlock_wrlock call returns, if holds are released. *)
WriterEnters == \A t \in Writers : pc[t] = "w_xchg" ~> mode[t] = "write"
=============================================================================
