------------------------------ MODULE ThreadKeys ------------------------------
(***************************************************************************)
(* Thread-specific data (src/pthread.c): a table of key slots under        *)
(* key_lock and one array of values per thread.  pthread_setspecific and   *)
(* pthread_getspecific test the slot and touch the value without the lock. *)
(***************************************************************************)
EXTENDS Futex

CONSTANTS KEY_MAX,       \* slots in the table
          Values, Null,  \* what is stored under a key, and NULL
          MaxCreate      \* bound: keys created

Keys == 0 .. KEY_MAX - 1

VARIABLES
  used,    \* slots with a non-NULL key_destructors entry
  value,   \* key_values of each thread
  made,    \* successful pthread_key_create calls
  live,    \* pairs <<key, creation>> of the keys clients may use
  stored,  \* the creation a thread last stored a value for, per slot
  pc, arg  \* a pthread_setspecific between its test and its store

vars == <<used, value, made, live, stored, pc, arg>>

Init ==
  /\ used = {}
  /\ value = [t \in Threads |-> [k \in Keys |-> Null]]
  /\ made = 0
  /\ live = {}
  /\ stored = [t \in Threads |-> [k \in Keys |-> 0]]
  /\ pc = [t \in Threads |-> "idle"]
  /\ arg = [t \in Threads |-> <<0, 0, Null>>]

(* The slot pthread_key_create finds. *)
FirstFree(k) ==
  /\ \A j \in 0 .. k - 1 : j \in used
  /\ k \notin used

KeyCreate(t) ==
  /\ pc[t] = "idle" /\ made < MaxCreate
  /\ \E k \in Keys :
        /\ FirstFree(k)
        /\ used' = used \cup {k}
        /\ live' = live \cup {<<k, made + 1>>}
  /\ made' = made + 1
  /\ UNCHANGED <<value, stored, pc, arg>>

(* Variant: the value of the deleting thread stays as well. *)
KeyDeleteKeeps(t) ==
  /\ pc[t] = "idle"
  /\ \E h \in live : used' = used \ {h[1]} /\ live' = live \ {h}
  /\ UNCHANGED <<value, made, stored, pc, arg>>

(* pthread_key_delete clears the value of the calling thread only. *)
KeyDelete(t) ==
  /\ pc[t] = "idle"
  /\ \E h \in live :
        /\ used' = used \ {h[1]}
        /\ live' = live \ {h}
        /\ value' = [value EXCEPT ![t][h[1]] = Null]
  /\ UNCHANGED <<made, stored, pc, arg>>

(* pthread_setspecific: the test of the slot, then the store. *)
SetTest(t) ==
  /\ pc[t] = "idle"
  /\ \E h \in live, v \in Values :
        /\ h[1] \in used
        /\ arg' = [arg EXCEPT ![t] = <<h[1], h[2], v>>]
  /\ pc' = [pc EXCEPT ![t] = "store"]
  /\ UNCHANGED <<used, value, made, live, stored>>

SetStore(t) ==
  /\ pc[t] = "store"
  /\ value' = [value EXCEPT ![t][arg[t][1]] = arg[t][3]]
  /\ stored' = [stored EXCEPT ![t][arg[t][1]] = arg[t][2]]
  /\ pc' = [pc EXCEPT ![t] = "idle"]
  /\ UNCHANGED <<used, made, live, arg>>

(* What pthread_getspecific returns. *)
Get(t, k) == IF k \in used THEN value[t][k] ELSE Null

Step(t) == KeyCreate(t) \/ KeyDelete(t) \/ SetTest(t) \/ SetStore(t)
Next == \E t \in Threads : Step(t)

Spec == Init /\ [][Next]_vars
-----------------------------------------------------------------------------
(* pthread_key_create never hands out a key that is in use, and every key  *)
(* in use is one that pthread_setspecific accepts.                         *)
KeysDistinct ==
  /\ \A g, h \in live : g[1] = h[1] => g = h
  /\ used = {h[1] : h \in live}

(* A key allocated by pthread_key_create is new: it has no value in a      *)
(* thread that has not stored one through it.                              *)
NewKeyEmpty ==
  \A t \in Threads, h \in live : stored[t][h[1]] # h[2] => Get(t, h[1]) = Null
=============================================================================
