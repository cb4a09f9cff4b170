---------------------------- MODULE AbstractBarrier ----------------------------
(***************************************************************************)
(* What pthread_barrier_wait promises: callers are held until Count of     *)
(* them have arrived; then that group, and nobody else, is let go, and one *)
(* of the group is told that it is the serial thread.                      *)
(***************************************************************************)
EXTENDS Naturals, FiniteSets

CONSTANTS Threads, Count

VARIABLES arrived,   \* threads of the group being assembled
          released,  \* threads let go that have not returned yet
          serial     \* the ones among them that will return as serial thread

Init == arrived = {} /\ released = {} /\ serial = {}

Arrive(t) ==
  /\ t \notin arrived \cup released
  /\ Cardinality(arrived) + 1 < Count
  /\ arrived' = arrived \cup {t}
  /\ UNCHANGED <<released, serial>>

Complete(t) ==
  /\ t \notin arrived \cup released
  /\ Cardinality(arrived) + 1 = Count
  /\ arrived' = {}
  /\ released' = released \cup arrived \cup {t}
  /\ serial' = serial \cup {t}

Depart(t) ==
  /\ t \in released
  /\ released' = released \ {t}
  /\ serial' = serial \ {t}
  /\ UNCHANGED arrived

Next == \E t \in Threads : Arrive(t) \/ Complete(t) \/ Depart(t)

Spec == Init /\ [][Next]_<<arrived, released, serial>>
=============================================================================
