----------------------------- MODULE LocksProofs -----------------------------
(***************************************************************************)
(* The locks of the library for any finite set of threads.  The mutex, of  *)
(* either type and with any bounds: it excludes, its owner field is right, *)
(* no wakeup is lost, and it implements AbstractLock.  The spin lock       *)
(* implements it too.  The read-write lock excludes although a reader's    *)
(* release may clear a waiting writer's flag: such a release leaves the    *)
(* reader count too high for good, which keeps every later writer out.     *)
(***************************************************************************)
EXTENDS MCLocks, TLAPS
-----------------------------------------------------------------------------
(* What the futex operations do to the set of sleeping threads, for queues *)
(* in which no thread occurs twice.  Proofs about locks and condition      *)
(* variables use these facts instead of the sequences themselves.          *)

(* An enqueued thread sleeps, everybody else sleeps as before. *)
LEMMA EnqueueFacts ==
  ASSUME NEW S, NEW q \in Seq(S), NEW t \in S, Injective(q), ~Sleeping(q, t)
  PROVE  /\ Enqueue(q, t) \in Seq(S)
         /\ Injective(Enqueue(q, t))
         /\ \A u : Sleeping(Enqueue(q, t), u) <=> Sleeping(q, u) \/ u = t
<1> DEFINE r == Enqueue(q, t)
<1>1. r \in Seq(S) /\ Len(r) = Len(q) + 1 /\ Len(q) \in Nat
  BY DEF Enqueue
<1>2. \A i \in 1..Len(q) : r[i] = q[i]
  BY DEF Enqueue
<1>3. r[Len(q) + 1] = t
  BY DEF Enqueue
<1>4. Injective(r)
  BY <1>1, <1>2, <1>3 DEF Injective, Sleeping
<1>5. \A u : Sleeping(r, u) <=> Sleeping(q, u) \/ u = t
  BY <1>1, <1>2, <1>3 DEF Sleeping
<1> QED BY <1>1, <1>4, <1>5

(* FUTEX_WAKE removes exactly the threads it wakes, and wakes somebody if  *)
(* anybody sleeps.                                                         *)
LEMMA WakeFacts ==
  ASSUME NEW S, NEW q \in Seq(S), NEW n \in Nat, Injective(q)
  PROVE  /\ AfterWake(q, n) \in Seq(S)
         /\ Injective(AfterWake(q, n))
         /\ \A u : Sleeping(AfterWake(q, n), u)
                     <=> Sleeping(q, u) /\ u \notin Woken(q, n)
         /\ \A u \in Woken(q, n) : u \in S /\ Sleeping(q, u)
         /\ n > 0 /\ (\E u : Sleeping(q, u)) => Woken(q, n) # {}
<1> DEFINE r == AfterWake(q, n)
<1>0. Len(q) \in Nat
  OBVIOUS
<1>1. \A u \in Woken(q, n) : u \in S /\ Sleeping(q, u)
  BY <1>0 DEF Woken, Sleeping
<1>2. n > 0 /\ (\E u : Sleeping(q, u)) => Woken(q, n) # {}
  <2> SUFFICES ASSUME n > 0, NEW u, Sleeping(q, u) PROVE q[1] \in Woken(q, n)
    OBVIOUS
  <2> QED BY <1>0 DEF Woken, Sleeping
<1>3. CASE n < Len(q)
  <2>1. r = SubSeq(q, n + 1, Len(q))
    BY <1>3 DEF AfterWake
  <2>2. r \in Seq(S) /\ Len(r) = Len(q) - n
    BY <2>1, <1>0, <1>3
  <2>3. \A i \in 1..Len(r) : r[i] = q[i + n]
    BY <2>1, <2>2, <1>0, <1>3
  <2>4. Injective(r)
    BY <2>2, <2>3, <1>0, <1>3 DEF Injective
  <2>5. ASSUME NEW u, Sleeping(r, u) PROVE Sleeping(q, u) /\ u \notin Woken(q, n)
    <3>1. PICK i \in 1..Len(r) : r[i] = u
      BY <2>5 DEF Sleeping
    <3>2. i + n \in 1..Len(q) /\ q[i + n] = u
      BY <3>1, <2>2, <2>3, <1>0, <1>3
    <3> QED BY <3>1, <3>2, <1>0 DEF Sleeping, Woken, Injective
  <2>6. ASSUME NEW u, Sleeping(q, u), u \notin Woken(q, n) PROVE Sleeping(r, u)
    <3>1. PICK i \in 1..Len(q) : q[i] = u
      BY <2>6 DEF Sleeping
    <3>2. i > n
      BY <3>1, <2>6, <1>0 DEF Woken
    <3>3. i - n \in 1..Len(r) /\ r[i - n] = u
      BY <3>1, <3>2, <2>2, <2>3, <1>0
    <3> QED BY <3>3 DEF Sleeping
  <2> QED BY <1>1, <1>2, <2>2, <2>4, <2>5, <2>6
<1>4. CASE ~(n < Len(q))
  <2>1. r = <<>>
    BY <1>4 DEF AfterWake
  <2>2. \A u : Sleeping(q, u) => u \in Woken(q, n)
    BY <1>4, <1>0 DEF Sleeping, Woken
  <2>3. \A u : ~Sleeping(r, u)
    BY <2>1 DEF Sleeping
  <2>4. r \in Seq(S) /\ Injective(r)
    BY <2>1 DEF Injective
  <2> QED BY <1>1, <1>2, <2>2, <2>3, <2>4
<1> QED BY <1>3, <1>4

(* A thread that leaves the queue is awake, the others sleep on. *)
LEMMA DequeueFacts ==
  ASSUME NEW S, NEW q \in Seq(S), NEW t, Injective(q), Sleeping(q, t)
  PROVE  /\ Dequeue(q, t) \in Seq(S)
         /\ Injective(Dequeue(q, t))
         /\ \A u : Sleeping(Dequeue(q, t), u) <=> Sleeping(q, u) /\ u # t
<1> DEFINE i == CHOOSE j \in 1..Len(q) : q[j] = t
           r == Dequeue(q, t)
<1>1. i \in 1..Len(q) /\ q[i] = t
  BY DEF Sleeping
<1>2. r = [j \in 1..(Len(q) - 1) |-> IF j < i THEN q[j] ELSE q[j + 1]]
  BY DEF Dequeue
<1> HIDE DEF i, r
<1>3. Len(q) \in Nat /\ Len(q) - 1 \in Nat
  BY <1>1
<1>4. r \in Seq(S) /\ Len(r) = Len(q) - 1
  BY <1>1, <1>2, <1>3
<1>5. \A j \in 1..Len(r) : r[j] = IF j < i THEN q[j] ELSE q[j + 1]
  BY <1>2, <1>4, Zenon
<1>6. Injective(r)
  <2> SUFFICES ASSUME NEW j \in 1..Len(r), NEW k \in 1..Len(r), r[j] = r[k]
               PROVE  j = k
    BY DEF Injective
  <2> DEFINE At(m) == IF m < i THEN m ELSE m + 1
  <2>1. At(j) \in 1..Len(q) /\ At(k) \in 1..Len(q)
    BY <1>1, <1>3, <1>4
  <2>2. q[At(j)] = q[At(k)]
    BY <1>5
  <2>3. At(j) = At(k)
    BY <2>1, <2>2 DEF Injective
  <2> QED BY <2>3, <1>1, <1>3, <1>4
<1>7. ASSUME NEW u, Sleeping(r, u) PROVE Sleeping(q, u) /\ u # t
  <2>1. PICK j \in 1..Len(r) : r[j] = u
    BY <1>7 DEF Sleeping
  <2>2. CASE j < i
    <3>1. j \in 1..Len(q) /\ q[j] = u /\ j # i
      BY <2>1, <2>2, <1>1, <1>3, <1>4, <1>5
    <3> QED BY <3>1, <1>1 DEF Sleeping, Injective
  <2>3. CASE ~(j < i)
    <3>1. j + 1 \in 1..Len(q) /\ q[j + 1] = u /\ j + 1 # i
      BY <2>1, <2>3, <1>1, <1>3, <1>4, <1>5
    <3> QED BY <3>1, <1>1 DEF Sleeping, Injective
  <2> QED BY <2>2, <2>3
<1>8. ASSUME NEW u, Sleeping(q, u), u # t PROVE Sleeping(r, u)
  <2>1. PICK j \in 1..Len(q) : q[j] = u
    BY <1>8 DEF Sleeping
  <2>2. CASE j < i
    <3>1. j \in 1..Len(r) /\ r[j] = u
      BY <2>1, <2>2, <1>1, <1>3, <1>4, <1>5
    <3> QED BY <3>1 DEF Sleeping
  <2>3. CASE ~(j < i)
    <3>1. j # i
      BY <2>1, <1>1, <1>8
    <3>2. j - 1 \in 1..Len(r) /\ r[j - 1] = u
      BY <2>1, <2>3, <3>1, <1>1, <1>3, <1>4, <1>5
    <3> QED BY <3>2 DEF Sleeping
  <2> QED BY <2>2, <2>3
<1> QED BY <1>4, <1>6, <1>7, <1>8 DEF r
-----------------------------------------------------------------------------

(* The word is 1 exactly while a thread is inside, a thread with the lock  *)
(* is not in the middle of a call, and the queue holds the sleepers.       *)
Synchronised ==
  /\ locked = 1 <=> \E t \in Threads : Inside(t)
  /\ \A t \in Threads : held[t] > 0 => pc[t] = "idle"
QueueExact ==
  /\ Injective(waitq)
  /\ \A t \in Threads : pc[t] = "asleep" <=> Sleeping(waitq, t)
IInv ==
  /\ TypeOK
  /\ Synchronised
  /\ QueueExact
  /\ MutualExclusion
  /\ OwnerAccurate
  /\ SleeperHasRescuer

-----------------------------------------------------------------------------
USE ThreadsAssumption, DepthAssumption, CallsAssumption

(* A mutex that pthread_mutex_init has set up. *)
LEMMA InitIInv == Init => IInv
BY DEF Init, IInv, TypeOK, Synchronised, QueueExact, MutualExclusion,
       OwnerAccurate, SleeperHasRescuer, Inside, Injective, Sleeping, Recursive

(* The actions that leave the queue and the sleepers alone keep QueueExact. *)
LEMMA QueueUntouched ==
  ASSUME QueueExact, UNCHANGED waitq,
         \A t \in Threads : pc'[t] = "asleep" <=> pc[t] = "asleep"
  PROVE  QueueExact'
BY DEF QueueExact

(* Every step of a mutex keeps the invariant. *)
LEMMA StepIInv == IInv /\ [Next]_vars => IInv'
<1> SUFFICES ASSUME IInv, [Next]_vars PROVE IInv'
  OBVIOUS
<1> USE DEF IInv
<1>1. ASSUME NEW t \in Threads, Relock(t) PROVE IInv'
  BY <1>1, QueueUntouched DEF Relock, Call, TypeOK, Synchronised, MutualExclusion, OwnerAccurate, SleeperHasRescuer, Inside, Recursive
<1>2. ASSUME NEW t \in Threads, Lock(t) PROVE IInv'
  BY <1>2, QueueUntouched DEF Lock, Call, Goto, mutex, TypeOK, Synchronised, MutualExclusion, OwnerAccurate, SleeperHasRescuer, Inside, Recursive
<1>3. ASSUME NEW t \in Threads, TryLock(t) PROVE IInv'
  <2>1. CASE locked = 0
    <3>1. /\ pc[t] = "idle" /\ pc' = [pc EXCEPT ![t] = "own"] /\ locked' = 1
          /\ calls[t] < MaxCalls /\ calls' = [calls EXCEPT ![t] = @ + 1]
          /\ UNCHANGED <<type, owner, recursion, waitq, held>>
      BY <1>3, <2>1 DEF TryLock, Call, Goto
    <3>2. \A u \in Threads : ~Inside(u)
      BY <2>1 DEF Synchronised
    <3>3. \A u \in Threads : Inside(u)' <=> u = t
      BY <3>1, <3>2 DEF Inside, TypeOK
    <3>4. TypeOK'
      BY <3>1 DEF TypeOK
    <3>5. QueueExact'
      BY <3>1, QueueUntouched DEF TypeOK
    <3>6. Synchronised' /\ MutualExclusion'
      BY <3>1, <3>2, <3>3 DEF Synchronised, MutualExclusion, Inside, TypeOK
    <3>7. OwnerAccurate' /\ SleeperHasRescuer'
      BY <3>1, <3>3 DEF OwnerAccurate, SleeperHasRescuer
    <3> QED BY <3>4, <3>5, <3>6, <3>7
  <2>2. CASE locked # 0
    BY <1>3, <2>2, QueueUntouched DEF TryLock, Call, TypeOK, Synchronised,
       MutualExclusion, OwnerAccurate, SleeperHasRescuer, Inside
  <2> QED BY <2>1, <2>2
<1>4. ASSUME NEW t \in Threads, UnlockRefused(t) PROVE IInv'
  BY <1>4, QueueUntouched DEF UnlockRefused, mutex, TypeOK, Synchronised, MutualExclusion, OwnerAccurate, SleeperHasRescuer, Inside, Recursive
<1>5. ASSUME NEW t \in Threads, Exchange(t) PROVE IInv'
  BY <1>5, QueueUntouched DEF Exchange, Goto, TypeOK, Synchronised, MutualExclusion, OwnerAccurate, SleeperHasRescuer, Inside
<1>6. ASSUME NEW t \in Threads, FutexWait(t) PROVE IInv'
  <2>1. CASE locked = 1
    <3>1. pc' = [pc EXCEPT ![t] = "asleep"] /\ pc[t] = "wait"
      BY <1>6, <2>1 DEF FutexWait, Goto
    <3>2. UNCHANGED <<type, locked, owner, recursion, held, calls>>
      BY <1>6 DEF FutexWait
    <3>3. /\ waitq' \in Seq(Threads)
          /\ Injective(waitq')
          /\ \A u : Sleeping(waitq', u) <=> Sleeping(waitq, u) \/ u = t
      <4>1. ~Sleeping(waitq, t) /\ Injective(waitq) /\ waitq \in Seq(Threads)
        BY <3>1 DEF TypeOK, QueueExact
      <4>2. waitq' = Enqueue(waitq, t)
        BY <1>6, <2>1 DEF FutexWait
      <4> QED BY <4>1, <4>2, EnqueueFacts
    <3>4. QueueExact'
      BY <3>1, <3>3 DEF QueueExact, TypeOK
    <3>5. TypeOK'
      BY <3>1, <3>2, <3>3 DEF TypeOK
    <3>6. \A u \in Threads : Inside(u)' <=> Inside(u)
      BY <3>1, <3>2 DEF Inside, TypeOK
    <3>7. Synchronised' /\ MutualExclusion' /\ OwnerAccurate'
      BY <3>1, <3>2, <3>6 DEF Synchronised, MutualExclusion, OwnerAccurate, TypeOK
    <3>8. SleeperHasRescuer'
      BY <2>1, <3>2, <3>6 DEF SleeperHasRescuer, Synchronised
    <3> QED BY <3>4, <3>5, <3>7, <3>8
  <2>2. CASE locked # 1
    BY <2>2, <1>6, QueueUntouched DEF FutexWait, Goto, TypeOK, Synchronised, MutualExclusion, OwnerAccurate, SleeperHasRescuer, Inside
  <2> QED BY <2>1, <2>2
<1>7. ASSUME NEW t \in Threads, SetOwner(t) PROVE IInv'
  BY <1>7, QueueUntouched DEF SetOwner, Goto, TypeOK, Synchronised, MutualExclusion, OwnerAccurate, SleeperHasRescuer, Inside
<1>8. ASSUME NEW t \in Threads, UnlockNested(t) PROVE IInv'
  BY <1>8, QueueUntouched DEF UnlockNested, TypeOK, Synchronised, MutualExclusion, OwnerAccurate, SleeperHasRescuer, Inside
<1>9. ASSUME NEW t \in Threads, Unlock(t) PROVE IInv'
  BY <1>9, QueueUntouched DEF Unlock, Goto, TypeOK, Synchronised, MutualExclusion, OwnerAccurate, SleeperHasRescuer, Inside
<1>10. ASSUME NEW t \in Threads, Store(t) PROVE IInv'
  BY <1>10, QueueUntouched DEF Store, Goto, TypeOK, Synchronised, MutualExclusion, OwnerAccurate, SleeperHasRescuer, Inside
<1>11. ASSUME NEW t \in Threads, Wake(t) PROVE IInv'
  <2> DEFINE W == Woken(waitq, 1)
  <2>1. /\ waitq' \in Seq(Threads)
        /\ Injective(waitq')
        /\ \A u : Sleeping(waitq', u) <=> Sleeping(waitq, u) /\ u \notin W
        /\ \A u \in W : u \in Threads /\ Sleeping(waitq, u)
        /\ (\E u : Sleeping(waitq, u)) => W # {}
    <3>1. waitq \in Seq(Threads) /\ Injective(waitq) /\ waitq' = AfterWake(waitq, 1)
      BY <1>11 DEF Wake, TypeOK, QueueExact
    <3>2. 1 \in Nat /\ 1 > 0
      OBVIOUS
    <3> QED BY <3>1, <3>2, WakeFacts, Zenon
  <2>2. \A u \in W : pc[u] = "asleep" /\ u # t
    BY <2>1, <1>11 DEF Wake, QueueExact
  <2>3. pc' = [u \in Threads |-> IF u = t THEN "idle" ELSE IF u \in W THEN "xchg" ELSE pc[u]]
    BY <1>11, Zenon DEF Wake, Move, TypeOK
  <2>4. UNCHANGED <<type, locked, owner, recursion, held, calls>>
    BY <1>11 DEF Wake
  <2> HIDE DEF W
  <2>5. QueueExact'
    BY <2>1, <2>2, <2>3, <1>11 DEF QueueExact, Wake
  <2>6. TypeOK'
    BY <2>1, <2>3, <2>4 DEF TypeOK
  <2>7. \A u \in Threads : Inside(u)' <=> Inside(u)
    BY <2>2, <2>3, <2>4, <1>11 DEF Inside, Wake
  <2>8. Synchronised' /\ MutualExclusion' /\ OwnerAccurate'
    BY <2>2, <2>3, <2>4, <2>7 DEF Synchronised, MutualExclusion, OwnerAccurate
  <2>9. SleeperHasRescuer'
    BY <2>1, <2>2, <2>3, <2>5 DEF SleeperHasRescuer, QueueExact
  <2> QED BY <2>5, <2>6, <2>8, <2>9
<1>12. ASSUME NEW t \in Threads, Interrupt(t) PROVE IInv'
  <2>1. /\ waitq' \in Seq(Threads)
        /\ Injective(waitq')
        /\ \A u : Sleeping(waitq', u) <=> Sleeping(waitq, u) /\ u # t
    BY <1>12, DequeueFacts DEF Interrupt, TypeOK, QueueExact
  <2>2. pc' = [pc EXCEPT ![t] = "xchg"] /\ pc[t] = "asleep"
    BY <1>12 DEF Interrupt, Goto
  <2>3. QueueExact'
    BY <2>1, <2>2 DEF QueueExact, TypeOK
  <2> QED BY <2>1, <2>2, <2>3, <1>12 DEF Interrupt, TypeOK, Synchronised, MutualExclusion, OwnerAccurate, SleeperHasRescuer, Inside
<1>13. CASE UNCHANGED vars
  BY <1>13 DEF vars, TypeOK, Synchronised, QueueExact, MutualExclusion, OwnerAccurate, SleeperHasRescuer, Inside
<1> QED BY <1>1, <1>2, <1>3, <1>4, <1>5, <1>6, <1>7, <1>8, <1>9, <1>10, <1>11, <1>12, <1>13
        DEF Next, Progress

(* The invariant of pthread_mutex_lock, _trylock and _unlock. *)
THEOREM Inductive == Spec => []IInv
BY InitIInv, StepIInv, PTL DEF Spec

(* The fields of every mutex stay in range: recursion never exceeds the    *)
(* nesting depth and never goes below zero.                                *)
THEOREM TypeCorrect == Spec => []TypeOK
<1>1. IInv => TypeOK
  BY DEF IInv
<1> QED BY Inductive, <1>1, PTL

(* At most one thread is between lock and unlock. *)
THEOREM MutexExcludes == Spec => []MutualExclusion
<1>1. IInv => MutualExclusion
  BY DEF IInv
<1> QED BY Inductive, <1>1, PTL

(* The owner test that pthread_mutex_lock and _unlock make is exact. *)
THEOREM OwnerIsHolder == Spec => []OwnerAccurate
<1>1. IInv => OwnerAccurate
  BY DEF IInv
<1> QED BY Inductive, <1>1, PTL

(* futex_wait and futex_wake never leave a sleeper that nobody will wake. *)
THEOREM NoLostWakeup == Spec => []SleeperHasRescuer
<1>1. IInv => SleeperHasRescuer
  BY DEF IInv
<1> QED BY Inductive, <1>1, PTL

(* Who holds the abstract lock is decided by Inside alone. *)
LEMMA HolderIs ==
  ASSUME MutualExclusion, NEW t \in Threads, Inside(t)
  PROVE  holder = t
BY DEF holder, MutualExclusion

(* The lock is free when nobody is inside. *)
LEMMA HolderNone ==
  ASSUME \A t \in Threads : ~Inside(t)
  PROVE  holder = NoThread
BY DEF holder

(* Every step of the futex code is a step of the atomic lock or invisible. *)
LEMMA StepImplements ==
  IInv /\ IInv' /\ [Next]_vars => [Abstract!Next]_holder
<1> SUFFICES ASSUME IInv, IInv', [Next]_vars PROVE [Abstract!Next]_holder
  OBVIOUS
<1>1. ASSUME \A u \in Threads : Inside(u)' <=> Inside(u) PROVE holder' = holder
  BY <1>1, Zenon DEF holder
<1>2. ASSUME NEW t \in Threads, locked = 0, Inside(t)' PROVE Abstract!Acquire(t)
  <2>1. holder = NoThread
    BY <1>2, HolderNone DEF IInv, Synchronised
  <2>2. holder' = t
    BY <1>2 DEF holder, IInv, MutualExclusion
  <2> QED BY <2>1, <2>2 DEF Abstract!Acquire
<1>3. ASSUME NEW t \in Threads, Exchange(t) PROVE [Abstract!Next]_holder
  <2>1. CASE locked = 0
    BY <1>2, <1>3, <2>1 DEF Exchange, Goto, Inside, IInv, TypeOK, Abstract!Next
  <2>2. CASE locked # 0
    BY <1>1, <1>3, <2>2 DEF Exchange, Goto, Inside, IInv, TypeOK
  <2> QED BY <2>1, <2>2
<1>4. ASSUME NEW t \in Threads, TryLock(t) PROVE [Abstract!Next]_holder
  <2>1. CASE locked = 0
    BY <1>2, <1>4, <2>1 DEF TryLock, Call, Goto, Inside, IInv, TypeOK, Abstract!Next
  <2>2. CASE locked # 0
    BY <1>1, <1>4, <2>2 DEF TryLock, Inside, IInv, TypeOK
  <2> QED BY <2>1, <2>2
<1>5. ASSUME NEW t \in Threads, Store(t) PROVE [Abstract!Next]_holder
  <2>1. holder = t
    BY <1>5, HolderIs DEF Store, Inside, IInv
  <2>2. holder' = NoThread
    <3>1. locked' = 0
      BY <1>5 DEF Store
    <3> QED BY <3>1 DEF IInv, Synchronised, holder
  <2> QED BY <2>1, <2>2 DEF Abstract!Next, Abstract!Release
<1>6. ASSUME NEW t \in Threads, Wake(t) PROVE holder' = holder
  <2>1. \A u \in Woken(waitq, 1) : pc[u] = "asleep"
    <3>1. waitq \in Seq(Threads) /\ Injective(waitq) /\ 1 \in Nat
      BY DEF IInv, TypeOK, QueueExact
    <3>2. \A u \in Woken(waitq, 1) : u \in Threads /\ Sleeping(waitq, u)
      BY <3>1, WakeFacts
    <3> QED BY <3>2 DEF IInv, QueueExact
  <2>2. \A u \in Threads : Inside(u)' <=> Inside(u)
    BY <2>1, <1>6 DEF Wake, Move, Inside, IInv, TypeOK
  <2> QED BY <2>2, <1>1
<1>7. ASSUME NEW t \in Threads,
             Relock(t) \/ Lock(t) \/ UnlockRefused(t) \/ FutexWait(t)
             \/ SetOwner(t) \/ UnlockNested(t) \/ Unlock(t) \/ Interrupt(t)
      PROVE  holder' = holder
  <2>1. \A u \in Threads : Inside(u)' <=> Inside(u)
    BY <1>7, Zenon DEF Relock, Lock, UnlockRefused, FutexWait, SetOwner, UnlockNested, Unlock,
       Interrupt, Call, Goto, mutex, Inside, IInv, TypeOK, OwnerAccurate
  <2> QED BY <2>1, <1>1
<1>8. CASE UNCHANGED vars
  BY <1>1, <1>8 DEF vars, Inside
<1> QED BY <1>3, <1>4, <1>5, <1>6, <1>7, <1>8 DEF Next, Progress

(* pthread_mutex_t implements the atomic lock its clients reason with. *)
THEOREM MutexImplementsLock == Spec => ImplementsLock
<1>1. Init => Abstract!Init
  BY HolderNone DEF Init, Inside, Abstract!Init
<1> QED BY <1>1, InitIInv, StepIInv, StepImplements, PTL DEF Spec, ImplementsLock, Abstract!Spec
-----------------------------------------------------------------------------
(* pthread_spinlock_t.  The word is 1 exactly while there is a holder, of  *)
(* which there is at most one, and the queue holds the sleepers.           *)
SpinInv ==
  /\ Spin!TypeOK
  /\ \A t, u \in Threads : spinPc[t] = "held" /\ spinPc[u] = "held" => t = u
  /\ spinWord = 1 <=> \E t \in Threads : spinPc[t] = "held"
  /\ Injective(spinQueue)
  /\ \A t \in Threads : spinPc[t] = "asleep" <=> Sleeping(spinQueue, t)

(* A spin lock that pthread_spin_init has set up. *)
LEMMA SpinInit == Spin!Init => SpinInv
BY DEF Spin!Init, SpinInv, Spin!TypeOK, Injective, Sleeping

(* The queue is left alone and nobody falls asleep or wakes up. *)
LEMMA SpinQueueUntouched ==
  ASSUME SpinInv, UNCHANGED spinQueue,
         \A t \in Threads : spinPc'[t] = "asleep" <=> spinPc[t] = "asleep"
  PROVE  /\ Injective(spinQueue')
         /\ \A t \in Threads : spinPc'[t] = "asleep" <=> Sleeping(spinQueue', t)
BY DEF SpinInv

(* FUTEX_WAKE moves one sleeper back to the exchange. *)
LEMMA SpinWakes ==
  ASSUME SpinInv, NEW t \in Threads, Spin!Wake(t)
  PROVE  \E W \in SUBSET Threads :
           /\ \A u \in W : spinPc[u] = "asleep"
           /\ spinPc' = [u \in Threads |-> IF u = t THEN "idle" ELSE IF u \in W THEN "exchange" ELSE spinPc[u]]
           /\ spinQueue' \in Seq(Threads) /\ Injective(spinQueue')
           /\ \A u : Sleeping(spinQueue', u) <=> Sleeping(spinQueue, u) /\ u \notin W
<1> DEFINE W == Woken(spinQueue, 1)
<1>1. spinQueue \in Seq(Threads) /\ Injective(spinQueue) /\ spinQueue' = AfterWake(spinQueue, 1) /\ 1 \in Nat
  BY DEF SpinInv, Spin!TypeOK, Spin!Wake, Spin!AfterWake, AfterWake
<1>2. /\ spinQueue' \in Seq(Threads) /\ Injective(spinQueue')
      /\ \A u : Sleeping(spinQueue', u) <=> Sleeping(spinQueue, u) /\ u \notin W
      /\ \A u \in W : u \in Threads /\ Sleeping(spinQueue, u)
  BY <1>1, WakeFacts, Zenon
<1>3. spinPc' = [u \in Threads |-> IF u = t THEN "idle" ELSE IF u \in W THEN "exchange" ELSE spinPc[u]]
  BY Zenon DEF Spin!Wake, Spin!Move, Spin!Woken, Woken, SpinInv, Spin!TypeOK
<1>4. \A u \in W : spinPc[u] = "asleep"
  BY <1>2 DEF SpinInv
<1> HIDE DEF W
<1> QED BY <1>2, <1>3, <1>4, Zenon

(* Every step of a spin lock keeps the invariant. *)
LEMMA SpinStep == SpinInv /\ [Spin!Next]_(Spin!vars) => SpinInv'
<1> SUFFICES ASSUME SpinInv, [Spin!Next]_(Spin!vars) PROVE SpinInv'
  OBVIOUS
<1>1. ASSUME NEW t \in Threads, Spin!Lock(t) \/ Spin!Exchange(t) \/ Spin!TryLock(t) \/ Spin!Unlock(t)
      PROVE  SpinInv'
  <2>1. /\ spinPc[t] \in {"idle", "exchange", "held"} /\ UNCHANGED spinQueue
        /\ spinCalls' \in [Threads -> 0 .. MaxCalls]
    BY <1>1 DEF Spin!Lock, Spin!Exchange, Spin!TryLock, Spin!Unlock, Spin!Call, SpinInv, Spin!TypeOK
  <2>2. ASSUME NEW l \in {"idle", "exchange", "wait", "wake", "held"}, spinPc' = [spinPc EXCEPT ![t] = l],
               spinWord' \in {0, 1},
               spinWord' = 1 <=> \E u \in Threads : spinPc'[u] = "held",
               \A u, v \in Threads : spinPc'[u] = "held" /\ spinPc'[v] = "held" => u = v
        PROVE  SpinInv'
    <3>1. Spin!TypeOK' /\ \A u \in Threads : spinPc'[u] = "asleep" <=> spinPc[u] = "asleep"
      BY <2>1, <2>2 DEF SpinInv, Spin!TypeOK
    <3> QED BY <2>1, <2>2, <3>1, SpinQueueUntouched DEF SpinInv
  <2>3. CASE Spin!Lock(t)
    <3>1. spinPc[t] = "idle" /\ spinPc' = [spinPc EXCEPT ![t] = "exchange"] /\ UNCHANGED spinWord
      BY <2>3 DEF Spin!Lock, Spin!Call, Spin!Goto
    <3> QED BY <2>2, <3>1 DEF SpinInv, Spin!TypeOK
  <2>4. CASE Spin!Unlock(t)
    <3>1. spinPc[t] = "held" /\ spinPc' = [spinPc EXCEPT ![t] = "wake"] /\ spinWord' = 0
      BY <2>4 DEF Spin!Unlock, Spin!Goto
    <3> QED BY <2>2, <3>1 DEF SpinInv, Spin!TypeOK
  <2>5. CASE (Spin!Exchange(t) \/ Spin!TryLock(t)) /\ spinWord = 0
    <3>1. spinPc' = [spinPc EXCEPT ![t] = "held"] /\ spinWord' = 1
      BY <2>5 DEF Spin!Exchange, Spin!TryLock, Spin!Goto
    <3> QED BY <2>2, <2>5, <3>1 DEF SpinInv, Spin!TypeOK
  <2>6. CASE (Spin!Exchange(t) \/ Spin!TryLock(t)) /\ spinWord # 0
    <3>1. PICK l \in {"wait", "idle"} :
             spinPc[t] # "held" /\ spinPc' = [spinPc EXCEPT ![t] = l] /\ spinWord' = 1 /\ spinWord = 1
      BY <2>6 DEF Spin!Exchange, Spin!TryLock, Spin!Call, Spin!Goto, SpinInv, Spin!TypeOK
    <3> QED BY <2>2, <3>1, Zenon DEF SpinInv, Spin!TypeOK
  <2> QED BY <1>1, <2>3, <2>4, <2>5, <2>6
<1>2. ASSUME NEW t \in Threads, Spin!FutexWait(t) PROVE SpinInv'
  <2>1. CASE spinWord = 1
    <3>1. /\ spinPc[t] = "wait" /\ spinPc' = [spinPc EXCEPT ![t] = "asleep"]
          /\ spinQueue' = Enqueue(spinQueue, t) /\ UNCHANGED <<spinWord, spinCalls>>
      BY <1>2, <2>1 DEF Spin!FutexWait, Spin!Goto, Spin!Enqueue, Enqueue
    <3>2. ~Sleeping(spinQueue, t) /\ Injective(spinQueue) /\ spinQueue \in Seq(Threads)
      BY <3>1 DEF SpinInv, Spin!TypeOK
    <3>3. /\ spinQueue' \in Seq(Threads) /\ Injective(spinQueue')
          /\ \A u : Sleeping(spinQueue', u) <=> Sleeping(spinQueue, u) \/ u = t
      BY <3>1, <3>2, EnqueueFacts
    <3> QED BY <3>1, <3>3 DEF SpinInv, Spin!TypeOK
  <2>2. CASE spinWord # 1
    <3>1. /\ spinPc[t] = "wait" /\ spinPc' = [spinPc EXCEPT ![t] = "exchange"]
          /\ UNCHANGED <<spinQueue, spinWord, spinCalls>>
      BY <1>2, <2>2 DEF Spin!FutexWait, Spin!Goto
    <3> QED BY <3>1, SpinQueueUntouched DEF SpinInv, Spin!TypeOK
  <2> QED BY <2>1, <2>2
<1>3. ASSUME NEW t \in Threads, Spin!Wake(t) PROVE SpinInv'
  <2>1. PICK W \in SUBSET Threads :
           /\ \A u \in W : spinPc[u] = "asleep"
           /\ spinPc' = [u \in Threads |-> IF u = t THEN "idle" ELSE IF u \in W THEN "exchange" ELSE spinPc[u]]
           /\ spinQueue' \in Seq(Threads) /\ Injective(spinQueue')
           /\ \A u : Sleeping(spinQueue', u) <=> Sleeping(spinQueue, u) /\ u \notin W
    BY <1>3, SpinWakes
  <2>2. spinPc[t] = "wake" /\ UNCHANGED <<spinWord, spinCalls>>
    BY <1>3 DEF Spin!Wake
  <2>3. \A u \in Threads : spinPc'[u] = "held" <=> spinPc[u] = "held"
    BY <2>1, <2>2
  <2>4. \A u \in Threads : spinPc'[u] = "asleep" <=> Sleeping(spinQueue', u)
    BY <2>1, <2>2 DEF SpinInv
  <2>5. Spin!TypeOK'
    BY <2>1, <2>2 DEF SpinInv, Spin!TypeOK
  <2> QED BY <2>1, <2>2, <2>3, <2>4, <2>5 DEF SpinInv
<1>4. ASSUME NEW t \in Threads, Spin!Interrupt(t) PROVE SpinInv'
  <2>1. /\ spinPc[t] = "asleep" /\ spinPc' = [spinPc EXCEPT ![t] = "exchange"]
        /\ spinQueue' = Dequeue(spinQueue, t) /\ UNCHANGED <<spinWord, spinCalls>>
    BY <1>4 DEF Spin!Interrupt, Spin!Goto, Spin!Dequeue, Dequeue
  <2>2. Sleeping(spinQueue, t) /\ Injective(spinQueue) /\ spinQueue \in Seq(Threads)
    BY <2>1 DEF SpinInv, Spin!TypeOK
  <2>3. /\ spinQueue' \in Seq(Threads) /\ Injective(spinQueue')
        /\ \A u : Sleeping(spinQueue', u) <=> Sleeping(spinQueue, u) /\ u # t
    BY <2>1, <2>2, DequeueFacts
  <2> QED BY <2>1, <2>3 DEF SpinInv, Spin!TypeOK
<1>5. CASE UNCHANGED Spin!vars
  BY <1>5 DEF Spin!vars, SpinInv, Spin!TypeOK
<1> QED BY <1>1, <1>2, <1>3, <1>4, <1>5 DEF Spin!Next, Spin!Progress

(* Every step of the spin lock is a step of the atomic lock or invisible. *)
LEMMA SpinStepImplements ==
  SpinInv /\ SpinInv' /\ [Spin!Next]_(Spin!vars) => [Spin!Abstract!Next]_(Spin!holder)
<1> SUFFICES ASSUME SpinInv, SpinInv', [Spin!Next]_(Spin!vars) PROVE [Spin!Abstract!Next]_(Spin!holder)
  OBVIOUS
<1>1. ASSUME \A u \in Threads : spinPc'[u] = "held" <=> spinPc[u] = "held" PROVE UNCHANGED Spin!holder
  <2>1. Spin!Holders' = Spin!Holders
    BY <1>1 DEF Spin!Holders
  <2> QED BY <2>1 DEF Spin!holder
<1>2. ASSUME NEW t \in Threads, Spin!Exchange(t) \/ Spin!TryLock(t) PROVE [Spin!Abstract!Next]_(Spin!holder)
  <2>1. CASE spinWord = 0
    <3>1. Spin!Holders = {} /\ spinPc'[t] = "held"
      BY <1>2, <2>1 DEF Spin!Exchange, Spin!TryLock, Spin!Call, Spin!Goto, Spin!Holders, SpinInv, Spin!TypeOK
    <3>2. Spin!Holders' = {t}
      BY <3>1 DEF Spin!Holders, SpinInv
    <3>3. Spin!holder = NoThread /\ Spin!holder' = t
      BY <3>1, <3>2 DEF Spin!holder
    <3> QED BY <3>3 DEF Spin!Abstract!Next, Spin!Abstract!Acquire
  <2>2. CASE spinWord # 0
    <3>1. \A u \in Threads : spinPc'[u] = "held" <=> spinPc[u] = "held"
      BY <1>2, <2>2 DEF Spin!Exchange, Spin!TryLock, Spin!Call, Spin!Goto, SpinInv, Spin!TypeOK
    <3> QED BY <1>1, <3>1
  <2> QED BY <2>1, <2>2
<1>3. ASSUME NEW t \in Threads, Spin!Unlock(t) PROVE [Spin!Abstract!Next]_(Spin!holder)
  <2>1. Spin!Holders = {t} /\ Spin!Holders' = {}
    BY <1>3 DEF Spin!Unlock, Spin!Goto, Spin!Holders, SpinInv, Spin!TypeOK
  <2>2. Spin!holder = t /\ Spin!holder' = NoThread
    BY <2>1 DEF Spin!holder
  <2> QED BY <2>2 DEF Spin!Abstract!Next, Spin!Abstract!Release
<1>4. ASSUME NEW t \in Threads, Spin!Lock(t) \/ Spin!FutexWait(t) \/ Spin!Interrupt(t)
      PROVE  UNCHANGED Spin!holder
  <2>1. \A u \in Threads : spinPc'[u] = "held" <=> spinPc[u] = "held"
    BY <1>4 DEF Spin!Lock, Spin!FutexWait, Spin!Interrupt, Spin!Call, Spin!Goto, SpinInv, Spin!TypeOK
  <2> QED BY <1>1, <2>1
<1>5. ASSUME NEW t \in Threads, Spin!Wake(t) PROVE UNCHANGED Spin!holder
  <2>1. spinPc[t] = "wake"
    BY <1>5 DEF Spin!Wake
  <2>2. \A u \in Threads : spinPc'[u] = "held" <=> spinPc[u] = "held"
    BY <1>5, <2>1, SpinWakes
  <2> QED BY <1>1, <2>2
<1>6. CASE UNCHANGED Spin!vars
  BY <1>1, <1>6 DEF Spin!vars
<1> QED BY <1>2, <1>3, <1>4, <1>5, <1>6 DEF Spin!Next, Spin!Progress

(* pthread_spinlock_t implements the same atomic lock as the mutex. *)
THEOREM SpinLockImplementsLock == Spin!Spec => SpinImplementsLock
<1>1. Spin!Init => Spin!Abstract!Init
  BY DEF Spin!Init, Spin!holder, Spin!Holders, Spin!Abstract!Init
<1> QED BY <1>1, SpinInit, SpinStep, SpinStepImplements, PTL
        DEF Spin!Spec, SpinImplementsLock, Spin!ImplementsLock, Spin!Abstract!Spec
-----------------------------------------------------------------------------
(* pthread_rwlock_t.  The thread has set the writer flag, or believes      *)
(* that it has.                                                            *)
Claims(t) == mode[t] = "write" \/ rwPc[t] \in {"w_load", "w_drain", "w_sleep", "u_store"}

(* While no hold has leaked, the flag belongs to exactly one claimant. *)
FlagOwned ==
  readers = Cardinality(Shared!Counted) =>
    /\ \A t, u \in Threads : Claims(t) /\ Claims(u) => t = u
    /\ writer = 1 <=> \E t \in Threads : Claims(t)

(* Nobody writes once a hold has leaked, or while somebody reads. *)
WriterAlone ==
  \A t \in Threads : mode[t] = "write" =>
    /\ readers = Cardinality(Shared!Counted)
    /\ \A u \in Threads : mode[u] # "read"

HoldersIdle == \A t \in Threads : mode[t] # "none" => rwPc[t] = "idle"

RWInv == Shared!TypeOK /\ HoldersIdle /\ Shared!ReadersCounted /\ FlagOwned /\ WriterAlone

(* The instance has a Cardinality of its own: it is the same. *)
LEMMA CountIs ==
  /\ Shared!ReadersCounted <=> readers >= Cardinality(Shared!Counted)
  /\ Shared!ReadersCounted' <=> readers' >= Cardinality(Shared!Counted')
<1>1. \A S : Shared!Cardinality(S) = Cardinality(S)
  BY DEF Shared!Cardinality, Cardinality
<1> QED BY <1>1 DEF Shared!ReadersCounted

INSTANCE FiniteSetTheorems

(* How the count follows the set it stands for. *)
LEMMA CountedFinite == IsFiniteSet(Shared!Counted) /\ Cardinality(Shared!Counted) \in Nat
<1>1. Shared!Counted \in SUBSET Threads
  BY DEF Shared!Counted
<1> QED BY <1>1, FS_Subset, FS_CardinalityType

(* The same after a step. *)
LEMMA CountedFinitePrime == IsFiniteSet(Shared!Counted') /\ Cardinality(Shared!Counted') \in Nat
<1>1. Shared!Counted' \in SUBSET Threads
  BY DEF Shared!Counted
<1> QED BY <1>1, FS_Subset, FS_CardinalityType

(* One more thread is counted as a reader. *)
LEMMA CountedGrows ==
  ASSUME NEW t, t \notin Shared!Counted, Shared!Counted' = Shared!Counted \cup {t}
  PROVE  Cardinality(Shared!Counted') = Cardinality(Shared!Counted) + 1
BY CountedFinite, FS_AddElement, Zenon

(* One less is. *)
LEMMA CountedShrinks ==
  ASSUME NEW t, t \in Shared!Counted, Shared!Counted' = Shared!Counted \ {t}
  PROVE  Cardinality(Shared!Counted') = Cardinality(Shared!Counted) - 1
BY CountedFinite, FS_RemoveElement, Zenon

(* A count of 0 means that there is none. *)
LEMMA CountedEmpty == Cardinality(Shared!Counted) = 0 => Shared!Counted = {}
BY CountedFinite, FS_EmptySet

(* Steps inside the lock code that change nobody's claim or count, and     *)
(* neither word, keep the invariant.                                       *)
LEMMA Neutral ==
  ASSUME RWInv, Shared!TypeOK', UNCHANGED <<readers, writer, mode>>, Shared!Counted' = Shared!Counted,
         \A u \in Threads : Claims(u)' <=> Claims(u),
         \A u \in Threads : mode[u] # "none" => rwPc'[u] = rwPc[u]
  PROVE  RWInv'
<1>1. HoldersIdle' /\ Shared!ReadersCounted'
  BY CountIs DEF RWInv, HoldersIdle
<1>2. FlagOwned' /\ WriterAlone'
  BY DEF RWInv, FlagOwned, WriterAlone
<1> QED BY <1>1, <1>2 DEF RWInv

(* A read-write lock that pthread_rwlock_init has set up. *)
LEMMA RWInit == Shared!Init => RWInv
<1> SUFFICES ASSUME Shared!Init PROVE RWInv
  OBVIOUS
<1>1. Shared!TypeOK
  BY DEF Shared!Init, Shared!TypeOK, Shared!Labels
<1>2. Shared!Counted = {}
  BY DEF Shared!Init, Shared!Counted
<1>3. Cardinality(Shared!Counted) = 0
  BY <1>2, FS_EmptySet
<1>4. \A t \in Threads : ~Claims(t)
  BY DEF Shared!Init, Claims
<1> QED BY <1>1, <1>3, <1>4, CountIs DEF Shared!Init, RWInv, HoldersIdle, FlagOwned, WriterAlone

(* The reader count does not go below 0. *)
LEMMA RWStepTypeOK == Shared!TypeOK /\ Shared!ReadersCounted /\ HoldersIdle /\ [Shared!Next]_(Shared!vars) => Shared!TypeOK'
<1> SUFFICES ASSUME Shared!TypeOK, Shared!ReadersCounted, HoldersIdle, [Shared!Next]_(Shared!vars) PROVE Shared!TypeOK'
  OBVIOUS
<1> USE DEF Shared!TypeOK, Shared!Labels, Shared!Goto
<1>1. ASSUME NEW t \in Threads, Shared!RdLock(t) \/ Shared!WrLock(t) PROVE Shared!TypeOK'
  BY <1>1 DEF Shared!RdLock, Shared!WrLock, Shared!Call
<1>2. ASSUME NEW t \in Threads, Shared!RdWait(t) \/ Shared!WrWait(t) \/ Shared!WrDrain(t) PROVE Shared!TypeOK'
  BY <1>2 DEF Shared!RdWait, Shared!WrWait, Shared!WrDrain, Shared!FutexWait
<1>3. ASSUME NEW t \in Threads, Shared!RdLoad(t) \/ Shared!RdAdd(t) \/ Shared!RdCheck(t) PROVE Shared!TypeOK'
  BY <1>3 DEF Shared!RdLoad, Shared!RdAdd, Shared!RdCheck, Shared!Return
<1>4. ASSUME NEW t \in Threads, Shared!RdSub(t) \/ Shared!UnlockSub(t) PROVE Shared!TypeOK'
  <2>1. t \in Shared!Counted
    BY <1>4 DEF Shared!RdSub, Shared!UnlockSub, Shared!Counted
  <2>2. Cardinality(Shared!Counted) # 0
    BY <2>1, CountedEmpty
  <2>3. readers - 1 \in Nat
    BY <2>2, CountedFinite, CountIs
  <2> QED BY <1>4, <2>3 DEF Shared!RdSub, Shared!UnlockSub
<1>5. ASSUME NEW t \in Threads, Shared!WrExchange(t) \/ Shared!WrLoad(t) \/ Shared!Unlock(t) \/ Shared!UnlockStore(t) PROVE Shared!TypeOK'
  BY <1>5 DEF Shared!WrExchange, Shared!WrLoad, Shared!Unlock, Shared!UnlockStore, Shared!Return
<1>6. ASSUME NEW t \in Threads, Shared!UnlockWakeWriter(t) \/ Shared!UnlockWakeReader(t) \/ Shared!Interrupt(t) PROVE Shared!TypeOK'
  <2>1. \A l \in Shared!Labels : Shared!Resume(l) \in Shared!Labels
    BY DEF Shared!Resume
  <2> QED BY <1>6, <2>1 DEF Shared!UnlockWakeWriter, Shared!UnlockWakeReader, Shared!Interrupt
<1>7. CASE UNCHANGED Shared!vars
  BY <1>7 DEF Shared!vars
<1> QED BY <1>1, <1>2, <1>3, <1>4, <1>5, <1>6, <1>7 DEF Shared!Next, Shared!Progress

(* Every step of a read-write lock keeps the invariant. *)
LEMMA RWStep == RWInv /\ [Shared!Next]_(Shared!vars) => RWInv'
<1> SUFFICES ASSUME RWInv, [Shared!Next]_(Shared!vars) PROVE RWInv'
  OBVIOUS
<1>0. Shared!TypeOK'
  BY RWStepTypeOK DEF RWInv
<1>1. ASSUME NEW t \in Threads, Shared!RdLock(t) \/ Shared!WrLock(t) \/ Shared!RdLoad(t) \/ Shared!RdWait(t) \/ Shared!WrWait(t) \/ Shared!WrDrain(t)
      PROVE  RWInv'
  <2>1. /\ UNCHANGED <<readers, writer, mode>>
        /\ \A u \in Threads : mode[u] # "none" => rwPc'[u] = rwPc[u]
    BY <1>1 DEF Shared!RdLock, Shared!WrLock, Shared!Call, Shared!RdLoad, Shared!RdWait, Shared!WrWait, Shared!WrDrain, Shared!FutexWait, Shared!Goto, RWInv, Shared!TypeOK, HoldersIdle
  <2>2. Shared!Counted' = Shared!Counted
    BY <1>1 DEF Shared!RdLock, Shared!WrLock, Shared!Call, Shared!RdLoad, Shared!RdWait, Shared!WrWait, Shared!WrDrain, Shared!FutexWait, Shared!Goto, RWInv, Shared!TypeOK, Shared!Counted
  <2>3. \A u \in Threads : Claims(u)' <=> Claims(u)
    BY <1>1 DEF Shared!RdLock, Shared!WrLock, Shared!Call, Shared!RdLoad, Shared!RdWait, Shared!WrWait, Shared!WrDrain, Shared!FutexWait, Shared!Goto, RWInv, Shared!TypeOK, Claims
  <2> QED BY <1>0, <2>1, <2>2, <2>3, Neutral
<1>2. ASSUME NEW t \in Threads, Shared!UnlockWakeWriter(t) \/ Shared!UnlockWakeReader(t) \/ Shared!Interrupt(t)
      PROVE  RWInv'
  <2>1. /\ UNCHANGED <<readers, writer, mode>>
        /\ \A u \in Threads : mode[u] # "none" => rwPc'[u] = rwPc[u]
    BY <1>2 DEF Shared!UnlockWakeWriter, Shared!UnlockWakeReader, Shared!Interrupt, Shared!Goto, RWInv, Shared!TypeOK, HoldersIdle
  <2>2. Shared!Counted' = Shared!Counted
    BY <1>2 DEF Shared!UnlockWakeWriter, Shared!UnlockWakeReader, Shared!Interrupt, Shared!Resume, Shared!Goto, RWInv, Shared!TypeOK, Shared!Counted
  <2>3. \A u \in Threads : Claims(u)' <=> Claims(u)
    BY <1>2 DEF Shared!UnlockWakeWriter, Shared!UnlockWakeReader, Shared!Interrupt, Shared!Resume, Shared!Goto, RWInv, Shared!TypeOK, Claims
  <2> QED BY <1>0, <2>1, <2>2, <2>3, Neutral
<1>3. ASSUME NEW t \in Threads, Shared!RdAdd(t) PROVE RWInv'
  <2>1. rwPc[t] = "r_add" /\ rwPc' = [rwPc EXCEPT ![t] = "r_check"] /\ readers' = readers + 1 /\ UNCHANGED <<writer, mode>>
    BY <1>3 DEF Shared!RdAdd, Shared!Goto
  <2>2. mode[t] = "none"
    BY <2>1 DEF RWInv, HoldersIdle
  <2>3. t \notin Shared!Counted /\ Shared!Counted' = Shared!Counted \cup {t}
    BY <2>1, <2>2 DEF Shared!Counted, RWInv, Shared!TypeOK
  <2>4. Cardinality(Shared!Counted') = Cardinality(Shared!Counted) + 1
    BY <2>3, CountedGrows, Zenon
  <2>5. \A u \in Threads : Claims(u)' <=> Claims(u)
    BY <2>1 DEF Claims, RWInv, Shared!TypeOK
  <2>6. (readers' = Cardinality(Shared!Counted')) <=> (readers = Cardinality(Shared!Counted))
    BY <2>1, <2>4, CountedFinite DEF RWInv, Shared!TypeOK
  <2>7. HoldersIdle' /\ Shared!ReadersCounted'
    BY <2>1, <2>2, <2>4, CountedFinite, CountIs DEF RWInv, Shared!TypeOK, HoldersIdle
  <2>8. FlagOwned' /\ WriterAlone'
    BY <2>1, <2>5, <2>6 DEF RWInv, FlagOwned, WriterAlone
  <2> QED BY <1>0, <2>7, <2>8 DEF RWInv
<1>4. ASSUME NEW t \in Threads, Shared!RdSub(t) \/ Shared!UnlockSub(t) PROVE RWInv'
  <2>1. /\ rwPc[t] \in {"r_sub", "u_sub"}
        /\ \E l \in {"r_load", "u_waker", "idle"} : rwPc' = [rwPc EXCEPT ![t] = l]
        /\ readers' = readers - 1 /\ UNCHANGED <<writer, mode>>
    BY <1>4 DEF Shared!RdSub, Shared!UnlockSub, Shared!Goto
  <2>2. mode[t] = "none"
    BY <2>1 DEF RWInv, HoldersIdle
  <2>3. t \in Shared!Counted /\ Shared!Counted' = Shared!Counted \ {t}
    BY <2>1, <2>2 DEF Shared!Counted, RWInv, Shared!TypeOK
  <2>4. Cardinality(Shared!Counted') = Cardinality(Shared!Counted) - 1
    BY <2>3, CountedShrinks, SMTT(20)
  <2>5. \A u \in Threads : Claims(u)' <=> Claims(u)
    BY <2>1 DEF Claims, RWInv, Shared!TypeOK
  <2>6. (readers' = Cardinality(Shared!Counted')) <=> (readers = Cardinality(Shared!Counted))
    BY <2>1, <2>4, CountedFinite DEF RWInv, Shared!TypeOK
  <2>7. HoldersIdle' /\ Shared!ReadersCounted'
    BY <2>1, <2>2, <2>4, CountedFinite, CountIs DEF RWInv, Shared!TypeOK, HoldersIdle
  <2>8. FlagOwned' /\ WriterAlone'
    BY <2>1, <2>5, <2>6 DEF RWInv, FlagOwned, WriterAlone
  <2> QED BY <1>0, <2>7, <2>8 DEF RWInv
<1>5. ASSUME NEW t \in Threads, Shared!RdCheck(t) PROVE RWInv'
  <2>1. CASE writer = 0
    <3>1. /\ rwPc[t] = "r_check" /\ rwPc' = [rwPc EXCEPT ![t] = "idle"]
          /\ mode' = [mode EXCEPT ![t] = "read"] /\ UNCHANGED <<readers, writer>>
      BY <1>5, <2>1 DEF Shared!RdCheck, Shared!Return, Shared!Goto
    <3>2. Shared!Counted' = Shared!Counted
      BY <3>1 DEF Shared!Counted, RWInv, Shared!TypeOK
    <3>3. \A u \in Threads : mode[u] # "write"
      BY <2>1 DEF RWInv, WriterAlone, FlagOwned, Claims, Shared!TypeOK
    <3>4. \A u \in Threads : Claims(u)' <=> Claims(u)
      BY <3>1, <3>3 DEF Claims, RWInv, Shared!TypeOK
    <3>5. HoldersIdle' /\ Shared!ReadersCounted' /\ WriterAlone'
      BY <3>1, <3>2, <3>3, CountIs DEF RWInv, Shared!TypeOK, HoldersIdle, WriterAlone
    <3>6. FlagOwned'
      BY <3>1, <3>2, <3>4 DEF RWInv, FlagOwned
    <3> QED BY <1>0, <3>5, <3>6 DEF RWInv
  <2>2. CASE writer # 0
    <3>1. /\ rwPc[t] = "r_check" /\ rwPc' = [rwPc EXCEPT ![t] = "r_sub"]
          /\ UNCHANGED <<readers, writer, mode>>
      BY <1>5, <2>2 DEF Shared!RdCheck, Shared!Goto
    <3>2. Shared!Counted' = Shared!Counted
      BY <3>1 DEF Shared!Counted, RWInv, Shared!TypeOK
    <3>3. \A u \in Threads : Claims(u)' <=> Claims(u)
      BY <3>1 DEF Claims, RWInv, Shared!TypeOK
    <3>4. \A u \in Threads : mode[u] # "none" => rwPc'[u] = rwPc[u]
      BY <3>1 DEF RWInv, Shared!TypeOK, HoldersIdle
    <3> QED BY <1>0, <3>1, <3>2, <3>3, <3>4, Neutral
  <2> QED BY <2>1, <2>2
<1>6. ASSUME NEW t \in Threads, Shared!WrExchange(t) PROVE RWInv'
  <2>1. /\ rwPc[t] = "w_xchg" /\ rwPc' = [rwPc EXCEPT ![t] = IF writer = 0 THEN "w_load" ELSE "w_wait"]
        /\ writer' = 1 /\ UNCHANGED <<readers, mode>>
    BY <1>6 DEF Shared!WrExchange, Shared!Goto
  <2>2. Shared!Counted' = Shared!Counted
    BY <2>1 DEF Shared!Counted, RWInv, Shared!TypeOK
  <2>3. mode[t] = "none"
    BY <2>1 DEF RWInv, HoldersIdle
  <2>4. HoldersIdle' /\ Shared!ReadersCounted' /\ WriterAlone'
    BY <2>1, <2>2, <2>3, CountIs DEF RWInv, Shared!TypeOK, HoldersIdle, WriterAlone
  <2>5. CASE writer = 0
    <3>1. \A u \in Threads : Claims(u)' <=> Claims(u) \/ u = t
      BY <2>1, <2>5 DEF Claims, RWInv, Shared!TypeOK
    <3>2. FlagOwned'
      BY <2>1, <2>2, <2>5, <3>1 DEF RWInv, FlagOwned
    <3> QED BY <1>0, <2>4, <3>2 DEF RWInv
  <2>6. CASE writer # 0
    <3>1. \A u \in Threads : Claims(u)' <=> Claims(u)
      BY <2>1, <2>6 DEF Claims, RWInv, Shared!TypeOK
    <3>2. FlagOwned'
      BY <2>1, <2>2, <2>6, <3>1 DEF RWInv, Shared!TypeOK, FlagOwned
    <3> QED BY <1>0, <2>4, <3>2 DEF RWInv
  <2> QED BY <2>5, <2>6
<1>7. ASSUME NEW t \in Threads, Shared!WrLoad(t) PROVE RWInv'
  <2>1. CASE readers = 0
    <3>1. /\ rwPc[t] = "w_load" /\ rwPc' = [rwPc EXCEPT ![t] = "idle"]
          /\ mode' = [mode EXCEPT ![t] = "write"] /\ UNCHANGED <<readers, writer>>
      BY <1>7, <2>1 DEF Shared!WrLoad, Shared!Return, Shared!Goto
    <3>2. Cardinality(Shared!Counted) = 0 /\ Shared!Counted = {}
      BY <2>1, CountedFinite, CountedEmpty, CountIs DEF RWInv
    <3>3. mode[t] = "none"
      BY <3>1 DEF RWInv, HoldersIdle
    <3>4. Shared!Counted' = Shared!Counted
      BY <3>1, <3>3 DEF Shared!Counted, RWInv, Shared!TypeOK
    <3>5. \A u \in Threads : Claims(u)' <=> Claims(u)
      BY <3>1 DEF Claims, RWInv, Shared!TypeOK
    <3>6. \A u \in Threads : mode[u] # "read"
      BY <3>2 DEF Shared!Counted
    <3>7. HoldersIdle' /\ Shared!ReadersCounted' /\ WriterAlone'
      BY <2>1, <3>1, <3>2, <3>4, <3>6, CountIs DEF RWInv, Shared!TypeOK, HoldersIdle, WriterAlone
    <3>8. FlagOwned'
      BY <3>1, <3>4, <3>5 DEF RWInv, FlagOwned
    <3> QED BY <1>0, <3>7, <3>8 DEF RWInv
  <2>2. CASE readers # 0
    <3>1. /\ rwPc[t] = "w_load" /\ rwPc' = [rwPc EXCEPT ![t] = "w_drain"]
          /\ UNCHANGED <<readers, writer, mode>>
      BY <1>7, <2>2 DEF Shared!WrLoad, Shared!Goto
    <3>2. Shared!Counted' = Shared!Counted
      BY <3>1 DEF Shared!Counted, RWInv, Shared!TypeOK
    <3>3. \A u \in Threads : Claims(u)' <=> Claims(u)
      BY <3>1 DEF Claims, RWInv, Shared!TypeOK
    <3>4. \A u \in Threads : mode[u] # "none" => rwPc'[u] = rwPc[u]
      BY <3>1 DEF RWInv, Shared!TypeOK, HoldersIdle
    <3> QED BY <1>0, <3>1, <3>2, <3>3, <3>4, Neutral
  <2> QED BY <2>1, <2>2
<1>8. ASSUME NEW t \in Threads, Shared!Unlock(t) PROVE RWInv'
  <2>1. /\ rwPc[t] = "idle" /\ rwPc' = [rwPc EXCEPT ![t] = IF writer = 1 THEN "u_store" ELSE "u_sub"]
        /\ mode[t] # "none" /\ mode' = [mode EXCEPT ![t] = "none"]
        /\ UNCHANGED <<readers, writer>>
    BY <1>8 DEF Shared!Unlock, Shared!Goto
  <2>2. HoldersIdle'
    BY <2>1 DEF RWInv, HoldersIdle, Shared!TypeOK
  <2>3. CASE mode[t] = "write"
    <3>1. writer = 1 /\ readers = Cardinality(Shared!Counted)
      BY <2>3 DEF RWInv, WriterAlone, FlagOwned, Claims
    <3>2. Shared!Counted' = Shared!Counted
      BY <2>1, <2>3, <3>1 DEF Shared!Counted, RWInv, Shared!TypeOK
    <3>3. \A u \in Threads : Claims(u)' <=> Claims(u)
      BY <2>1, <2>3, <3>1 DEF Claims, RWInv, Shared!TypeOK
    <3>4. Shared!ReadersCounted' /\ WriterAlone' /\ FlagOwned'
      BY <2>1, <3>2, <3>3, CountIs DEF RWInv, Shared!TypeOK, WriterAlone, FlagOwned
    <3> QED BY <1>0, <2>2, <3>4 DEF RWInv
  <2>4. CASE mode[t] = "read" /\ writer = 0
    <3>1. Shared!Counted' = Shared!Counted
      BY <2>1, <2>4 DEF Shared!Counted, RWInv, Shared!TypeOK
    <3>2. \A u \in Threads : Claims(u)' <=> Claims(u)
      BY <2>1, <2>4 DEF Claims, RWInv, Shared!TypeOK
    <3>3. Shared!ReadersCounted' /\ WriterAlone' /\ FlagOwned'
      BY <2>1, <3>1, <3>2, CountIs DEF RWInv, Shared!TypeOK, WriterAlone, FlagOwned
    <3> QED BY <1>0, <2>2, <3>3 DEF RWInv
  <2>5. CASE mode[t] = "read" /\ writer = 1
    <3>1. t \in Shared!Counted /\ Shared!Counted' = Shared!Counted \ {t}
      BY <2>1, <2>5 DEF Shared!Counted, RWInv, Shared!TypeOK
    <3>2. Cardinality(Shared!Counted') = Cardinality(Shared!Counted) - 1
      BY <3>1, CountedShrinks
    <3>3. readers' > Cardinality(Shared!Counted')
      BY <2>1, <3>2, CountedFinite, CountIs DEF RWInv, Shared!TypeOK
    <3>4. \A u \in Threads : mode[u] # "write"
      BY <2>5 DEF RWInv, WriterAlone
    <3>5. Shared!ReadersCounted' /\ WriterAlone' /\ FlagOwned'
      BY <2>1, <3>3, <3>4, CountedFinitePrime, CountIs DEF RWInv, Shared!TypeOK, WriterAlone, FlagOwned
    <3> QED BY <1>0, <2>2, <3>5 DEF RWInv
  <2> QED BY <2>1, <2>3, <2>4, <2>5 DEF RWInv, Shared!TypeOK
<1>9. ASSUME NEW t \in Threads, Shared!UnlockStore(t) PROVE RWInv'
  <2>1. /\ rwPc[t] = "u_store" /\ rwPc' = [rwPc EXCEPT ![t] = "u_wakew"]
        /\ writer' = 0 /\ UNCHANGED <<readers, mode>>
    BY <1>9 DEF Shared!UnlockStore, Shared!Goto
  <2>2. Shared!Counted' = Shared!Counted
    BY <2>1 DEF Shared!Counted, RWInv, Shared!TypeOK
  <2>3. mode[t] = "none" /\ Claims(t)
    BY <2>1 DEF RWInv, HoldersIdle, Claims
  <2>4. \A u \in Threads : Claims(u)' <=> Claims(u) /\ u # t
    BY <2>1, <2>3 DEF Claims, RWInv, Shared!TypeOK
  <2>5. HoldersIdle' /\ Shared!ReadersCounted' /\ WriterAlone'
    BY <2>1, <2>2, <2>3, CountIs DEF RWInv, Shared!TypeOK, HoldersIdle, WriterAlone
  <2>6. FlagOwned'
    BY <2>1, <2>2, <2>3, <2>4 DEF RWInv, FlagOwned
  <2> QED BY <1>0, <2>5, <2>6 DEF RWInv
<1>10. CASE UNCHANGED Shared!vars
  <2>1. Shared!Counted' = Shared!Counted
    BY <1>10 DEF Shared!vars, Shared!Counted
  <2>2. \A u \in Threads : Claims(u)' <=> Claims(u)
    BY <1>10 DEF Shared!vars, Claims
  <2> QED BY <1>0, <1>10, <2>1, <2>2, Neutral DEF Shared!vars
<1> QED BY <1>1, <1>2, <1>3, <1>4, <1>5, <1>6, <1>7, <1>8, <1>9, <1>10 DEF Shared!Next, Shared!Progress

(* The invariant of pthread_rwlock_rdlock, _wrlock and _unlock. *)
THEOREM RWInductive == Shared!Spec => []RWInv
BY RWInit, RWStep, PTL DEF Shared!Spec

(* A writer holds pthread_rwlock_t alone, and the reader count is never    *)
(* smaller than the number of readers, for any number of threads.          *)
THEOREM RWLockExcludes == Shared!Spec => []Exclusion
<1>1. RWInv => Shared!Exclusion
  <2> SUFFICES ASSUME RWInv, NEW t \in Threads, NEW u \in Threads, mode[t] = "write", t # u
               PROVE  mode[u] = "none"
    BY DEF Shared!Exclusion
  <2>1. mode[u] # "write"
    BY DEF RWInv, WriterAlone, FlagOwned, Claims
  <2> QED BY <2>1 DEF RWInv, WriterAlone, Shared!TypeOK
<1>2. RWInv => Exclusion
  BY <1>1 DEF RWInv, Exclusion
<1> QED BY <1>2, RWInductive, PTL
=============================================================================
