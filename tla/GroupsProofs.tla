------------------------------ MODULE GroupsProofs ------------------------------
(***************************************************************************)
(* pthread_barrier_wait implements AbstractBarrier for any finite set of   *)
(* threads and any positive count; pthread_once runs each routine once and *)
(* returns after its end, for any controls, nested in any way; and no      *)
(* thread-specific key is in use twice.                                    *)
(***************************************************************************)
EXTENDS MCGroups, TLAPS

(* pthread_once.  once_lock is not recursive, so a routine's own calls     *)
(* never get past it: they are one deep, and either return at once or wait *)
(* for ever.                                                               *)
OnceLabels == {"start", "check", "lock", "recheck", "init", "end", "store", "unlock", "return", "done"}

OnceTyped ==
  /\ inner \in [Controls -> Controls \cup {NoControl}]
  /\ done \in [Controls -> BOOLEAN]
  /\ runs \in [Controls -> Nat]
  /\ completed \subseteq Controls /\ returned \subseteq Controls
  /\ stack \in [Threads -> Seq(Controls)]
  /\ oncePc \in [Threads -> OnceLabels]

(* The thread is in a routine, or has just left it: its outermost control. *)
Running(t) == oncePc[t] \in {"init", "end", "store"} \/ Len(stack[t]) = 2
Base(t) == stack[t][Len(stack[t])]

OnceCall(t) ==
  /\ oncePc[t] \in {"start", "done"} => Len(stack[t]) = 0
  /\ oncePc[t] \in {"check", "lock", "return"} => Len(stack[t]) \in {1, 2}
  /\ oncePc[t] \in {"recheck", "init", "end", "store", "unlock"} => Len(stack[t]) = 1
  /\ Running(t) \/ oncePc[t] \in {"recheck", "unlock"} => onceLock = t
  /\ oncePc[t] = "store" => stack[t][1] \in completed
  /\ oncePc[t] \in {"unlock", "return"} => done[stack[t][1]]

(* A routine that was started is over or under way, in one thread. *)
OnceInv ==
  /\ OnceTyped
  /\ \A t \in Threads : OnceCall(t)
  /\ \A c \in Controls : runs[c] = 0 \/ (runs[c] = 1 /\ (done[c] \/ \E t \in Threads : Running(t) /\ Base(t) = c))
  /\ \A c \in Controls : done[c] => c \in completed
  /\ returned \subseteq completed

(* What a step leaves to a thread that does not take it. *)
LEMMA OnceBystander ==
  ASSUME OnceInv, NEW u \in Threads, oncePc'[u] = oncePc[u], stack'[u] = stack[u],
         onceLock = u => onceLock' = u, completed \subseteq completed', OnceTyped',
         \A c \in Controls : done[c] => done'[c]
  PROVE  OnceCall(u)' /\ (Running(u)' <=> Running(u)) /\ Base(u)' = Base(u)
<1>1. (Running(u)' <=> Running(u)) /\ Base(u)' = Base(u)
  BY DEF Running, Base
<1>2. stack[u] \in Seq(Controls) /\ oncePc[u] \in OnceLabels /\ OnceCall(u)
  BY DEF OnceInv, OnceTyped
<1>3. oncePc[u] \in {"unlock", "return"} => stack[u][1] \in Controls
  BY <1>2 DEF OnceCall
<1> QED BY <1>1, <1>2, <1>3 DEF OnceCall

(* What has to be shown of a step of t. *)
LEMMA OnceStepOf ==
  ASSUME OnceInv, OnceTyped', NEW t \in Threads,
         \A u \in Threads \ {t} : oncePc'[u] = oncePc[u] /\ stack'[u] = stack[u] /\ (onceLock = u => onceLock' = u),
         completed \subseteq completed', \A c \in Controls : done[c] => done'[c],
         OnceCall(t)',
         \A c \in Controls : runs'[c] = runs[c] \/ (runs[c] = 0 /\ runs'[c] = 1 /\ Running(t)' /\ Base(t)' = c),
         Running(t) => done'[Base(t)] \/ (Running(t)' /\ Base(t)' = Base(t)),
         \A c \in Controls : done'[c] => c \in completed', returned' \subseteq completed'
  PROVE  OnceInv'
<1>1. \A u \in Threads \ {t} : OnceCall(u)' /\ (Running(u)' <=> Running(u)) /\ Base(u)' = Base(u)
  BY OnceBystander
<1>2. ASSUME NEW c \in Controls
      PROVE  (runs[c] = 0 \/ (runs[c] = 1 /\ (done[c] \/ \E u \in Threads : Running(u) /\ Base(u) = c)))'
  <2>1. CASE runs'[c] = runs[c] /\ runs[c] # 0
    <3>1. CASE done[c]
      BY <2>1, <3>1 DEF OnceInv
    <3>2. CASE ~done[c]
      <4>1. PICK u \in Threads : Running(u) /\ Base(u) = c
        BY <2>1, <3>2 DEF OnceInv
      <4> QED BY <2>1, <4>1, <1>1 DEF OnceInv
    <3> QED BY <3>1, <3>2
  <2> QED BY <2>1
<1> QED BY <1>1, <1>2 DEF OnceInv

(* One thread moves. *)
LEMMA OnceGoto ==
  ASSUME OnceInv, NEW t \in Threads, NEW l \in OnceLabels, Once!Goto(t, l)
  PROVE  /\ oncePc' \in [Threads -> OnceLabels] /\ oncePc'[t] = l
         /\ \A u \in Threads \ {t} : oncePc'[u] = oncePc[u]
BY DEF OnceInv, OnceTyped, Once!Goto

(* Steps of the fast path and around the lock: the stacks stay. *)
LEMMA OnceSteps ==
  ASSUME OnceInv, NEW t \in Threads,
         Once!Check(t) \/ Once!Lock(t) \/ Once!Recheck(t) \/ Once!RoutineEnds(t) \/ Once!Store(t) \/ Once!Unlock(t)
  PROVE  OnceInv'
<1> DEFINE c == stack[t][1]
<1>1. OnceTyped /\ OnceCall(t) /\ stack[t] \in Seq(Controls)
  BY DEF OnceInv, OnceTyped
<1>2. stack' = stack /\ inner' = inner /\ returned' = returned
  BY DEF Once!Check, Once!Lock, Once!Recheck, Once!RoutineEnds, Once!Store, Once!Unlock
<1>3. Len(stack[t]) \in {1, 2} /\ c \in Controls /\ Once!Top(t) = c
  <2>1. Len(stack[t]) \in {1, 2}
    BY <1>1 DEF OnceCall, Once!Check, Once!Lock, Once!Recheck, Once!RoutineEnds, Once!Store, Once!Unlock
  <2> QED BY <1>1, <2>1 DEF Once!Top
<1>4. Base(t)' = Base(t) /\ Base(t) \in Controls /\ (Len(stack[t]) = 1 => Base(t) = c)
  BY <1>1, <1>2, <1>3 DEF Base
<1> HIDE DEF c
<1>5. CASE Once!Check(t)
  <2>1. PICK l \in {"return", "lock"} : Once!Goto(t, l) /\ (l = "return" => done[c])
    BY <1>3, <1>5 DEF Once!Check
  <2>2. UNCHANGED <<done, onceLock, runs, completed>> /\ oncePc[t] = "check"
    BY <1>5 DEF Once!Check
  <2>3. /\ oncePc' \in [Threads -> OnceLabels] /\ oncePc'[t] = l
        /\ \A u \in Threads \ {t} : oncePc'[u] = oncePc[u]
    BY <2>1, OnceGoto DEF OnceLabels
  <2>4. OnceTyped' /\ (Running(t) <=> Running(t)')
    BY <1>1, <1>2, <2>1, <2>2, <2>3 DEF OnceTyped, Running
  <2>5. OnceCall(t)'
    BY <1>1, <1>2, <1>3, <2>1, <2>2, <2>3, <2>4 DEF OnceCall, c
  <2> QED BY <1>2, <1>4, <2>2, <2>3, <2>4, <2>5, OnceStepOf DEF OnceInv
<1>6. CASE Once!Lock(t)
  <2>1. UNCHANGED <<done, runs, completed>> /\ oncePc[t] = "lock" /\ onceLock = NoThread /\ onceLock' = t
        /\ Once!Goto(t, "recheck")
    BY <1>6 DEF Once!Lock
  <2>2. /\ oncePc' \in [Threads -> OnceLabels] /\ oncePc'[t] = "recheck"
        /\ \A u \in Threads \ {t} : oncePc'[u] = oncePc[u]
    BY <2>1, OnceGoto DEF OnceLabels
  <2>3. ~Running(t) /\ Len(stack[t]) = 1 /\ \A u \in Threads : onceLock # u
    BY <1>1, <1>3, <2>1, ThreadsAssumption DEF OnceCall, Running
  <2>4. OnceTyped' /\ OnceCall(t)'
    BY <1>1, <1>2, <2>1, <2>2, <2>3 DEF OnceTyped, OnceCall, Running
  <2> QED BY <1>2, <2>1, <2>2, <2>3, <2>4, OnceStepOf DEF OnceInv
<1>7. CASE Once!Recheck(t)
  <2>1. UNCHANGED <<done, onceLock, completed>> /\ oncePc[t] = "recheck" /\ onceLock = t /\ Len(stack[t]) = 1 /\ ~Running(t)
    <3>1. UNCHANGED <<done, onceLock, completed>> /\ oncePc[t] = "recheck"
      BY <1>7 DEF Once!Recheck
    <3>2. onceLock = t /\ Len(stack[t]) = 1
      BY <1>1, <3>1 DEF OnceCall
    <3> QED BY <3>1, <3>2 DEF Running
  <2>2. CASE done[c]
    <3>1. Once!Goto(t, "unlock") /\ runs' = runs
      BY <1>3, <1>7, <2>2 DEF Once!Recheck
    <3>2. /\ oncePc' \in [Threads -> OnceLabels] /\ oncePc'[t] = "unlock"
          /\ \A u \in Threads \ {t} : oncePc'[u] = oncePc[u]
      BY <3>1, OnceGoto DEF OnceLabels
    <3>3. OnceTyped' /\ OnceCall(t)'
      BY <1>1, <1>2, <2>1, <2>2, <3>1, <3>2 DEF OnceTyped, OnceCall, Running, c
    <3> QED BY <1>2, <2>1, <3>1, <3>2, <3>3, OnceStepOf DEF OnceInv
  <2>3. CASE ~done[c]
    <3>1. Once!Goto(t, "init") /\ runs' = [runs EXCEPT ![c] = @ + 1]
      BY <1>3, <1>7, <2>3 DEF Once!Recheck
    <3>2. /\ oncePc' \in [Threads -> OnceLabels] /\ oncePc'[t] = "init"
          /\ \A u \in Threads \ {t} : oncePc'[u] = oncePc[u]
      BY <3>1, OnceGoto DEF OnceLabels
    <3>3. \A u \in Threads : ~Running(u)
      BY <2>1 DEF OnceInv, OnceCall
    <3>4. runs[c] = 0
      BY <1>3, <2>3, <3>3 DEF OnceInv
    <3>5. runs' \in [Controls -> Nat] /\ runs'[c] = 1 /\ \A d \in Controls \ {c} : runs'[d] = runs[d]
      BY <1>1, <1>3, <3>1, <3>4 DEF OnceTyped
    <3>6. OnceTyped' /\ OnceCall(t)' /\ Running(t)'
      BY <1>1, <1>2, <2>1, <3>2, <3>5 DEF OnceTyped, OnceCall, Running
    <3> QED BY <1>2, <1>4, <2>1, <3>2, <3>4, <3>5, <3>6, OnceStepOf DEF OnceInv
  <2> QED BY <2>2, <2>3
<1>8. CASE Once!RoutineEnds(t)
  <2>1. UNCHANGED <<done, onceLock, runs>> /\ oncePc[t] = "end" /\ completed' = completed \cup {c} /\ Once!Goto(t, "store")
    BY <1>3, <1>8 DEF Once!RoutineEnds
  <2>2. /\ oncePc' \in [Threads -> OnceLabels] /\ oncePc'[t] = "store"
        /\ \A u \in Threads \ {t} : oncePc'[u] = oncePc[u]
    BY <2>1, OnceGoto DEF OnceLabels
  <2>3. OnceTyped' /\ OnceCall(t)' /\ Running(t)'
    BY <1>1, <1>2, <1>3, <2>1, <2>2 DEF OnceTyped, OnceCall, Running, c
  <2> QED BY <1>2, <1>4, <2>1, <2>2, <2>3, OnceStepOf DEF OnceInv
<1>9. CASE Once!Store(t)
  <2>1. UNCHANGED <<completed, onceLock, runs>> /\ oncePc[t] = "store" /\ done' = [done EXCEPT ![c] = TRUE] /\ Once!Goto(t, "unlock")
    BY <1>3, <1>9 DEF Once!Store
  <2>2. /\ oncePc' \in [Threads -> OnceLabels] /\ oncePc'[t] = "unlock"
        /\ \A u \in Threads \ {t} : oncePc'[u] = oncePc[u]
    BY <2>1, OnceGoto DEF OnceLabels
  <2>3. c \in completed /\ Len(stack[t]) = 1 /\ onceLock = t
    BY <1>1, <2>1 DEF OnceCall, Running, c
  <2>4. done' \in [Controls -> BOOLEAN] /\ done'[c] /\ \A d \in Controls \ {c} : done'[d] = done[d]
    BY <1>1, <1>3, <2>1 DEF OnceTyped
  <2>5. OnceTyped' /\ OnceCall(t)'
    BY <1>1, <1>2, <2>1, <2>2, <2>3, <2>4 DEF OnceTyped, OnceCall, Running, c
  <2> QED BY <1>2, <1>4, <2>1, <2>2, <2>3, <2>4, <2>5, OnceStepOf DEF OnceInv
<1>10. CASE Once!Unlock(t)
  <2>1. UNCHANGED <<completed, done, runs>> /\ oncePc[t] = "unlock" /\ Once!Goto(t, "return")
    BY <1>10 DEF Once!Unlock
  <2>2. /\ oncePc' \in [Threads -> OnceLabels] /\ oncePc'[t] = "return"
        /\ \A u \in Threads \ {t} : oncePc'[u] = oncePc[u]
    BY <2>1, OnceGoto DEF OnceLabels
  <2>3. done[c] /\ Len(stack[t]) = 1 /\ onceLock = t /\ ~Running(t)
    <3>1. done[c] /\ Len(stack[t]) = 1 /\ onceLock = t
      BY <1>1, <2>1 DEF OnceCall, c
    <3> QED BY <2>1, <3>1 DEF Running
  <2>4. OnceTyped' /\ OnceCall(t)'
    BY <1>1, <1>2, <2>1, <2>2, <2>3 DEF OnceTyped, OnceCall, Running, c
  <2> QED BY <1>2, <2>1, <2>2, <2>3, <2>4, OnceStepOf DEF OnceInv
<1> QED BY <1>5, <1>6, <1>7, <1>8, <1>9, <1>10

(* A sequence with one more element in front. *)
LEMMA Pushed ==
  ASSUME NEW S, NEW e \in S, NEW s \in Seq(S)
  PROVE  /\ <<e>> \o s \in Seq(S) /\ Len(<<e>> \o s) = 1 + Len(s)
         /\ \A i \in 1 .. Len(s) : (<<e>> \o s)[i + 1] = s[i]
OBVIOUS

(* A short sequence without its first element. *)
LEMMA Popped ==
  ASSUME NEW S, NEW s \in Seq(S), Len(s) \in {1, 2}
  PROVE  /\ Tail(s) \in Seq(S) /\ Len(Tail(s)) = Len(s) - 1
         /\ Len(s) = 2 => Tail(s)[1] = s[2]
OBVIOUS

(* Steps that push or pop a control. *)
LEMMA OnceCalls ==
  ASSUME OnceInv, NEW t \in Threads,
         Once!Routine(t) \/ Once!Return(t) \/ \E c \in Controls : Once!Call(t, c)
  PROVE  OnceInv'
<1>1. OnceTyped /\ OnceCall(t) /\ stack[t] \in Seq(Controls)
  BY DEF OnceInv, OnceTyped
<1>2. UNCHANGED <<inner, done, onceLock, runs, completed>>
  BY DEF Once!Routine, Once!Return, Once!Call
<1>3. ASSUME NEW l \in OnceLabels, Once!Goto(t, l), NEW s \in Seq(Controls), stack' = [stack EXCEPT ![t] = s],
             returned' \subseteq completed, OnceCall(t)', Running(t) => Running(t)' /\ Base(t)' = Base(t)
      PROVE  OnceInv'
  <2>1. /\ oncePc' \in [Threads -> OnceLabels]
        /\ \A u \in Threads \ {t} : oncePc'[u] = oncePc[u] /\ stack'[u] = stack[u]
    BY <1>1, <1>3, OnceGoto DEF OnceTyped
  <2>2. OnceTyped'
    BY <1>1, <1>2, <1>3, <2>1, Zenon DEF OnceTyped
  <2> QED BY <1>2, <1>3, <2>1, <2>2, OnceStepOf DEF OnceInv
<1>4. ASSUME NEW c \in Controls, Once!Call(t, c) PROVE OnceInv'
  <2>1. oncePc[t] = "start" /\ stack' = [stack EXCEPT ![t] = <<c>>] /\ Once!Goto(t, "check") /\ returned' = returned
    BY <1>4 DEF Once!Call
  <2>2. <<c>> \in Seq(Controls) /\ stack'[t] = <<c>> /\ Len(stack'[t]) = 1 /\ oncePc'[t] = "check"
    BY <1>1, <2>1, OnceGoto DEF OnceTyped, OnceLabels
  <2>3. OnceCall(t)' /\ ~Running(t)
    <3>1. Len(stack[t]) = 0
      BY <1>1, <2>1 DEF OnceCall
    <3>2. ~Running(t) /\ ~Running(t)'
      BY <2>1, <2>2, <3>1 DEF Running
    <3> QED BY <2>2, <3>2 DEF OnceCall
  <2> QED BY <1>3, <2>1, <2>2, <2>3, Zenon DEF OnceInv, OnceLabels
<1>5. CASE Once!Routine(t)
  <2> DEFINE c == stack[t][1]
  <2>1. oncePc[t] = "init" /\ Len(stack[t]) = 1 /\ onceLock = t /\ Running(t) /\ returned' = returned
    BY <1>1, <1>5 DEF Once!Routine, OnceCall, Running
  <2>2. c \in Controls /\ Once!Top(t) = c /\ Base(t) = c
    BY <1>1, <2>1 DEF Once!Top, Base
  <2> HIDE DEF c
  <2>3. CASE inner[c] # NoControl
    <3> DEFINE s == <<inner[c]>> \o stack[t]
    <3>1. stack' = [stack EXCEPT ![t] = s] /\ Once!Goto(t, "check")
      BY <1>5, <2>2, <2>3 DEF Once!Routine
    <3>2. inner[c] \in Controls
      BY <1>1, <2>2, <2>3 DEF OnceTyped
    <3>3. s \in Seq(Controls) /\ Len(s) = 2 /\ s[2] = c
      <4>1. s \in Seq(Controls) /\ Len(s) = 1 + 1 /\ s[1 + 1] = stack[t][1]
        <5>1. stack[t] \in Seq(Controls)
          BY <1>1
        <5> QED BY <2>1, <3>2, <5>1, Pushed
      <4> QED BY <4>1 DEF c
    <3> HIDE DEF s
    <3>4. stack'[t] = s /\ oncePc'[t] = "check"
      BY <1>1, <3>1, OnceGoto DEF OnceTyped, OnceLabels
    <3>5. OnceCall(t)' /\ Running(t)' /\ Base(t)' = c
      BY <1>2, <2>1, <3>3, <3>4, Zenon DEF OnceCall, Running, Base
    <3> QED BY <1>3, <2>1, <2>2, <3>1, <3>3, <3>5, Zenon DEF OnceInv, OnceLabels
  <2>4. CASE inner[c] = NoControl
    <3>1. stack' = stack /\ Once!Goto(t, "end")
      BY <1>5, <2>2, <2>4 DEF Once!Routine
    <3>2. stack' = [stack EXCEPT ![t] = stack[t]] /\ stack'[t] = stack[t] /\ oncePc'[t] = "end"
      BY <1>1, <3>1, OnceGoto DEF OnceTyped, OnceLabels
    <3>3. OnceCall(t)' /\ Running(t)' /\ Base(t)' = c
      BY <1>2, <2>1, <2>2, <3>2 DEF OnceCall, Running, Base
    <3> QED BY <1>1, <1>3, <2>1, <2>2, <3>1, <3>2, <3>3, Zenon DEF OnceInv, OnceLabels
  <2> QED BY <2>3, <2>4
<1>6. CASE Once!Return(t)
  <2> DEFINE s == Tail(stack[t])
             l == IF Len(stack[t]) = 1 THEN "done" ELSE "end"
  <2>1. /\ oncePc[t] = "return" /\ Len(stack[t]) \in {1, 2} /\ returned' = returned \cup {Once!Top(t)}
        /\ stack' = [stack EXCEPT ![t] = s] /\ Once!Goto(t, l)
    BY <1>1, <1>6 DEF Once!Return, OnceCall
  <2>2. stack[t][1] \in Controls /\ Once!Top(t) = stack[t][1] /\ done[stack[t][1]]
    BY <1>1, <2>1 DEF Once!Top, OnceCall
  <2>3. returned' \subseteq completed
    BY <2>1, <2>2 DEF OnceInv
  <2>4. /\ s \in Seq(Controls) /\ Len(s) = Len(stack[t]) - 1
        /\ Len(stack[t]) = 2 => s[1] = stack[t][2]
    BY <1>1, <2>1, Popped
  <2>5. l \in OnceLabels
    BY DEF OnceLabels
  <2> HIDE DEF s
  <2>6. stack'[t] = s /\ oncePc'[t] = l
    BY <1>1, <2>1, <2>5, OnceGoto DEF OnceTyped
  <2>7. Running(t) <=> Len(stack[t]) = 2
    BY <2>1 DEF Running
  <2>8. OnceCall(t)'
    <3>1. CASE Len(stack[t]) = 1
      <4>1. Len(stack'[t]) = 0 /\ oncePc'[t] = "done"
        BY <2>4, <2>6, <3>1
      <4> QED BY <4>1 DEF OnceCall, Running
    <3>2. CASE Len(stack[t]) = 2
      <4>1. Len(stack'[t]) = 1 /\ oncePc'[t] = "end" /\ onceLock = t
        BY <1>1, <2>4, <2>6, <2>7, <3>2 DEF OnceCall
      <4> QED BY <1>2, <4>1 DEF OnceCall, Running
    <3> QED BY <2>1, <3>1, <3>2
  <2>9. Running(t) => Running(t)' /\ Base(t)' = Base(t)
    BY <2>1, <2>4, <2>6, <2>7 DEF Running, Base
  <2> HIDE DEF l
  <2> QED BY <1>3, <2>1, <2>3, <2>4, <2>5, <2>8, <2>9, Zenon
<1> QED BY <1>4, <1>5, <1>6

(* Every step of pthread_once keeps the invariant. *)
LEMMA OnceStep == ASSUME OnceInv, Once!Next \/ UNCHANGED onceVars PROVE OnceInv'
<1>1. CASE UNCHANGED onceVars
  BY <1>1 DEF onceVars, OnceInv, OnceTyped, OnceCall, Running, Base
<1>2. CASE Once!Next
  BY <1>2, OnceSteps, OnceCalls DEF Once!Next, Once!Progress
<1> QED BY <1>1, <1>2

(* Each routine is started at most once, and pthread_once returns after    *)
(* its end, for any threads and controls and however the routines call     *)
(* pthread_once themselves.                                                *)
THEOREM OnceRunsOnce == GroupsSpec => []OnceExact
<1>1. GroupsInit => OnceInv
  <2> SUFFICES ASSUME GroupsInit PROVE OnceInv
    OBVIOUS
  <2>1. Once!Init
    BY DEF GroupsInit
  <2>2. OnceTyped /\ \A t \in Threads : stack[t] = <<>> /\ oncePc[t] = "start"
    BY <2>1 DEF Once!Init, OnceTyped, OnceLabels
  <2>3. \A t \in Threads : OnceCall(t)
    BY <2>2 DEF OnceCall, Running
  <2> QED BY <2>1, <2>2, <2>3 DEF OnceInv, Once!Init
<1>2. OnceInv /\ [GroupsNext]_groupVars => OnceInv'
  BY OnceStep DEF GroupsNext, groupVars
<1>3. OnceInv => OnceExact
  BY DEF OnceInv, OnceExact, Once!RunsOnce, Once!ReadyOnReturn
<1> QED BY <1>1, <1>2, <1>3, PTL DEF GroupsSpec
-----------------------------------------------------------------------------
(* Thread-specific keys.  Of a thread that is the only one to use keys: a  *)
(* value is under a key that is live, and so is the key it is about to     *)
(* store a value under.  No other thread has a value.                      *)
Alone ==
  /\ keyPc[Single] = "store" => <<arg[Single][1], arg[Single][2]>> \in live /\ arg[Single][1] \in Keys!Keys
  /\ \A k \in Keys!Keys : value[Single][k] # Null => <<k, stored[Single][k]>> \in live
  /\ \A t \in KeyUsers \ {Single}, k \in Keys!Keys : value[t][k] = Null

KeysTyped ==
  /\ value \in [KeyUsers -> [Keys!Keys -> Values \cup {Null}]]
  /\ stored \in [KeyUsers -> [Keys!Keys -> Nat]]
  /\ made \in Nat
  /\ live \in SUBSET (Keys!Keys \X Nat)
  /\ keyPc \in [KeyUsers -> {"idle", "store"}]
  /\ arg \in [KeyUsers -> (Nat \X Nat \X (Values \cup {Null}))]
  /\ \A t \in KeyUsers : keyPc[t] = "store" => arg[t][1] \in Keys!Keys

KeysInv == KeysTyped /\ Keys!KeysDistinct /\ (kind = "single" => Alone)

(* Every step of a user of keys keeps the keys distinct. *)
LEMMA KeysStep ==
  ASSUME KeysTyped, Keys!KeysDistinct, NEW t \in KeyUsers, Keys!Step(t)
  PROVE  KeysTyped' /\ Keys!KeysDistinct'
<1>1. CASE Keys!KeyCreate(t)
  <2>1. PICK k \in Keys!Keys : k \notin used /\ used' = used \cup {k} /\ live' = live \cup {<<k, made + 1>>}
    BY <1>1 DEF Keys!KeyCreate, Keys!FirstFree
  <2>2. made' = made + 1 /\ UNCHANGED <<value, stored, keyPc, arg>>
    BY <1>1 DEF Keys!KeyCreate
  <2>3. \A h \in live : h[1] # k
    BY <2>1 DEF Keys!KeysDistinct
  <2>4. <<k, made + 1>> \in Keys!Keys \X Nat /\ <<k, made + 1>>[1] = k /\ made + 1 \in Nat
    BY <2>1 DEF KeysTyped
  <2>5. KeysTyped'
    BY <2>1, <2>2, <2>4 DEF KeysTyped
  <2>6. Keys!KeysDistinct'
    BY <2>1, <2>3, <2>4, Zenon DEF Keys!KeysDistinct
  <2> QED BY <2>5, <2>6
<1>2. CASE Keys!KeyDelete(t)
  <2>1. PICK h \in live : used' = used \ {h[1]} /\ live' = live \ {h} /\ value' = [value EXCEPT ![t][h[1]] = Null]
    BY <1>2, Zenon DEF Keys!KeyDelete
  <2>2. UNCHANGED <<made, stored, keyPc, arg>> /\ h[1] \in Keys!Keys
    BY <1>2 DEF Keys!KeyDelete, KeysTyped
  <2>3. value' \in [KeyUsers -> [Keys!Keys -> Values \cup {Null}]]
    BY <2>1, <2>2 DEF KeysTyped
  <2>4. Keys!KeysDistinct'
    BY <2>1 DEF Keys!KeysDistinct
  <2> QED BY <2>1, <2>2, <2>3, <2>4 DEF KeysTyped
<1>3. CASE Keys!SetTest(t)
  <2>1. PICK h \in live, v \in Values : arg' = [arg EXCEPT ![t] = <<h[1], h[2], v>>]
    BY <1>3, Zenon DEF Keys!SetTest
  <2>2. UNCHANGED <<used, value, made, live, stored>> /\ keyPc' = [keyPc EXCEPT ![t] = "store"]
    BY <1>3 DEF Keys!SetTest
  <2>3. h[1] \in Keys!Keys /\ h[1] \in Nat /\ h[2] \in Nat
    BY DEF KeysTyped, Keys!Keys
  <2>4. <<h[1], h[2], v>> \in Nat \X Nat \X (Values \cup {Null})
    BY <2>3
  <2>5. /\ arg' \in [KeyUsers -> (Nat \X Nat \X (Values \cup {Null}))]
        /\ arg'[t][1] = h[1] /\ \A u \in KeyUsers \ {t} : arg'[u] = arg[u]
    BY <2>1, <2>4 DEF KeysTyped
  <2>6. keyPc' \in [KeyUsers -> {"idle", "store"}] /\ \A u \in KeyUsers \ {t} : keyPc'[u] = keyPc[u]
    BY <2>2 DEF KeysTyped
  <2>7. Keys!KeysDistinct'
    BY <2>2 DEF Keys!KeysDistinct
  <2> QED BY <2>2, <2>3, <2>5, <2>6, <2>7 DEF KeysTyped
<1>4. CASE Keys!SetStore(t)
  <2> DEFINE k == arg[t][1]
  <2>1. /\ keyPc[t] = "store" /\ UNCHANGED <<used, made, live, arg>> /\ keyPc' = [keyPc EXCEPT ![t] = "idle"]
        /\ value' = [value EXCEPT ![t][k] = arg[t][3]] /\ stored' = [stored EXCEPT ![t][k] = arg[t][2]]
    BY <1>4 DEF Keys!SetStore
  <2>2. k \in Keys!Keys /\ arg[t][2] \in Nat /\ arg[t][3] \in Values \cup {Null}
    BY <2>1 DEF KeysTyped
  <2> HIDE DEF k
  <2>3. value' \in [KeyUsers -> [Keys!Keys -> Values \cup {Null}]]
    BY <2>1, <2>2 DEF KeysTyped
  <2>4. stored' \in [KeyUsers -> [Keys!Keys -> Nat]]
    BY <2>1, <2>2 DEF KeysTyped
  <2>5. keyPc' \in [KeyUsers -> {"idle", "store"}] /\ \A u \in KeyUsers : keyPc'[u] = "store" => keyPc[u] = "store"
    BY <2>1 DEF KeysTyped
  <2>6. Keys!KeysDistinct'
    BY <2>1 DEF Keys!KeysDistinct
  <2> QED BY <2>1, <2>3, <2>4, <2>5, <2>6 DEF KeysTyped
<1> QED BY <1>1, <1>2, <1>3, <1>4 DEF Keys!Step

USE SingleAssumption

(* A single user leaves no value under a key that is not in use. *)
LEMMA AloneStep ==
  ASSUME KeysTyped, Keys!KeysDistinct, Alone, Keys!Step(Single)
  PROVE  Alone'
<1>1. \A k, n : <<k, n>> \in live => k \in used
  BY DEF Keys!KeysDistinct
<1>2. CASE Keys!KeyCreate(Single)
  <2>1. live \subseteq live' /\ UNCHANGED <<value, stored, keyPc, arg>>
    BY <1>2 DEF Keys!KeyCreate
  <2> QED BY <2>1 DEF Alone
<1>3. CASE Keys!KeyDelete(Single)
  <2>1. PICK h \in live : live' = live \ {h} /\ value' = [value EXCEPT ![Single][h[1]] = Null]
    BY <1>3, Zenon DEF Keys!KeyDelete
  <2>2. UNCHANGED <<stored, keyPc, arg>> /\ keyPc[Single] = "idle" /\ h[1] \in Keys!Keys
    BY <1>3 DEF Keys!KeyDelete, KeysTyped
  <2>3. /\ value'[Single][h[1]] = Null
        /\ \A k \in Keys!Keys \ {h[1]} : value'[Single][k] = value[Single][k]
        /\ \A t \in KeyUsers \ {Single} : value'[t] = value[t]
    BY <2>1, <2>2 DEF KeysTyped
  <2>4. ASSUME NEW k \in Keys!Keys, value'[Single][k] # Null PROVE <<k, stored[Single][k]>> \in live'
    <3>1. k # h[1] /\ <<k, stored[Single][k]>> \in live
      BY <2>3, <2>4 DEF Alone
    <3>2. <<k, stored[Single][k]>>[1] = k
      OBVIOUS
    <3> QED BY <2>1, <3>1, <3>2
  <2> QED BY <2>2, <2>3, <2>4 DEF Alone
<1>4. CASE Keys!SetTest(Single)
  <2>1. PICK h \in live, v \in Values : arg' = [arg EXCEPT ![Single] = <<h[1], h[2], v>>]
    BY <1>4, Zenon DEF Keys!SetTest
  <2>2. UNCHANGED <<value, live, stored>>
    BY <1>4 DEF Keys!SetTest
  <2>3. arg'[Single] = <<h[1], h[2], v>>
    BY <2>1 DEF KeysTyped
  <2>4. h = <<h[1], h[2]>> /\ h[1] \in Keys!Keys
    BY DEF KeysTyped
  <2>5. arg'[Single][1] = h[1] /\ arg'[Single][2] = h[2]
    BY <2>3
  <2> QED BY <2>2, <2>4, <2>5 DEF Alone
<1>5. CASE Keys!SetStore(Single)
  <2> DEFINE k == arg[Single][1]
  <2>1. /\ keyPc[Single] = "store" /\ UNCHANGED <<live, arg>> /\ keyPc' = [keyPc EXCEPT ![Single] = "idle"]
        /\ value' = [value EXCEPT ![Single][k] = arg[Single][3]]
        /\ stored' = [stored EXCEPT ![Single][k] = arg[Single][2]]
    BY <1>5 DEF Keys!SetStore
  <2>2. k \in Keys!Keys /\ <<k, arg[Single][2]>> \in live /\ keyPc'[Single] = "idle"
    BY <2>1 DEF Alone, KeysTyped
  <2> HIDE DEF k
  <2>3. /\ stored'[Single][k] = arg[Single][2]
        /\ \A j \in Keys!Keys \ {k} : stored'[Single][j] = stored[Single][j]
    BY <2>1, <2>2 DEF KeysTyped
  <2>4. /\ \A j \in Keys!Keys \ {k} : value'[Single][j] = value[Single][j]
        /\ \A t \in KeyUsers \ {Single} : value'[t] = value[t]
    BY <2>1, <2>2 DEF KeysTyped
  <2> QED BY <2>1, <2>2, <2>3, <2>4 DEF Alone
<1> QED BY <1>2, <1>3, <1>4, <1>5 DEF Keys!Step

(* No key is handed out while it is in use, and every key in use is known  *)
(* to pthread_setspecific, whatever the threads do; and when one thread    *)
(* alone uses keys, a key that pthread_key_create returns has no value.    *)
THEOREM KeysAreDistinct == GroupsSpec => []KeysExact
<1>1. GroupsInit => KeysInv
  <2> SUFFICES ASSUME Keys!Init PROVE KeysInv
    BY DEF GroupsInit
  <2>1. <<0, 0, Null>> \in Nat \X Nat \X (Values \cup {Null})
    OBVIOUS
  <2>2. KeysTyped
    BY <2>1 DEF Keys!Init, KeysTyped
  <2>3. Keys!KeysDistinct
    BY DEF Keys!Init, Keys!KeysDistinct
  <2>4. Alone
    BY DEF Keys!Init, Alone
  <2> QED BY <2>2, <2>3, <2>4 DEF KeysInv
<1>2. KeysInv /\ [GroupsNext]_groupVars => KeysInv'
  <2> SUFFICES ASSUME KeysInv, [GroupsNext]_groupVars PROVE KeysInv'
    OBVIOUS
  <2>1. CASE UNCHANGED <<kind, keyVars>>
    BY <2>1 DEF keyVars, KeysInv, KeysTyped, Alone, Keys!KeysDistinct
  <2>2. CASE kind' = kind /\ kind = "keys" /\ Keys!Next
    BY <2>2, KeysStep DEF KeysInv, Keys!Next
  <2>3. CASE kind' = kind /\ kind = "single" /\ Keys!Step(Single)
    BY <2>3, KeysStep, AloneStep DEF KeysInv
  <2> QED BY <2>1, <2>2, <2>3 DEF GroupsNext, groupVars
<1>3. KeysInv => KeysExact
  <2> SUFFICES ASSUME KeysInv, kind = "single", NEW t \in KeyUsers, NEW h \in live, stored[t][h[1]] # h[2]
               PROVE  Keys!Get(t, h[1]) = Null
    BY DEF KeysInv, KeysExact, Keys!NewKeyEmpty
  <2>1. h = <<h[1], h[2]>> /\ h[1] \in Keys!Keys
    BY DEF KeysInv, KeysTyped
  <2>2. value[t][h[1]] = Null
    <3>1. CASE t = Single /\ value[t][h[1]] # Null
      <4>1. <<h[1], stored[t][h[1]]>> \in live
        BY <2>1, <3>1 DEF KeysInv, Alone
      <4>2. <<h[1], stored[t][h[1]]>>[1] = h[1] /\ <<h[1], stored[t][h[1]]>>[2] = stored[t][h[1]]
        OBVIOUS
      <4> QED BY <4>1, <4>2 DEF KeysInv, Keys!KeysDistinct
    <3> QED BY <2>1, <3>1 DEF KeysInv, Alone
  <2> QED BY <2>2 DEF Keys!Get
<1> QED BY <1>1, <1>2, <1>3, PTL DEF GroupsSpec

-----------------------------------------------------------------------------
INSTANCE FiniteSetTheorems

(* The lines of pthread_barrier_wait that run with the lock held. *)
Locked == {"phase", "add", "reset", "advance", "signal", "wake", "last",
           "test", "load", "unlock", "leave"}

LockExact == \A t \in Threads : pc[t] \in Locked <=> holder = t

(* A local phase is never ahead, and is current between its load and the   *)
(* moment the caller joins its group.                                      *)
PhaseKnown ==
  /\ \A t \in Threads : pc[t] \in InLoop => myphase[t] <= phase
  /\ \A t \in Threads : pc[t] \in {"add", "reset", "advance"} => myphase[t] = phase

Completing == \E t \in Threads : pc[t] \in {"reset", "advance"}

(* The group has room unless its last member is about to complete it. *)
GroupCounted ==
  /\ \A t \in Threads : pc[t] = "reset" => waiting = Count
  /\ \A t \in Threads : pc[t] = "advance" => waiting = 0
  /\ Completing => Cardinality(Arrived) + 1 = Count
  /\ ~Completing => waiting = Cardinality(Arrived) /\ waiting < Count

IInv == TypeOK /\ LockExact /\ PhaseKnown /\ GroupCounted
-----------------------------------------------------------------------------
USE ThreadsAssumption, CountAssumption, CallsAssumption

(* Groups are finite. *)
LEMMA ArrivedFinite == IsFiniteSet(Arrived) /\ Cardinality(Arrived) \in Nat
<1>1. Arrived \in SUBSET Threads
  BY DEF Arrived
<1> QED BY <1>1, FS_Subset, FS_CardinalityType

(* A barrier that pthread_barrier_init has set up. *)
LEMMA InitIInv == Init => IInv
<1> SUFFICES ASSUME Init PROVE IInv
  OBVIOUS
<1>1. TypeOK
  BY DEF Init, TypeOK, Labels
<1>2. LockExact /\ PhaseKnown
  BY DEF Init, LockExact, PhaseKnown, Locked, InLoop
<1>3. Arrived = {} /\ ~Completing
  BY DEF Init, Arrived, InLoop, Completing
<1>4. Cardinality(Arrived) = 0
  BY <1>3, FS_EmptySet
<1>5. GroupCounted
  BY <1>3, <1>4 DEF Init, GroupCounted
<1> QED BY <1>1, <1>2, <1>5 DEF IInv

(* A step keeps types, lock and phases as they must be. *)
LEMMA StepTypes ==
  ASSUME IInv, [Next]_vars
  PROVE  TypeOK' /\ LockExact' /\ PhaseKnown'
<1> USE DEF IInv
<1>1. CASE UNCHANGED vars
  BY <1>1 DEF vars, TypeOK, LockExact, PhaseKnown
<1>2. ASSUME NEW t \in Threads, Call(t) \/ Interrupt(t) \/ Progress(t)
      PROVE  TypeOK' /\ LockExact' /\ PhaseKnown'
  <2> USE DEF Step, Labels, InLoop, Locked
  <2>1. CASE Call(t)
    BY <1>2, <2>1 DEF Call, TypeOK, LockExact, PhaseKnown
  <2>2. CASE Interrupt(t)
    BY <1>2, <2>2 DEF Interrupt, TypeOK, LockExact, PhaseKnown
  <2>3. CASE Enter(t) \/ CondRelock(t)
    BY <1>2, <2>3 DEF Enter, CondRelock, Lock, TypeOK, LockExact, PhaseKnown
  <2>4. CASE LeaveSerial(t) \/ Leave(t) \/ CondUnlock(t)
    BY <1>2, <2>4 DEF LeaveSerial, Leave, CondUnlock, Unlock, TypeOK, LockExact, PhaseKnown
  <2>5. CASE LoadPhase(t)
    BY <1>2, <2>5 DEF LoadPhase, TypeOK, LockExact, PhaseKnown
  <2>6. CASE Add(t)
    <3>1. ~Completing
      BY <2>6 DEF Add, Completing, LockExact, TypeOK
    <3>2. waiting < Count
      BY <3>1 DEF GroupCounted
    <3> QED BY <1>2, <2>6, <3>2 DEF Add, TypeOK, LockExact, PhaseKnown
  <2>7. CASE Reset(t)
    BY <1>2, <2>7 DEF Reset, TypeOK, LockExact, PhaseKnown
  <2>8. CASE AdvancePhase(t)
    BY <1>2, <2>8 DEF AdvancePhase, TypeOK, LockExact, PhaseKnown
  <2>9. CASE BroadcastSeq(t)
    BY <1>2, <2>9 DEF BroadcastSeq, TypeOK, LockExact, PhaseKnown
  <2>10. CASE BroadcastWake(t)
    BY <1>2, <2>10 DEF BroadcastWake, TypeOK, LockExact, PhaseKnown
  <2>11. CASE Test(t) \/ CondTest(t) \/ FutexWait(t)
    BY <1>2, <2>11 DEF Test, CondTest, FutexWait, TypeOK, LockExact, PhaseKnown
  <2>12. CASE CondLoad(t)
    BY <1>2, <2>12, SMTT(20) DEF CondLoad, TypeOK, LockExact, PhaseKnown
  <2> QED BY <1>2, <2>1, <2>2, <2>3, <2>4, <2>5, <2>6, <2>7, <2>8, <2>9, <2>10, <2>11, <2>12
       DEF Progress
<1> QED BY <1>1, <1>2 DEF Next
-----------------------------------------------------------------------------
(* Every step other than Add, Reset and AdvancePhase leaves the group as   *)
(* it is; only the three unlocking or completing steps show outside.       *)
Quiet(t) ==
  \/ Call(t) \/ Interrupt(t) \/ Enter(t) \/ LoadPhase(t) \/ BroadcastSeq(t)
  \/ BroadcastWake(t) \/ Test(t) \/ CondLoad(t) \/ CondUnlock(t) \/ CondTest(t)
  \/ FutexWait(t) \/ CondRelock(t)

Departs(t) == LeaveSerial(t) \/ Leave(t)

(* A step within a wait that the group does not see. *)
LEMMA QuietUnseen ==
  ASSUME IInv, NEW t \in Threads, Quiet(t)
  PROVE  /\ Arrived' = Arrived /\ Released' = Released /\ Serial' = Serial
         /\ waiting' = waiting
         /\ \A u \in Threads : \A l \in {"reset", "advance"} : pc'[u] = l <=> pc[u] = l
<1> USE DEF IInv, TypeOK, Step, Labels, InLoop, Arrived, Released, Serial
<1>1. CASE Call(t)
  BY <1>1 DEF Call
<1>2. CASE Interrupt(t)
  BY <1>2 DEF Interrupt
<1>3. CASE Enter(t) \/ CondRelock(t)
  BY <1>3 DEF Enter, CondRelock, Lock
<1>4. CASE CondUnlock(t)
  BY <1>4 DEF CondUnlock, Unlock
<1>5. CASE LoadPhase(t)
  BY <1>5 DEF LoadPhase
<1>6. CASE BroadcastSeq(t)
  BY <1>6 DEF BroadcastSeq
<1>7. CASE BroadcastWake(t)
  BY <1>7 DEF BroadcastWake
<1>8. CASE Test(t)
  BY <1>8 DEF Test
<1>9. CASE CondTest(t) \/ FutexWait(t)
  BY <1>9 DEF CondTest, FutexWait
<1>10. CASE CondLoad(t)
  BY <1>10 DEF CondLoad
<1> QED BY <1>1, <1>2, <1>3, <1>4, <1>5, <1>6, <1>7, <1>8, <1>9, <1>10, Zenon DEF Quiet

(* A thread leaves with the group that was let go. *)
LEMMA DepartsSeen ==
  ASSUME IInv, NEW t \in Threads, Departs(t)
  PROVE  /\ Arrived' = Arrived /\ Released' = Released \ {t} /\ Serial' = Serial \ {t}
         /\ t \in Released /\ waiting' = waiting
         /\ \A u \in Threads : \A l \in {"reset", "advance"} : pc'[u] = l <=> pc[u] = l
BY DEF IInv, TypeOK, Labels, InLoop, Arrived, Released, Serial, Departs, LeaveSerial, Leave, Unlock

(* The count is right as long as nobody comes and the counter stays. *)
LEMMA GroupKept ==
  ASSUME GroupCounted, Arrived' = Arrived, waiting' = waiting,
         \A u \in Threads : \A l \in {"reset", "advance"} : pc'[u] = l <=> pc[u] = l
  PROVE  GroupCounted'
BY SMTT(20) DEF GroupCounted, Completing

(* Joining the group: as one of the first, or as the last. *)
LEMMA AddJoins ==
  ASSUME IInv, NEW t \in Threads, Add(t)
  PROVE  /\ ~Completing
         /\ Released' = Released /\ Serial' = Serial /\ t \notin Arrived \cup Released
         /\ waiting + 1 # Count => Arrived' = Arrived \cup {t} /\ ~Completing'
         /\ waiting + 1 = Count => /\ Arrived' = Arrived /\ pc'[t] = "reset" /\ waiting' = Count
                                   /\ \A u \in Threads : pc'[u] # "advance"
<1> USE DEF IInv, TypeOK, Labels, InLoop
<1>1. ~Completing
  BY DEF Add, Step, LockExact, Locked, Completing
<1>2. pc[t] = "add" /\ myphase[t] = phase /\ UNCHANGED <<phase, myphase>> /\ waiting' = waiting + 1
  BY DEF Add, Step, PhaseKnown
<1>3. CASE waiting + 1 # Count
  <2>1. pc' = [pc EXCEPT ![t] = "test"]
    BY <1>3 DEF Add, Step
  <2> QED BY <1>1, <1>2, <1>3, <2>1 DEF Arrived, Released, Serial, Completing
<1>4. CASE waiting + 1 = Count
  <2>1. pc' = [pc EXCEPT ![t] = "reset"]
    BY <1>4 DEF Add, Step
  <2> QED BY <1>1, <1>2, <1>4, <2>1 DEF Arrived, Released, Serial, Completing
<1> QED BY <1>1, <1>3, <1>4, Zenon

(* The last thread resets the counter. *)
LEMMA ResetUnseen ==
  ASSUME IInv, NEW t \in Threads, Reset(t)
  PROVE  /\ Arrived' = Arrived /\ Released' = Released /\ Serial' = Serial
         /\ waiting' = 0 /\ Completing /\ Completing'
         /\ \A u \in Threads : pc'[u] # "reset"
BY DEF IInv, TypeOK, LockExact, Locked, Labels, InLoop, Reset, Step, Arrived, Released, Serial,
       Completing

(* The new phase lets the whole group go. *)
LEMMA AdvanceReleases ==
  ASSUME IInv, NEW t \in Threads, AdvancePhase(t)
  PROVE  /\ Arrived' = {} /\ Released' = Released \cup Arrived \cup {t}
         /\ Serial' = Serial \cup {t} /\ t \notin Arrived \cup Released
         /\ waiting' = 0 /\ Completing /\ ~Completing'
         /\ \A u \in Threads : pc'[u] \notin {"reset", "advance"}
<1> USE DEF IInv, TypeOK, Labels, InLoop
<1>1. /\ pc[t] = "advance" /\ pc' = [pc EXCEPT ![t] = "signal"]
      /\ phase' = phase + 1 /\ myphase' = myphase /\ waiting' = waiting
  BY DEF AdvancePhase, Step
<1>2. \A u \in Threads : u # t => pc[u] \notin {"reset", "advance"}
  BY <1>1 DEF LockExact, Locked
<1>3. \A u \in Threads : pc[u] \in InLoop => myphase[u] <= phase
  BY DEF PhaseKnown
<1>4. \A u \in Threads : pc[u] \in InLoop => myphase'[u] # phase'
  BY <1>1, <1>3
<1>5. waiting = 0
  BY <1>1 DEF GroupCounted
<1>6. Arrived' = {}
  BY <1>1, <1>4 DEF Arrived
<1>7. Serial' = Serial \cup {t} /\ t \notin Arrived \cup Released
  BY <1>1 DEF Serial, Arrived, Released
<1>8. Released' = Released \cup Arrived \cup {t}
  BY <1>1, <1>3, <1>4 DEF Serial, Arrived, Released
<1> QED BY <1>1, <1>2, <1>5, <1>6, <1>7, <1>8 DEF Completing

(* What a step of a thread can be. *)
LEMMA Split ==
  ASSUME NEW t \in Threads, Call(t) \/ Progress(t) \/ Interrupt(t)
  PROVE  Quiet(t) \/ Departs(t) \/ Add(t) \/ Reset(t) \/ AdvancePhase(t)
BY DEF Progress, Quiet, Departs

(* A step keeps the counter equal to the size of the group. *)
LEMMA StepGroup ==
  ASSUME IInv, [Next]_vars
  PROVE  GroupCounted'
<1>0. GroupCounted /\ waiting \in Nat /\ Cardinality(Arrived) \in Nat
  BY ArrivedFinite DEF IInv, TypeOK
<1>1. CASE UNCHANGED vars
  BY <1>0, <1>1 DEF vars, GroupCounted, Completing, Arrived
<1>2. ASSUME NEW t \in Threads, Quiet(t) PROVE GroupCounted'
  BY <1>0, <1>2, QuietUnseen, GroupKept
<1>3. ASSUME NEW t \in Threads, Departs(t) PROVE GroupCounted'
  BY <1>0, <1>3, DepartsSeen, GroupKept
<1>4. ASSUME NEW t \in Threads, Add(t) PROVE GroupCounted'
  <2>1. ~Completing /\ waiting = Cardinality(Arrived) /\ waiting < Count /\ waiting' = waiting + 1
    BY <1>0, <1>4, AddJoins DEF GroupCounted, Add
  <2>2. CASE waiting + 1 # Count
    <3>1. t \notin Arrived /\ Arrived' = Arrived \cup {t} /\ ~Completing'
      BY <1>4, <2>2, AddJoins
    <3>2. Cardinality(Arrived') = Cardinality(Arrived) + 1
      BY <3>1, ArrivedFinite, FS_AddElement, Zenon
    <3> QED BY <1>0, <2>1, <2>2, <3>1, <3>2, SMTT(20) DEF GroupCounted, Completing
  <2>3. CASE waiting + 1 = Count
    <3>1. /\ Arrived' = Arrived /\ pc'[t] = "reset" /\ waiting' = Count
          /\ \A u \in Threads : pc'[u] # "advance"
      BY <1>4, <2>3, AddJoins
    <3> QED BY <1>0, <2>1, <2>3, <3>1 DEF GroupCounted, Completing
  <2> QED BY <2>2, <2>3
<1>5. ASSUME NEW t \in Threads, Reset(t) PROVE GroupCounted'
  BY <1>0, <1>5, ResetUnseen DEF GroupCounted
<1>6. ASSUME NEW t \in Threads, AdvancePhase(t) PROVE GroupCounted'
  <2>1. /\ Arrived' = {} /\ waiting' = 0 /\ ~Completing'
        /\ \A u \in Threads : pc'[u] \notin {"reset", "advance"}
    BY <1>6, AdvanceReleases
  <2>2. Cardinality(Arrived') = 0
    BY <2>1, FS_EmptySet
  <2> QED BY <2>1, <2>2 DEF GroupCounted
<1> QED BY <1>1, <1>2, <1>3, <1>4, <1>5, <1>6, Split DEF Next
-----------------------------------------------------------------------------
(* The invariant of pthread_barrier_wait. *)
THEOREM Inductive == Spec => []IInv
<1>1. IInv /\ [Next]_vars => IInv'
  BY StepTypes, StepGroup DEF IInv
<1> QED BY InitIInv, <1>1, PTL DEF Spec

(* The counter is the size of the group whenever the lock is free. *)
THEOREM CounterExact == Spec => []WaitingExact
<1>1. IInv => WaitingExact
  BY DEF IInv, WaitingExact, GroupCounted, Completing, LockExact, Locked
<1> QED BY Inductive, <1>1, PTL

(* pthread_barrier_wait lets groups of exactly Count threads go, one of    *)
(* them as the serial thread.                                              *)
THEOREM BarrierImplements == Spec => ImplementsBarrier
<1>1. Init => Abstract!Init
  BY DEF Init, Abstract!Init, Arrived, Released, Serial, InLoop
<1>2. ASSUME IInv, [Next]_vars PROVE [Abstract!Next]_<<Arrived, Released, Serial>>
  <2>0. GroupCounted /\ waiting \in Nat /\ Cardinality(Arrived) \in Nat
    BY <1>2, ArrivedFinite DEF IInv, TypeOK
  <2>1. CASE UNCHANGED vars
    BY <2>1 DEF vars, Arrived, Released, Serial
  <2>2. ASSUME NEW t \in Threads, Quiet(t) PROVE UNCHANGED <<Arrived, Released, Serial>>
    BY <1>2, <2>2, QuietUnseen
  <2>3. ASSUME NEW t \in Threads, Departs(t) PROVE Abstract!Depart(t)
    BY <1>2, <2>3, DepartsSeen DEF Abstract!Depart
  <2>4. ASSUME NEW t \in Threads, Add(t)
        PROVE  Abstract!Arrive(t) \/ UNCHANGED <<Arrived, Released, Serial>>
    <3>1. waiting = Cardinality(Arrived) /\ waiting < Count
      BY <1>2, <2>0, <2>4, AddJoins, SMTT(20) DEF GroupCounted
    <3>2. CASE waiting + 1 # Count
      <4>1. /\ t \notin Arrived \cup Released /\ Arrived' = Arrived \cup {t}
            /\ Released' = Released /\ Serial' = Serial
        BY <1>2, <2>4, <3>2, AddJoins
      <4>2. Cardinality(Arrived) + 1 < Count
        BY <2>0, <3>1, <3>2
      <4> QED BY <4>1, <4>2 DEF Abstract!Arrive, Abstract!Cardinality, Cardinality
    <3>3. CASE waiting + 1 = Count
      BY <1>2, <2>4, <3>3, AddJoins
    <3> QED BY <3>2, <3>3
  <2>5. ASSUME NEW t \in Threads, Reset(t) PROVE UNCHANGED <<Arrived, Released, Serial>>
    BY <1>2, <2>5, ResetUnseen
  <2>6. ASSUME NEW t \in Threads, AdvancePhase(t) PROVE Abstract!Complete(t)
    <3>1. Cardinality(Arrived) + 1 = Count
      BY <1>2, <2>0, <2>6, AdvanceReleases DEF GroupCounted
    <3>2. /\ t \notin Arrived \cup Released /\ Arrived' = {}
          /\ Released' = Released \cup Arrived \cup {t} /\ Serial' = Serial \cup {t}
      BY <1>2, <2>6, AdvanceReleases
    <3> QED BY <3>1, <3>2 DEF Abstract!Complete, Abstract!Cardinality, Cardinality
  <2> QED BY <1>2, <2>1, <2>2, <2>3, <2>4, <2>5, <2>6, Split DEF Next, Abstract!Next
<1> QED BY Inductive, <1>1, <1>2, PTL DEF Spec, ImplementsBarrier, Abstract!Spec
=============================================================================
