----------------------------- MODULE ProcessProofs -----------------------------
(***************************************************************************)
(* The children of posix_spawn, popen and system (Spawn), for any number   *)
(* of threads and calls; and asynchronous I/O (Aio), for any clients that  *)
(* share neither control blocks nor descriptors.                           *)
(***************************************************************************)
EXTENDS Spawn, Aio, TLAPS
-----------------------------------------------------------------------------
(***************************************************************************)
(* Child processes.                                                        *)
(***************************************************************************)

(* The ends of pipes there can be. *)
Ends == {End(y, k, d) : y \in {"err", "io"}, k \in Children, d \in {"r", "w"}}

(* What the variables of Spawn hold. *)
SpawnTypes ==
  /\ fds \in [0 .. MaxChildren -> SUBSET Ends]
  /\ kind \in [Children -> Kinds \cup {"none"}]
  /\ state \in [Children -> {"none", "setup", "exec", "running", "failed", "exited", "reaped"}]
  /\ sent \in [Children -> BOOLEAN]
  /\ spc \in [Callers -> {"idle", "piped", "fork", "close", "read", "reap", "wait", "give", "stream"}]
  /\ job \in [Callers -> 0 .. MaxChildren]
  /\ known \subseteq Children /\ lost \subseteq Children

(* A call in progress is about one child, which no other call is about and *)
(* the program does not know yet.  It finds the child forked once it is    *)
(* past fork, and it gives the child out only if that has not failed or    *)
(* the error pipe could not be read.                                       *)
CallOf(t) ==
  /\ spc[t] = "idle" => job[t] = 0
  /\ spc[t] # "idle" =>
     /\ job[t] \in Children /\ kind[job[t]] # "none" /\ job[t] \notin known \cup lost
     /\ IF spc[t] \in {"piped", "fork"} THEN state[job[t]] = "none"
        ELSE state[job[t]] \notin {"none", "reaped"}
     /\ spc[t] \in {"give", "stream"} /\ job[t] \notin guessed => state[job[t]] \in {"running", "exited"}
     /\ spc[t] = "give" => kind[job[t]] = "spawn"
     /\ spc[t] = "stream" => Popen(job[t])
     /\ \A u \in Callers : spc[u] # "idle" /\ job[u] = job[t] => u = t

Calls == \A t \in Callers : CallOf(t)

(* What is known of a child: it holds the writing end of its error pipe    *)
(* until execve, it fails only with the error sent, and if the program has *)
(* its pid and the error pipe was read, it did not fail.                   *)
Started ==
  \A k \in Children :
     /\ kind[k] = "none" => state[k] = "none" /\ k \notin known \cup lost
     /\ state[k] \in {"setup", "exec"} => End("err", k, "w") \in fds[k]
     /\ state[k] = "failed" => sent[k]
     /\ k \in known => state[k] \notin {"none", "reaped"} /\ k \notin lost
     /\ k \in known \ guessed => state[k] \in {"running", "exited"}

(* The end of the data pipe that a stream of popen keeps. *)
Side(k) == IF kind[k] = "read" THEN "r" ELSE "w"

(* Where in a call the program has end d of the error pipe open, and where *)
(* both ends of the data pipe.                                             *)
ErrAt(l, d) == l \in {"piped", "fork", "close"} \/ (l = "read" /\ d = "r")
IoAt(l) == l \in {"piped", "fork", "close", "read", "reap", "stream"}
HoldsErr(k, d) == \E t \in Callers : job[t] = k /\ ErrAt(spc[t], d)
HoldsIo(k, d) == Popen(k) /\ ((\E t \in Callers : job[t] = k /\ IoAt(spc[t])) \/ (k \in known /\ d = Side(k)))

(* The program has an end open exactly while the call that made it holds   *)
(* it, or popen's stream does.                                             *)
Descriptors ==
  \A k \in Children, d \in {"r", "w"} :
     /\ End("err", k, d) \in fds[0] <=> HoldsErr(k, d)
     /\ End("io", k, d) \in fds[0] <=> HoldsIo(k, d)

(* The inductive invariant.  None of the three properties is inductive:    *)
(* which descriptors are open depends on the place in each call, and what  *)
(* read returns on who still holds the writing end.                        *)
SpawnInv == SpawnTypes /\ Calls /\ Started /\ NoChildForgotten /\ Descriptors

(* Ends are equal only if all three parts are. *)
LEMMA EndsDiffer ==
  ASSUME NEW y, NEW k, NEW d, NEW z, NEW j, NEW e
  PROVE  End(y, k, d) = End(z, j, e) <=> y = z /\ k = j /\ d = e
BY DEF End

(* An end of a pipe of a child is one of Ends. *)
LEMMA EndIn ==
  ASSUME NEW y \in {"err", "io"}, NEW k \in Children, NEW d \in {"r", "w"}
  PROVE  End(y, k, d) \in Ends
BY DEF Ends

(* A step of caller t that is about child k leaves the descriptors of the  *)
(* other children as they were: it is enough to look at those of k.        *)
LEMMA Rest ==
  ASSUME SpawnInv, NEW t \in Callers, NEW k \in Children, job[t] \in {0, k}, job'[t] \in {0, k},
         \A u \in Callers : u # t => spc'[u] = spc[u] /\ job'[u] = job[u],
         \A j \in Children : j # k => kind'[j] = kind[j] /\ (j \in known' <=> j \in known),
         \A y \in {"err", "io"}, j \in Children, d \in {"r", "w"} :
            j # k => (End(y, j, d) \in fds'[0] <=> End(y, j, d) \in fds[0]),
         \A d \in {"r", "w"} :
            /\ End("err", k, d) \in fds'[0] <=> HoldsErr(k, d)'
            /\ End("io", k, d) \in fds'[0] <=> HoldsIo(k, d)'
  PROVE  Descriptors'
<1> SUFFICES ASSUME NEW j \in Children, NEW d \in {"r", "w"}
             PROVE  (/\ End("err", j, d) \in fds[0] <=> HoldsErr(j, d)
                     /\ End("io", j, d) \in fds[0] <=> HoldsIo(j, d))'
  BY Zenon DEF Descriptors
<1>1. j # 0
  BY DEF Children
<1>2. ASSUME j # k PROVE HoldsErr(j, d)' <=> HoldsErr(j, d)
  BY <1>1, <1>2 DEF HoldsErr
<1>3. ASSUME j # k PROVE HoldsIo(j, d)' <=> HoldsIo(j, d)
  BY <1>1, <1>3 DEF HoldsIo, Popen, Side
<1>4. CASE j # k
  BY <1>2, <1>3, <1>4 DEF SpawnInv, Descriptors
<1>5. CASE j = k
  BY <1>5
<1> QED BY <1>4, <1>5

(* pipe: the new child has no other call, and both ends are the caller's. *)
LEMMA MakePipesKeeps == ASSUME SpawnInv, NEW t \in Callers, MakePipes(t) PROVE SpawnInv'
<1> USE SpawnAssumption DEF SpawnInv
<1>1. SpawnTypes'
  BY EndIn DEF SpawnTypes, MakePipes, Goto, Pipe, Children
<1>2. Calls'
  BY DEF SpawnTypes, Calls, CallOf, Started, MakePipes, Goto, Popen
<1>3. Started'
  BY DEF SpawnTypes, Started, MakePipes
<1>4. NoChildForgotten'
  BY DEF SpawnTypes, Calls, CallOf, NoChildForgotten, MakePipes, Children
<1>5. Descriptors'
  <2>0. PICK k \in Children, c \in Kinds : MakePipes(t)!(k, c)
    BY Zenon DEF MakePipes
  <2>1. k \in Children /\ k # 0 /\ job[t] \in {0, k} /\ job'[t] \in {0, k}
    BY <2>0 DEF SpawnTypes, Calls, CallOf, Children
  <2>2. \A u \in Callers : u # t => spc'[u] = spc[u] /\ job'[u] = job[u]
    BY <2>0 DEF SpawnTypes, Goto
  <2>3. \A j \in Children : j # k => kind'[j] = kind[j] /\ (j \in known' <=> j \in known)
    BY <2>0 DEF SpawnTypes
  <2>4. \A y \in {"err", "io"}, j \in Children, d \in {"r", "w"} :
           j # k => (End(y, j, d) \in fds'[0] <=> End(y, j, d) \in fds[0])
    BY <2>0, EndsDiffer DEF SpawnTypes, Pipe
  <2>5. ASSUME NEW d \in {"r", "w"}
        PROVE  /\ End("err", k, d) \in fds'[0] <=> HoldsErr(k, d)'
               /\ End("io", k, d) \in fds'[0] <=> HoldsIo(k, d)'
    BY <2>0, <2>1, <1>2, EndsDiffer
       DEF SpawnTypes, Calls, CallOf, Started, Descriptors, HoldsErr, HoldsIo, ErrAt, IoAt, Popen, Pipe
  <2> QED BY <2>1, <2>2, <2>3, <2>4, <2>5, Rest
<1> QED BY <1>1, <1>2, <1>3, <1>4, <1>5

(* FD_CLOEXEC changes neither who holds an end nor a child. *)
LEMMA MarkCloexecKeeps == ASSUME SpawnInv, NEW t \in Callers, MarkCloexec(t) PROVE SpawnInv'
<1> USE SpawnAssumption DEF SpawnInv
<1>1. SpawnTypes'
  BY DEF SpawnTypes, MarkCloexec, Goto
<1>2. Calls'
  BY DEF SpawnTypes, Calls, CallOf, MarkCloexec, Goto, Popen
<1>3. Started'
  BY DEF SpawnTypes, Started, MarkCloexec
<1>4. NoChildForgotten'
  BY DEF SpawnTypes, NoChildForgotten, MarkCloexec
<1>5. Descriptors'
  BY DEF SpawnTypes, Descriptors, HoldsErr, HoldsIo, Side, ErrAt, IoAt, MarkCloexec, Goto, Popen
<1> QED BY <1>1, <1>2, <1>3, <1>4, <1>5

(* fork: the child gets the writing end of its error pipe. *)
LEMMA ForkKeeps == ASSUME SpawnInv, NEW t \in Callers, Fork(t) PROVE SpawnInv'
<1> USE SpawnAssumption DEF SpawnInv
<1>1. SpawnTypes'
  BY DEF SpawnTypes, Calls, CallOf, Fork, Goto, SetState
<1>2. Calls'
  BY DEF SpawnTypes, Calls, CallOf, Fork, Goto, SetState, Popen
<1>3. Started'
  BY DEF SpawnTypes, Calls, CallOf, Started, Descriptors, HoldsErr, ErrAt, Fork, SetState
<1>4. NoChildForgotten'
  BY DEF SpawnTypes, NoChildForgotten, Fork, SetState
<1>5. Descriptors'
  BY DEF SpawnTypes, Descriptors, HoldsErr, HoldsIo, Side, ErrAt, IoAt, Fork, Goto, Popen
<1> QED BY <1>1, <1>2, <1>3, <1>4, <1>5

(* fork fails: both pipes are closed and nothing is left of the call. *)
LEMMA ForkFailsKeeps == ASSUME SpawnInv, NEW t \in Callers, ForkFails(t) PROVE SpawnInv'
<1> USE SpawnAssumption DEF SpawnInv
<1>1. SpawnTypes'
  BY DEF SpawnTypes, ForkFails, Goto, Finish, Close
<1>2. Calls'
  BY DEF SpawnTypes, Calls, CallOf, ForkFails, Goto, Finish, Popen
<1>3. Started'
  BY EndsDiffer DEF SpawnTypes, Calls, CallOf, Started, ForkFails, Close, Pipe
<1>4. NoChildForgotten'
  BY DEF SpawnTypes, Calls, CallOf, NoChildForgotten, ForkFails, Finish
<1>5. Descriptors'
  <2>0. PICK k : k = job[t]
    OBVIOUS
  <2>1. k \in Children /\ k # 0 /\ job[t] \in {0, k} /\ job'[t] \in {0, k}
    BY <2>0 DEF SpawnTypes, Calls, CallOf, ForkFails, Finish, Children
  <2>2. \A u \in Callers : u # t => spc'[u] = spc[u] /\ job'[u] = job[u]
    BY <2>0 DEF SpawnTypes, ForkFails, Goto, Finish
  <2>3. \A j \in Children : j # k => kind'[j] = kind[j] /\ (j \in known' <=> j \in known)
    BY <2>0 DEF SpawnTypes, ForkFails
  <2>4. \A y \in {"err", "io"}, j \in Children, d \in {"r", "w"} :
           j # k => (End(y, j, d) \in fds'[0] <=> End(y, j, d) \in fds[0])
    BY <2>0, EndsDiffer DEF SpawnTypes, ForkFails, Close, Pipe
  <2>5. ASSUME NEW d \in {"r", "w"}
        PROVE  /\ End("err", k, d) \in fds'[0] <=> HoldsErr(k, d)'
               /\ End("io", k, d) \in fds'[0] <=> HoldsIo(k, d)'
    BY <2>0, <2>1, <1>2 DEF SpawnTypes, Calls, CallOf, HoldsErr, HoldsIo, ForkFails, Finish, Close, Pipe
  <2> QED BY <2>1, <2>2, <2>3, <2>4, <2>5, Rest
<1> QED BY <1>1, <1>2, <1>3, <1>4, <1>5

(* The program gives up the writing end of the error pipe. *)
LEMMA CloseWriteKeeps == ASSUME SpawnInv, NEW t \in Callers, CloseWrite(t) PROVE SpawnInv'
<1> USE SpawnAssumption DEF SpawnInv
<1>1. SpawnTypes'
  BY DEF SpawnTypes, CloseWrite, Goto, Close
<1>2. Calls'
  BY DEF SpawnTypes, Calls, CallOf, CloseWrite, Goto, Popen
<1>3. Started'
  BY DEF SpawnTypes, Started, CloseWrite, Close, Children
<1>4. NoChildForgotten'
  BY DEF SpawnTypes, NoChildForgotten, CloseWrite
<1>5. Descriptors'
  <2>0. PICK k : k = job[t]
    OBVIOUS
  <2>1. k \in Children /\ k # 0 /\ job[t] \in {0, k} /\ job'[t] \in {0, k}
    BY <2>0 DEF SpawnTypes, Calls, CallOf, CloseWrite, Children
  <2>2. \A u \in Callers : u # t => spc'[u] = spc[u] /\ job'[u] = job[u]
    BY <2>0 DEF SpawnTypes, CloseWrite, Goto
  <2>3. \A j \in Children : j # k => kind'[j] = kind[j] /\ (j \in known' <=> j \in known)
    BY <2>0 DEF SpawnTypes, CloseWrite
  <2>4. \A y \in {"err", "io"}, j \in Children, d \in {"r", "w"} :
           j # k => (End(y, j, d) \in fds'[0] <=> End(y, j, d) \in fds[0])
    BY <2>0, EndsDiffer DEF SpawnTypes, CloseWrite, Close
  <2>5. ASSUME NEW d \in {"r", "w"}
        PROVE  /\ End("err", k, d) \in fds'[0] <=> HoldsErr(k, d)'
               /\ End("io", k, d) \in fds'[0] <=> HoldsIo(k, d)'
    BY <2>0, <2>1, <1>2, EndsDiffer
       DEF SpawnTypes, Calls, CallOf, Descriptors, HoldsErr, HoldsIo, ErrAt, IoAt, CloseWrite, Goto,
           Close, Popen
  <2> QED BY <2>1, <2>2, <2>3, <2>4, <2>5, Rest
<1> QED BY <1>1, <1>2, <1>3, <1>4, <1>5

(* Both ways in which the read of the error pipe can end: the call goes on *)
(* as AfterRead says, and it gives the child out only if that runs or was  *)
(* not asked.                                                              *)
LEMMA ReadCalls ==
  ASSUME SpawnInv, NEW t \in Callers, NEW failed \in BOOLEAN, spc[t] = "read",
         spc' = [spc EXCEPT ![t] = AfterRead(job[t], failed)], guessed \subseteq guessed',
         UNCHANGED <<job, kind, known, lost, state>>,
         ~failed => job[t] \in guessed' \/ state[job[t]] \in {"running", "exited"}
  PROVE  Calls'
<1> USE SpawnAssumption DEF SpawnInv
<1>1. \A v \in Callers : spc'[v] # "idle" => spc[v] # "idle"
  BY DEF SpawnTypes
<1>2. CallOf(t)'
  <2>1. spc'[t] = AfterRead(job[t], failed)
    BY DEF SpawnTypes
  <2>2. CallOf(t) /\ kind[job[t]] \in {"spawn", "system", "read", "write"}
    BY Zenon DEF SpawnTypes, Calls, CallOf
  <2>3. /\ spc'[t] \in {"wait", "reap", "give", "stream"}
        /\ spc'[t] \in {"give", "stream"} => ~failed
        /\ spc'[t] = "give" => kind[job[t]] = "spawn"
        /\ spc'[t] = "stream" => Popen(job[t])
    BY <2>1, <2>2 DEF AfterRead, Popen
  <2> QED BY <1>1, <2>2, <2>3 DEF CallOf, Popen
<1>3. ASSUME NEW u \in Callers, u # t PROVE CallOf(u)'
  <2>1. spc'[u] = spc[u]
    BY <1>3 DEF SpawnTypes
  <2> QED BY <1>1, <2>1 DEF Calls, CallOf, Popen
<1> QED BY <1>2, <1>3 DEF Calls

(* read ends: without an error sent, the end of the pipe tells that the    *)
(* child has come past execve.                                             *)
LEMMA ReadErrorKeeps == ASSUME SpawnInv, NEW t \in Callers, ReadError(t) PROVE SpawnInv'
<1> USE SpawnAssumption DEF SpawnInv
<1>1. SpawnTypes'
  BY DEF SpawnTypes, ReadError, Goto, Close, AfterRead
<1>2. Calls'
  <2>1. job[t] \in Children /\ job[t] \in 0 .. MaxChildren /\ sent[job[t]] \in BOOLEAN
    BY DEF SpawnTypes, Calls, CallOf, ReadError
  <2>2. ~sent[job[t]] => state[job[t]] \in {"running", "exited"}
    BY <2>1 DEF SpawnTypes, Calls, CallOf, Started, ReadError, Open
  <2> QED BY <2>1, <2>2, ReadCalls, Zenon DEF ReadError, Goto
<1>3. Started'
  BY EndsDiffer DEF SpawnTypes, Started, ReadError, Close
<1>4. NoChildForgotten'
  BY DEF SpawnTypes, NoChildForgotten, ReadError
<1>5. Descriptors'
  <2>0. PICK k : k = job[t]
    OBVIOUS
  <2>1. k \in Children /\ k # 0 /\ job[t] \in {0, k} /\ job'[t] \in {0, k}
    BY <2>0 DEF SpawnTypes, Calls, CallOf, ReadError, Children
  <2>2. \A u \in Callers : u # t => spc'[u] = spc[u] /\ job'[u] = job[u]
    BY <2>0 DEF SpawnTypes, ReadError, Goto
  <2>3. \A j \in Children : j # k => kind'[j] = kind[j] /\ (j \in known' <=> j \in known)
    BY <2>0 DEF SpawnTypes, ReadError
  <2>4. \A y \in {"err", "io"}, j \in Children, d \in {"r", "w"} :
           j # k => (End(y, j, d) \in fds'[0] <=> End(y, j, d) \in fds[0])
    BY <2>0, EndsDiffer DEF SpawnTypes, ReadError, Close
  <2>5. ASSUME NEW d \in {"r", "w"}
        PROVE  /\ End("err", k, d) \in fds'[0] <=> HoldsErr(k, d)'
               /\ End("io", k, d) \in fds'[0] <=> HoldsIo(k, d)'
    BY <2>0, <2>1, <1>2, EndsDiffer
       DEF SpawnTypes, Calls, CallOf, Descriptors, HoldsErr, HoldsIo, ErrAt, IoAt, ReadError, Goto,
           Close, Popen, AfterRead
  <2> QED BY <2>1, <2>2, <2>3, <2>4, <2>5, Rest
<1> QED BY <1>1, <1>2, <1>3, <1>4, <1>5

(* read is interrupted: the child is among those that were guessed. *)
LEMMA ReadInterruptedKeeps == ASSUME SpawnInv, NEW t \in Callers, ReadInterrupted(t) PROVE SpawnInv'
<1> USE SpawnAssumption DEF SpawnInv
<1>1. SpawnTypes'
  BY DEF SpawnTypes, ReadInterrupted, Goto, Close, AfterRead
<1>2. Calls'
  BY ReadCalls, Zenon DEF ReadInterrupted, Goto
<1>3. Started'
  BY EndsDiffer DEF SpawnTypes, Started, ReadInterrupted, Close
<1>4. NoChildForgotten'
  BY DEF SpawnTypes, NoChildForgotten, ReadInterrupted
<1>5. Descriptors'
  <2>0. PICK k : k = job[t]
    OBVIOUS
  <2>1. k \in Children /\ k # 0 /\ job[t] \in {0, k} /\ job'[t] \in {0, k}
    BY <2>0 DEF SpawnTypes, Calls, CallOf, ReadInterrupted, Children
  <2>2. \A u \in Callers : u # t => spc'[u] = spc[u] /\ job'[u] = job[u]
    BY <2>0 DEF SpawnTypes, ReadInterrupted, Goto
  <2>3. \A j \in Children : j # k => kind'[j] = kind[j] /\ (j \in known' <=> j \in known)
    BY <2>0 DEF SpawnTypes, ReadInterrupted
  <2>4. \A y \in {"err", "io"}, j \in Children, d \in {"r", "w"} :
           j # k => (End(y, j, d) \in fds'[0] <=> End(y, j, d) \in fds[0])
    BY <2>0, EndsDiffer DEF SpawnTypes, ReadInterrupted, Close
  <2>5. ASSUME NEW d \in {"r", "w"}
        PROVE  /\ End("err", k, d) \in fds'[0] <=> HoldsErr(k, d)'
               /\ End("io", k, d) \in fds'[0] <=> HoldsIo(k, d)'
    BY <2>0, <2>1, <1>2, EndsDiffer
       DEF SpawnTypes, Calls, CallOf, Descriptors, HoldsErr, HoldsIo, ErrAt, IoAt, ReadInterrupted,
           Goto, Close, Popen, AfterRead
  <2> QED BY <2>1, <2>2, <2>3, <2>4, <2>5, Rest
<1> QED BY <1>1, <1>2, <1>3, <1>4, <1>5

(* A child that failed is reaped and its data pipe closed. *)
LEMMA ReapKeeps == ASSUME SpawnInv, NEW t \in Callers, Reap(t) PROVE SpawnInv'
<1> USE SpawnAssumption DEF SpawnInv
<1>1. SpawnTypes'
  BY DEF SpawnTypes, Calls, CallOf, Reap, Goto, Finish, Close, SetState
<1>2. Calls'
  BY DEF SpawnTypes, Calls, CallOf, Reap, Goto, Finish, SetState, Popen
<1>3. Started'
  BY EndsDiffer DEF SpawnTypes, Calls, CallOf, Started, Reap, Close, SetState, Pipe
<1>4. NoChildForgotten'
  BY DEF SpawnTypes, NoChildForgotten, Reap, Finish, SetState
<1>5. Descriptors'
  <2>0. PICK k : k = job[t]
    OBVIOUS
  <2>1. k \in Children /\ k # 0 /\ job[t] \in {0, k} /\ job'[t] \in {0, k}
    BY <2>0 DEF SpawnTypes, Calls, CallOf, Reap, Finish, Children
  <2>2. \A u \in Callers : u # t => spc'[u] = spc[u] /\ job'[u] = job[u]
    BY <2>0 DEF SpawnTypes, Reap, Goto, Finish
  <2>3. \A j \in Children : j # k => kind'[j] = kind[j] /\ (j \in known' <=> j \in known)
    BY <2>0 DEF SpawnTypes, Reap
  <2>4. \A y \in {"err", "io"}, j \in Children, d \in {"r", "w"} :
           j # k => (End(y, j, d) \in fds'[0] <=> End(y, j, d) \in fds[0])
    BY <2>0, EndsDiffer DEF SpawnTypes, Reap, Close, Pipe
  <2>5. ASSUME NEW d \in {"r", "w"}
        PROVE  /\ End("err", k, d) \in fds'[0] <=> HoldsErr(k, d)'
               /\ End("io", k, d) \in fds'[0] <=> HoldsIo(k, d)'
    <3>1. \A u \in Callers : job'[u] # k
      BY <2>0, <2>1 DEF SpawnTypes, Calls, CallOf, Reap, Finish
    <3>2. k \notin known' /\ ~HoldsErr(k, d)
      BY <2>0, <2>1 DEF Calls, CallOf, Reap, HoldsErr, ErrAt
    <3>3. End("err", k, d) \notin fds'[0] /\ End("io", k, d) \notin fds'[0]
      BY <2>0, <2>1, <3>2 DEF SpawnTypes, Descriptors, Reap, Close, Pipe
    <3> QED BY <3>1, <3>2, <3>3 DEF HoldsErr, HoldsIo
  <2> QED BY <2>1, <2>2, <2>3, <2>4, <2>5, Rest
<1> QED BY <1>1, <1>2, <1>3, <1>4, <1>5

(* system and pclose reap their child. *)
LEMMA WaitKeeps == ASSUME SpawnInv, NEW t \in Callers, Wait(t) PROVE SpawnInv'
<1> USE SpawnAssumption DEF SpawnInv
<1>1. SpawnTypes'
  BY DEF SpawnTypes, Calls, CallOf, Wait, Goto, Finish, SetState
<1>2. Calls'
  BY DEF SpawnTypes, Calls, CallOf, Wait, Goto, Finish, SetState, Popen
<1>3. Started'
  BY DEF SpawnTypes, Calls, CallOf, Started, Wait, SetState
<1>4. NoChildForgotten'
  BY DEF SpawnTypes, NoChildForgotten, Wait, Finish, SetState
<1>5. Descriptors'
  <2>0. PICK k : k = job[t]
    OBVIOUS
  <2>1. k \in Children /\ k # 0 /\ job[t] \in {0, k} /\ job'[t] \in {0, k}
    BY <2>0 DEF SpawnTypes, Calls, CallOf, Wait, Finish, Children
  <2>2. \A u \in Callers : u # t => spc'[u] = spc[u] /\ job'[u] = job[u]
    BY <2>0 DEF SpawnTypes, Wait, Goto, Finish
  <2>3. \A j \in Children : j # k => kind'[j] = kind[j] /\ (j \in known' <=> j \in known)
    BY <2>0 DEF SpawnTypes, Wait
  <2>4. \A y \in {"err", "io"}, j \in Children, d \in {"r", "w"} :
           j # k => (End(y, j, d) \in fds'[0] <=> End(y, j, d) \in fds[0])
    BY <2>0 DEF SpawnTypes, Wait
  <2>5. ASSUME NEW d \in {"r", "w"}
        PROVE  /\ End("err", k, d) \in fds'[0] <=> HoldsErr(k, d)'
               /\ End("io", k, d) \in fds'[0] <=> HoldsIo(k, d)'
    BY <2>0, <2>1, <1>2
       DEF SpawnTypes, Calls, CallOf, Descriptors, HoldsErr, HoldsIo, ErrAt, IoAt, Wait, Finish
  <2> QED BY <2>1, <2>2, <2>3, <2>4, <2>5, Rest
<1> QED BY <1>1, <1>2, <1>3, <1>4, <1>5

(* posix_spawn gives the pid out. *)
LEMMA GiveKeeps == ASSUME SpawnInv, NEW t \in Callers, Give(t) PROVE SpawnInv'
<1> USE SpawnAssumption DEF SpawnInv
<1>1. SpawnTypes'
  <2>1. job[t] \in Children
    BY DEF Calls, CallOf, Give
  <2>2. known' \subseteq Children /\ lost' \subseteq Children
    BY <2>1 DEF SpawnTypes, Give
  <2>3. spc' = [spc EXCEPT ![t] = "idle"] /\ job' = [job EXCEPT ![t] = 0]
    BY DEF Give, Finish, Goto
  <2>4. fds' \in [0 .. MaxChildren -> SUBSET Ends]
    BY DEF SpawnTypes, Give
  <2> QED BY <2>2, <2>3, <2>4 DEF SpawnTypes, Give
<1>2. Calls'
  BY DEF SpawnTypes, Calls, CallOf, Give, Goto, Finish, Popen
<1>3. Started'
  BY DEF Calls, CallOf, Started, Give
<1>4. NoChildForgotten'
  <2>1. known' = known \cup {job[t]} /\ UNCHANGED <<state, lost>>
    BY DEF Give
  <2>2. \A u \in Callers : u # t => job'[u] = job[u]
    BY DEF SpawnTypes, Give, Finish
  <2> QED BY <2>1, <2>2 DEF NoChildForgotten
<1>5. Descriptors'
  <2>0. PICK k : k = job[t]
    OBVIOUS
  <2>1. k \in Children /\ k # 0 /\ job[t] \in {0, k} /\ job'[t] \in {0, k}
    BY <2>0 DEF SpawnTypes, Calls, CallOf, Give, Finish, Children
  <2>2. \A u \in Callers : u # t => spc'[u] = spc[u] /\ job'[u] = job[u]
    BY <2>0 DEF SpawnTypes, Give, Goto, Finish
  <2>3. \A j \in Children : j # k => kind'[j] = kind[j] /\ (j \in known' <=> j \in known)
    BY <2>0 DEF SpawnTypes, Give
  <2>4. \A y \in {"err", "io"}, j \in Children, d \in {"r", "w"} :
           j # k => (End(y, j, d) \in fds'[0] <=> End(y, j, d) \in fds[0])
    BY <2>0 DEF SpawnTypes, Give
  <2>5. ASSUME NEW d \in {"r", "w"}
        PROVE  /\ End("err", k, d) \in fds'[0] <=> HoldsErr(k, d)'
               /\ End("io", k, d) \in fds'[0] <=> HoldsIo(k, d)'
    BY <2>0, <2>1, <1>2 DEF SpawnTypes, Calls, CallOf, Descriptors, HoldsErr, HoldsIo, ErrAt, Give, Popen
  <2> QED BY <2>1, <2>2, <2>3, <2>4, <2>5, Rest
<1> QED BY <1>1, <1>2, <1>3, <1>4, <1>5

(* popen keeps one end of the data pipe, or neither. *)
LEMMA StreamKeeps == ASSUME SpawnInv, NEW t \in Callers, Stream(t) PROVE SpawnInv'
<1> USE SpawnAssumption DEF SpawnInv
<1>1. SpawnTypes'
  <2>1. job[t] \in Children
    BY DEF Calls, CallOf, Stream
  <2>2. known' \subseteq Children /\ lost' \subseteq Children
    BY <2>1 DEF SpawnTypes, Stream
  <2>3. spc' = [spc EXCEPT ![t] = "idle"] /\ job' = [job EXCEPT ![t] = 0]
    BY DEF Stream, Finish, Goto
  <2>4. fds' \in [0 .. MaxChildren -> SUBSET Ends]
    BY DEF SpawnTypes, Stream, Close
  <2> QED BY <2>2, <2>3, <2>4 DEF SpawnTypes, Stream
<1>2. Calls'
  BY DEF SpawnTypes, Calls, CallOf, Stream, Goto, Finish, Popen
<1>3. Started'
  <2>1. \A k \in Children : fds'[k] = fds[k]
    BY DEF SpawnTypes, Stream, Close, Children
  <2>2. job[t] \in Children /\ kind[job[t]] # "none" /\ spc[t] = "stream"
    BY DEF Calls, CallOf, Stream
  <2>3. known' \subseteq known \cup {job[t]} /\ lost' \subseteq lost \cup {job[t]}
    BY DEF Stream
  <2> QED BY <2>1, <2>2, <2>3 DEF Calls, CallOf, Started, Stream
<1>4. NoChildForgotten'
  BY DEF SpawnTypes, NoChildForgotten, Stream, Finish
<1>5. Descriptors'
  <2>0. PICK k : k = job[t]
    OBVIOUS
  <2>1. k \in Children /\ k # 0 /\ job[t] \in {0, k} /\ job'[t] \in {0, k}
    BY <2>0 DEF SpawnTypes, Calls, CallOf, Stream, Finish, Children
  <2>2. \A u \in Callers : u # t => spc'[u] = spc[u] /\ job'[u] = job[u]
    BY <2>0 DEF SpawnTypes, Stream, Goto, Finish
  <2>3. \A j \in Children : j # k => kind'[j] = kind[j] /\ (j \in known' <=> j \in known)
    BY <2>0 DEF SpawnTypes, Stream
  <2>4. \A y \in {"err", "io"}, j \in Children, d \in {"r", "w"} :
           j # k => (End(y, j, d) \in fds'[0] <=> End(y, j, d) \in fds[0])
    <3>1. PICK E \in SUBSET Pipe("io", k) : Close(0, E)
      BY <2>0 DEF Stream, Pipe
    <3> QED BY <3>1, EndsDiffer DEF SpawnTypes, Close, Pipe
  <2>5. ASSUME NEW d \in {"r", "w"}
        PROVE  /\ End("err", k, d) \in fds'[0] <=> HoldsErr(k, d)'
               /\ End("io", k, d) \in fds'[0] <=> HoldsIo(k, d)'
    BY <2>0, <2>1, <1>2, EndsDiffer
       DEF SpawnTypes, Calls, CallOf, Descriptors, HoldsErr, HoldsIo, Side, ErrAt, IoAt, Stream, Goto,
           Finish, Close, Popen, Pipe, Children
  <2> QED BY <2>1, <2>2, <2>3, <2>4, <2>5, Rest
<1> QED BY <1>1, <1>2, <1>3, <1>4, <1>5

(* pclose takes the child over from the stream and closes its end. *)
LEMMA PcloseKeeps == ASSUME SpawnInv, NEW t \in Callers, Pclose(t) PROVE SpawnInv'
<1> USE SpawnAssumption DEF SpawnInv
<1>1. SpawnTypes'
  BY DEF SpawnTypes, Pclose, Goto, Close, Children
<1>2. Calls'
  <2>0. PICK k \in known : Pclose(t)!(k)
    BY Zenon DEF Pclose
  <2>1. k \in Children /\ kind[k] # "none" /\ state[k] \notin {"none", "reaped"}
    BY <2>0 DEF SpawnTypes, Started
  <2>2. spc' = [spc EXCEPT ![t] = "wait"] /\ job' = [job EXCEPT ![t] = k] /\ known' = known \ {k}
    BY <2>0 DEF Goto
  <2>3. \A u \in Callers : spc[u] # "idle" => job[u] # k
    BY <2>0 DEF Calls, CallOf
  <2>4. CallOf(t)'
    <3>1. spc'[t] = "wait" /\ job'[t] = k /\ UNCHANGED <<kind, lost, state, guessed>>
      BY <2>0, <2>2 DEF SpawnTypes
    <3>2. \A v \in Callers : v # t => spc'[v] = spc[v] /\ job'[v] = job[v]
      BY <2>2 DEF SpawnTypes
    <3>3. k \notin lost
      BY <2>1 DEF Started
    <3> QED BY <2>1, <2>2, <2>3, <3>1, <3>2, <3>3 DEF CallOf
  <2>5. ASSUME NEW u \in Callers, u # t PROVE CallOf(u)'
    <3>1. spc'[u] = spc[u] /\ job'[u] = job[u] /\ UNCHANGED <<kind, lost, state, guessed>>
      BY <2>0, <2>2, <2>5 DEF SpawnTypes
    <3>2. \A v \in Callers : v # t => spc'[v] = spc[v] /\ job'[v] = job[v]
      BY <2>2 DEF SpawnTypes
    <3>3. spc[u] # "idle" => job'[t] # job'[u]
      BY <2>2, <2>3, <3>1 DEF SpawnTypes
    <3> QED BY <2>2, <3>1, <3>2, <3>3 DEF Calls, CallOf, Popen
  <2> QED BY <2>4, <2>5 DEF Calls
<1>3. Started'
  BY EndsDiffer DEF SpawnTypes, Started, Pclose, Close, Pipe
<1>4. NoChildForgotten'
  BY DEF SpawnTypes, Calls, CallOf, NoChildForgotten, Pclose, Children
<1>5. Descriptors'
  <2>0. PICK k \in known : Pclose(t)!(k)
    BY Zenon DEF Pclose
  <2>1. k \in Children /\ k # 0 /\ job[t] \in {0, k} /\ job'[t] \in {0, k}
    BY <2>0 DEF SpawnTypes, Calls, CallOf, Children
  <2>2. \A u \in Callers : u # t => spc'[u] = spc[u] /\ job'[u] = job[u]
    BY <2>0 DEF SpawnTypes, Goto
  <2>3. \A j \in Children : j # k => kind'[j] = kind[j] /\ (j \in known' <=> j \in known)
    BY <2>0 DEF SpawnTypes
  <2>4. \A y \in {"err", "io"}, j \in Children, d \in {"r", "w"} :
           j # k => (End(y, j, d) \in fds'[0] <=> End(y, j, d) \in fds[0])
    BY <2>0, EndsDiffer DEF SpawnTypes, Close, Pipe
  <2>5. ASSUME NEW d \in {"r", "w"}
        PROVE  /\ End("err", k, d) \in fds'[0] <=> HoldsErr(k, d)'
               /\ End("io", k, d) \in fds'[0] <=> HoldsIo(k, d)'
    BY <2>0, <2>1, <1>2
       DEF SpawnTypes, Calls, CallOf, Descriptors, HoldsErr, HoldsIo, ErrAt, IoAt, Goto, Close, Pipe
  <2> QED BY <2>1, <2>2, <2>3, <2>4, <2>5, Rest
<1> QED BY <1>1, <1>2, <1>3, <1>4, <1>5

(* The child closes what it does not need, which is not the writing end. *)
LEMMA SetupKeeps == ASSUME SpawnInv, NEW k \in Children, Setup(k) PROVE SpawnInv'
<1> USE SpawnAssumption DEF SpawnInv
<1>1. SpawnTypes'
  BY DEF SpawnTypes, Setup, Close, SetState, Children
<1>2. Calls'
  BY DEF SpawnTypes, Calls, CallOf, Setup, SetState, Popen
<1>3. Started'
  BY EndsDiffer DEF SpawnTypes, Started, Setup, Close, SetState, Unneeded
<1>4. NoChildForgotten'
  BY DEF SpawnTypes, NoChildForgotten, Setup, SetState
<1>5. Descriptors'
  BY DEF SpawnTypes, Descriptors, HoldsErr, HoldsIo, Side, Setup, Close, Popen, Children
<1> QED BY <1>1, <1>2, <1>3, <1>4, <1>5

(* execve closes the ends of the error pipe of the child only. *)
LEMMA ExecKeeps == ASSUME SpawnInv, NEW k \in Children, Exec(k) PROVE SpawnInv'
<1> USE SpawnAssumption DEF SpawnInv
<1>1. SpawnTypes'
  BY DEF SpawnTypes, Exec, Close, SetState, Children
<1>2. Calls'
  BY DEF SpawnTypes, Calls, CallOf, Exec, SetState, Popen
<1>3. Started'
  BY DEF SpawnTypes, Started, Exec, Close, SetState
<1>4. NoChildForgotten'
  BY DEF SpawnTypes, NoChildForgotten, Exec, SetState
<1>5. Descriptors'
  BY DEF SpawnTypes, Descriptors, HoldsErr, HoldsIo, Side, Exec, Close, Popen, Children
<1> QED BY <1>1, <1>2, <1>3, <1>4, <1>5

(* The error is sent before the child ends. *)
LEMMA ExecFailsKeeps == ASSUME SpawnInv, NEW k \in Children, ExecFails(k) PROVE SpawnInv'
<1> USE SpawnAssumption DEF SpawnInv
<1>1. SpawnTypes'
  BY DEF SpawnTypes, ExecFails, Close, SetState, Children
<1>2. Calls'
  BY DEF SpawnTypes, Calls, CallOf, ExecFails, SetState, Popen
<1>3. Started'
  BY DEF SpawnTypes, Started, ExecFails, Close, SetState
<1>4. NoChildForgotten'
  BY DEF SpawnTypes, NoChildForgotten, ExecFails, SetState
<1>5. Descriptors'
  BY DEF SpawnTypes, Descriptors, HoldsErr, HoldsIo, Side, ExecFails, Close, Popen, Children
<1> QED BY <1>1, <1>2, <1>3, <1>4, <1>5

(* The program that was started ends. *)
LEMMA ExitKeeps == ASSUME SpawnInv, NEW k \in Children, Exit(k) PROVE SpawnInv'
<1> USE SpawnAssumption DEF SpawnInv
<1>1. SpawnTypes'
  BY DEF SpawnTypes, Exit, Close, SetState, Children
<1>2. Calls'
  BY DEF SpawnTypes, Calls, CallOf, Exit, SetState, Popen
<1>3. Started'
  BY DEF SpawnTypes, Started, Exit, Close, SetState
<1>4. NoChildForgotten'
  BY DEF SpawnTypes, NoChildForgotten, Exit, SetState
<1>5. Descriptors'
  BY DEF SpawnTypes, Descriptors, HoldsErr, HoldsIo, Side, Exit, Close, Popen, Children
<1> QED BY <1>1, <1>2, <1>3, <1>4, <1>5

(* The client reaps a child of posix_spawn. *)
LEMMA WaitpidKeeps == ASSUME SpawnInv, Waitpid PROVE SpawnInv'
<1> USE SpawnAssumption DEF SpawnInv
<1>1. SpawnTypes'
  BY DEF SpawnTypes, Waitpid, SetState
<1>2. Calls'
  BY DEF SpawnTypes, Calls, CallOf, Waitpid, SetState, Popen
<1>3. Started'
  BY DEF SpawnTypes, Started, Waitpid, SetState
<1>4. NoChildForgotten'
  BY DEF SpawnTypes, NoChildForgotten, Waitpid, SetState
<1>5. Descriptors'
  BY DEF SpawnTypes, Descriptors, HoldsErr, HoldsIo, Side, Waitpid, Popen
<1> QED BY <1>1, <1>2, <1>3, <1>4, <1>5

(* src/process.c, popen.c, system.c: for every number of threads and       *)
(* calls, a child that posix_spawn or popen reports as started has not     *)
(* failed (unless a signal interrupted the read of the error pipe),        *)
(* between calls the program has only the ends of popen's streams open,    *)
(* and every child is reaped, known to the program, the business of a      *)
(* call, or one that popen forgot when malloc failed.                      *)
THEOREM ChildrenRight == SpawnSpec => []ChildrenAccounted
<1>1. SpawnInit => SpawnInv
  <2> SUFFICES ASSUME SpawnInit PROVE SpawnInv
    OBVIOUS
  <2>1. SpawnTypes
    BY SpawnAssumption DEF SpawnInit, SpawnTypes
  <2> QED BY <2>1, SpawnAssumption
          DEF SpawnInit, SpawnInv, Calls, CallOf, Started, NoChildForgotten, Descriptors, HoldsErr, HoldsIo,
              ErrAt, Popen, Children
<1>2. SpawnInv /\ [SpawnNext]_spawnVars => SpawnInv'
  <2> SUFFICES ASSUME SpawnInv, [SpawnNext]_spawnVars PROVE SpawnInv'
    OBVIOUS
  <2>1. CASE UNCHANGED spawnVars
    BY <2>1 DEF spawnVars, SpawnInv, SpawnTypes, Calls, CallOf, Started, NoChildForgotten, Descriptors,
                HoldsErr, HoldsIo, ErrAt, IoAt, Side, Popen
  <2>2. CASE SpawnNext
    BY <2>2, MakePipesKeeps, MarkCloexecKeeps, ForkKeeps, ForkFailsKeeps, CloseWriteKeeps, ReadErrorKeeps,
       ReadInterruptedKeeps, ReapKeeps, WaitKeeps, GiveKeeps, StreamKeeps, PcloseKeeps,
       SetupKeeps, ExecKeeps, ExecFailsKeeps, ExitKeeps, WaitpidKeeps, Zenon DEF SpawnNext
  <2> QED BY <2>1, <2>2
<1>3. SpawnInv => ChildrenAccounted
  <2> SUFFICES ASSUME SpawnInv PROVE ChildrenAccounted
    OBVIOUS
  <2>1. ErrorsReported
    BY DEF SpawnInv, Started, ErrorsReported
  <2>2. NoDescriptorLeft
    <3> DEFINE Ours == {End("io", k, IF kind[k] = "read" THEN "r" ELSE "w") : k \in {j \in known : Popen(j)}}
    <3> SUFFICES ASSUME \A t \in Callers : spc[t] = "idle" PROVE fds[0] = Ours
      BY DEF NoDescriptorLeft
    <3>1. fds[0] \subseteq Ends /\ known \subseteq Children
      BY SpawnAssumption DEF SpawnInv, SpawnTypes
    <3>2. ASSUME NEW k \in Children, NEW d \in {"r", "w"}
          PROVE  ~HoldsErr(k, d) /\ (HoldsIo(k, d) <=> Popen(k) /\ k \in known /\ d = Side(k))
      BY DEF HoldsErr, HoldsIo, ErrAt, IoAt
    <3>3. ASSUME NEW x \in fds[0] PROVE x \in Ours
      <4>1. PICK y \in {"err", "io"}, k \in Children, d \in {"r", "w"} : x = End(y, k, d)
        BY <3>1, <3>3 DEF Ends
      <4> QED BY <3>2, <3>3, <4>1 DEF SpawnInv, Descriptors, Side
    <3>4. ASSUME NEW k \in known, Popen(k) PROVE End("io", k, Side(k)) \in fds[0]
      BY <3>1, <3>2, <3>4 DEF SpawnInv, Descriptors, Side
    <3> QED BY <3>3, <3>4 DEF Side
  <2> QED BY <2>1, <2>2 DEF SpawnInv, ChildrenAccounted
<1> QED BY <1>1, <1>2, <1>3, PTL DEF SpawnSpec
-----------------------------------------------------------------------------
(***************************************************************************)
(* Asynchronous I/O.                                                       *)
(***************************************************************************)

(* What the variables of Aio hold. *)
Tasks == [cb : Cbs \cup {"none"}, at : {"none", "seek", "transfer", "complete", "exited"},
          ret : Int, done : BOOLEAN, freed : BOOLEAN]

Labels == {"idle", "launch", "lio", "liosuspend", "lioasleep", "suspend", "timedsuspend",
           "asleep", "timedasleep", "join"}

AioTypes ==
  /\ started \in 0 .. MaxTasks
  /\ reserved \in [Cbs -> 0 .. started]
  /\ task \in [1 .. MaxTasks -> Tasks]
  /\ pos \in [AioFds -> Int]
  /\ apc \in [Clients -> Labels]
  /\ alist \in [Clients -> SUBSET Cbs]

(* __reserved[0] leads to a task of that control block that is not freed. *)
Led == \A c \in Cbs : reserved[c] # 0 =>
  task[reserved[c]].cb = c /\ task[reserved[c]].at # "none" /\ ~task[reserved[c]].freed

(* A task whose thread still runs is the one its control block leads to,   *)
(* and it is done only when the thread has nothing left to do.             *)
Running == \A k \in 1 .. MaxTasks :
  /\ task[k].at # "none" => k <= started /\ task[k].cb \in Cbs
  /\ task[k].at \in {"seek", "transfer", "complete"} => reserved[task[k].cb] = k
  /\ task[k].done => task[k].at = "exited"

(* Between lseek and the transfer the offset is where the request wants    *)
(* it, and what a task returns was done there.                             *)
Placed == \A k \in 1 .. MaxTasks :
  /\ task[k].at = "transfer" => pos[Fd(task[k].cb)] = Offset(k)
  /\ task[k].at \in {"complete", "exited"} => task[k].ret = Offset(k)

(* aio_cancel waits for the task of a control block of its own. *)
Joining == \A p \in Clients : apc[p] = "join" =>
  \A c \in alist[p] : <<p, c>> \in Uses /\ reserved[c] # 0

(* The inductive invariant: that a thread never outlives its task follows  *)
(* from the way its control block leads to it.                             *)
AioInv == AioTypes /\ Led /\ Running /\ Placed /\ Joining

(* A control block is the business of one client, and no two blocks use    *)
(* one descriptor.  aio_return and aio_cancel free the task, and a thread  *)
(* seeks before it reads or writes, so neither can be done without.        *)
OneOwner ==
  /\ \A p, q \in Clients, c \in Cbs : <<p, c>> \in Uses /\ <<q, c>> \in Uses => p = q
  /\ \A c, d \in Cbs : Fd(c) = Fd(d) => c = d

(* A step that moves one client only, and to pthread_join only for a       *)
(* control block of its own.                                               *)
LEMMA Elsewhere ==
  ASSUME AioInv, NEW p \in Clients, NEW l \in Labels, NEW S \in SUBSET Cbs, At(p, l, S),
         UNCHANGED <<reserved, task, pos, started>>,
         l = "join" => \A c \in S : <<p, c>> \in Uses /\ reserved[c] # 0
  PROVE  AioInv'
<1>1. AioTypes'
  BY DEF AioInv, AioTypes, At
<1>2. Joining'
  <2> SUFFICES ASSUME NEW q \in Clients, apc'[q] = "join", NEW c \in alist'[q]
               PROVE  <<q, c>> \in Uses /\ reserved[c] # 0
    BY DEF Joining
  <2>1. CASE q = p
    BY <2>1 DEF AioInv, AioTypes, At
  <2>2. CASE q # p
    BY <2>2 DEF AioInv, AioTypes, Joining, At
  <2> QED BY <2>1, <2>2
<1>3. Led' /\ Running' /\ Placed'
  BY DEF AioInv, Led, Running, Placed
<1> QED BY <1>1, <1>2, <1>3 DEF AioInv

(* lseek: nobody else is between lseek and the transfer on that            *)
(* descriptor.                                                             *)
LEMMA SeekToKeeps == ASSUME OneOwner, AioInv, NEW k \in 1 .. MaxTasks, SeekTo(k) PROVE AioInv'
<1> USE AioAssumption DEF AioInv
<1>1. AioTypes'
  <2>1. task' \in [1 .. MaxTasks -> Tasks]
    <3>1. task[k] \in Tasks
      BY DEF AioTypes
    <3>2. [task[k] EXCEPT !.at = "transfer"] \in Tasks
      BY <3>1 DEF Tasks
    <3> QED BY <3>2 DEF AioTypes, SeekTo
  <2>2. started' \in 0 .. MaxTasks /\ reserved' \in [Cbs -> 0 .. started']
    BY DEF AioTypes, SeekTo
  <2>3. pos' \in [AioFds -> Int]
    <3>1. Offset(k) \in Int
      BY DEF Offset
    <3> QED BY <3>1, Zenon DEF AioTypes, SeekTo
  <2>4. apc' \in [Clients -> Labels] /\ alist' \in [Clients -> SUBSET Cbs]
    BY DEF AioTypes, SeekTo
  <2> QED BY <2>1, <2>2, <2>3, <2>4 DEF AioTypes
<1>2. Led'
  BY DEF AioTypes, Led, SeekTo
<1>3. Running'
  BY DEF AioTypes, Running, SeekTo
<1>4. Placed'
  BY DEF OneOwner, AioTypes, Running, Placed, SeekTo
<1>5. Joining'
  BY DEF Joining, SeekTo
<1> QED BY <1>1, <1>2, <1>3, <1>4, <1>5

(* read or write, at the offset where lseek left it. *)
LEMMA TransferKeeps == ASSUME OneOwner, AioInv, NEW k \in 1 .. MaxTasks, Transfer(k) PROVE AioInv'
<1> USE AioAssumption DEF AioInv
<1>1. AioTypes'
  <2>1. task' \in [1 .. MaxTasks -> Tasks]
    <3>0. pos[Fd(task[k].cb)] \in Int
      BY DEF AioTypes, Running, Transfer
    <3>1. task[k] \in Tasks
      BY DEF AioTypes
    <3>2. [[task[k] EXCEPT !.at = "complete"] EXCEPT !.ret = pos[Fd(task[k].cb)]] \in Tasks
      BY <3>0, <3>1, Zenon DEF Tasks
    <3> QED BY <3>2 DEF AioTypes, Transfer
  <2>2. started' \in 0 .. MaxTasks /\ reserved' \in [Cbs -> 0 .. started']
    BY DEF AioTypes, Transfer
  <2>3. pos' \in [AioFds -> Int]
    <3>1. pos[Fd(task[k].cb)] + 1 \in Int
      BY DEF AioTypes, Running, Transfer
    <3> QED BY <3>1, Zenon DEF AioTypes, Transfer
  <2>4. apc' \in [Clients -> Labels] /\ alist' \in [Clients -> SUBSET Cbs]
    BY DEF AioTypes, Transfer
  <2> QED BY <2>1, <2>2, <2>3, <2>4 DEF AioTypes
<1>2. Led'
  BY DEF AioTypes, Led, Transfer
<1>3. Running'
  BY DEF AioTypes, Running, Transfer
<1>4. Placed'
  BY DEF OneOwner, AioTypes, Tasks, Led, Running, Placed, Joining, Offset, Transfer
<1>5. Joining'
  BY DEF Joining, Transfer
<1> QED BY <1>1, <1>2, <1>3, <1>4, <1>5

(* complete_task: the thread has nothing left to do but to exit. *)
LEMMA complete_taskKeeps == ASSUME OneOwner, AioInv, NEW k \in 1 .. MaxTasks, complete_task(k) PROVE AioInv'
<1> USE AioAssumption DEF AioInv
<1>1. AioTypes'
  <2>1. task' \in [1 .. MaxTasks -> Tasks]
    BY DEF AioTypes, Tasks, Led, Running, Joining, complete_task, Woken
  <2>2. started' \in 0 .. MaxTasks /\ reserved' \in [Cbs -> 0 .. started']
    BY DEF AioTypes, complete_task
  <2>3. pos' \in [AioFds -> Int]
    BY DEF AioTypes, complete_task
  <2>4. apc' \in [Clients -> Labels] /\ alist' \in [Clients -> SUBSET Cbs]
    BY DEF AioTypes, Labels, complete_task, Woken
  <2> QED BY <2>1, <2>2, <2>3, <2>4 DEF AioTypes
<1>2. Led'
  BY DEF AioTypes, Led, complete_task
<1>3. Running'
  BY DEF AioTypes, Running, complete_task
<1>4. Placed'
  BY DEF AioTypes, Placed, complete_task
<1>5. Joining'
  BY DEF AioTypes, Joining, complete_task, Woken
<1> QED BY <1>1, <1>2, <1>3, <1>4, <1>5

(* aio_read and aio_write: a new task and its control block lead to each   *)
(* other.                                                                  *)
LEMMA StartKeeps == ASSUME OneOwner, AioInv, NEW p \in Clients, Start(p) PROVE AioInv'
<1> USE AioAssumption DEF AioInv
<1>1. AioTypes'
  <2>1. task' \in [1 .. MaxTasks -> Tasks]
    <3>1. PICK c \in Cbs : Create(c)
      BY DEF AioTypes, Start, Mine
    <3>2. Task(c, "seek") \in Tasks
      BY DEF Task, Tasks
    <3> QED BY <3>1, <3>2 DEF AioTypes, Create
  <2>2. started' \in 0 .. MaxTasks /\ reserved' \in [Cbs -> 0 .. started']
    BY DEF AioTypes, Start, Create, Mine
  <2>3. pos' \in [AioFds -> Int]
    BY DEF AioTypes, Start
  <2>4. apc' \in [Clients -> Labels] /\ alist' \in [Clients -> SUBSET Cbs]
    BY DEF AioTypes, Start
  <2> QED BY <2>1, <2>2, <2>3, <2>4 DEF AioTypes
<1>2. Led'
  BY DEF AioTypes, Led, Start, Create, Task
<1>3. Running'
  BY DEF AioTypes, Running, Start, Create, Mine, Task
<1>4. Placed'
  BY DEF AioTypes, Placed, Start, Create, Task
<1>5. Joining'
  <2>1. PICK c \in Cbs : Create(c)
    BY DEF Start, Mine
  <2>2. started + 1 # 0
    BY DEF AioTypes
  <2> QED BY <2>1, <2>2 DEF AioTypes, Joining, Start, Create
<1> QED BY <1>1, <1>2, <1>3, <1>4, <1>5

(* The same for a request of lio_listio. *)
LEMMA LioStartKeeps == ASSUME OneOwner, AioInv, NEW p \in Clients, LioStart(p) PROVE AioInv'
<1> USE AioAssumption DEF AioInv
<1>1. AioTypes'
  <2>1. task' \in [1 .. MaxTasks -> Tasks]
    <3>1. PICK c \in Cbs : Create(c)
      BY DEF AioTypes, LioStart
    <3>2. Task(c, "seek") \in Tasks
      BY DEF Task, Tasks
    <3> QED BY <3>1, <3>2 DEF AioTypes, Create
  <2>2. started' \in 0 .. MaxTasks /\ reserved' \in [Cbs -> 0 .. started']
    BY DEF AioTypes, LioStart, Create
  <2>3. pos' \in [AioFds -> Int]
    BY DEF AioTypes, LioStart
  <2>4. apc' \in [Clients -> Labels] /\ alist' \in [Clients -> SUBSET Cbs]
    BY DEF AioTypes, LioStart
  <2> QED BY <2>1, <2>2, <2>3, <2>4 DEF AioTypes
<1>2. Led'
  BY DEF AioTypes, Led, LioStart, Create, Task
<1>3. Running'
  BY DEF AioTypes, Running, LioStart, Create, Task
<1>4. Placed'
  BY DEF AioTypes, Placed, LioStart, Create, Task
<1>5. Joining'
  BY DEF AioTypes, Joining, LioStart, Create
<1> QED BY <1>1, <1>2, <1>3, <1>4, <1>5

(* aio_return frees a task only when its thread has exited. *)
LEMMA ReturnKeeps == ASSUME OneOwner, AioInv, NEW p \in Clients, Return(p) PROVE AioInv'
<1> USE AioAssumption DEF AioInv
<1>1. AioTypes'
  <2>1. task' \in [1 .. MaxTasks -> Tasks]
    <3>1. PICK c \in Cbs : reserved[c] # 0 /\ Free(c)
      BY DEF AioTypes, Return, Mine
    <3>2. reserved[c] \in 1 .. MaxTasks
      BY <3>1 DEF AioTypes
    <3>3. task[reserved[c]] \in Tasks
      BY <3>2 DEF AioTypes
    <3>4. [task[reserved[c]] EXCEPT !.freed = TRUE] \in Tasks
      BY <3>3, Zenon DEF Tasks
    <3> QED BY <3>1, <3>2, <3>4 DEF AioTypes, Free
  <2>2. started' \in 0 .. MaxTasks /\ reserved' \in [Cbs -> 0 .. started']
    BY DEF AioTypes, Return, Free, Mine
  <2>3. pos' \in [AioFds -> Int]
    BY DEF AioTypes, Return
  <2>4. apc' \in [Clients -> Labels] /\ alist' \in [Clients -> SUBSET Cbs]
    BY DEF AioTypes, Return
  <2> QED BY <2>1, <2>2, <2>3, <2>4 DEF AioTypes
<1>2. Led'
  BY DEF AioTypes, Led, Return, Free, Mine
<1>3. Running'
  BY DEF AioTypes, Running, Return, Free, Joined
<1>4. Placed'
  BY DEF AioTypes, Placed, Return, Free
<1>5. Joining'
  BY Zenon DEF OneOwner, AioTypes, Tasks, Led, Joining, Return, Free, Mine, Joined
<1> QED BY <1>1, <1>2, <1>3, <1>4, <1>5

(* So does aio_cancel, and nobody else frees it meanwhile. *)
LEMMA CancelJoinKeeps == ASSUME OneOwner, AioInv, NEW p \in Clients, CancelJoin(p) PROVE AioInv'
<1> USE AioAssumption DEF AioInv
<1>1. AioTypes'
  <2>1. task' \in [1 .. MaxTasks -> Tasks]
    <3>1. PICK c \in Cbs : reserved[c] # 0 /\ Free(c)
      BY Zenon DEF AioTypes, Joining, CancelJoin
    <3>2. reserved[c] \in 1 .. MaxTasks
      BY <3>1 DEF AioTypes
    <3>3. task[reserved[c]] \in Tasks
      BY <3>2 DEF AioTypes
    <3>4. [task[reserved[c]] EXCEPT !.freed = TRUE] \in Tasks
      BY <3>3, Zenon DEF Tasks
    <3> QED BY <3>1, <3>2, <3>4 DEF AioTypes, Free
  <2>2. started' \in 0 .. MaxTasks /\ reserved' \in [Cbs -> 0 .. started']
    BY DEF AioTypes, CancelJoin, Free
  <2>3. pos' \in [AioFds -> Int]
    BY DEF AioTypes, CancelJoin
  <2>4. apc' \in [Clients -> Labels] /\ alist' \in [Clients -> SUBSET Cbs]
    BY DEF AioTypes, Labels, CancelJoin, At, Returns
  <2> QED BY <2>1, <2>2, <2>3, <2>4 DEF AioTypes
<1>2. Led'
  BY DEF AioTypes, Led, CancelJoin, Free
<1>3. Running'
  BY DEF AioTypes, Running, CancelJoin, Free, Joined
<1>4. Placed'
  BY DEF AioTypes, Placed, CancelJoin, Free
<1>5. Joining'
  <2>1. PICK c \in alist[p] : CancelJoin(p)!(c)
    BY DEF CancelJoin
  <2> SUFFICES ASSUME NEW q \in Clients, apc'[q] = "join", NEW d \in alist'[q]
               PROVE  <<q, d>> \in Uses /\ reserved'[d] # 0
    BY DEF Joining
  <2>2. q # p
    BY <2>1 DEF AioTypes, Returns, At
  <2>3. apc[q] = "join" /\ d \in alist[q] /\ d \in Cbs /\ c \in Cbs
    BY <2>1, <2>2, Zenon DEF AioTypes, Returns, At
  <2>4. <<q, d>> \in Uses /\ reserved[d] # 0 /\ <<p, c>> \in Uses
    BY <2>1, <2>3 DEF Joining
  <2>5. d # c
    BY <2>2, <2>3, <2>4 DEF OneOwner
  <2> QED BY <2>1, <2>3, <2>4, <2>5 DEF AioTypes, Free
<1> QED BY <1>1, <1>2, <1>3, <1>4, <1>5

(* lio_listio begins. *)
LEMMA LioKeeps == ASSUME AioInv, NEW p \in Clients, Lio(p) PROVE AioInv'
BY Elsewhere, Zenon DEF AioInv, AioTypes, Labels, Lio, Mine

(* lio_listio has started its requests. *)
LEMMA LioStartedKeeps == ASSUME AioInv, NEW p \in Clients, LioStarted(p) PROVE AioInv'
BY Elsewhere DEF AioInv, AioTypes, Labels, LioStarted, Returns

(* The loop of lio_listio. *)
LEMMA LioCheckKeeps == ASSUME AioInv, NEW p \in Clients, LioCheck(p) PROVE AioInv'
BY Elsewhere DEF AioInv, AioTypes, Labels, LioCheck, Returns

(* aio_suspend begins. *)
LEMMA SuspendKeeps == ASSUME AioInv, NEW p \in Clients, Suspend(p) PROVE AioInv'
<1>1. PICK S \in SUBSET Cbs, l \in {"suspend", "timedsuspend"} : At(p, l, S) /\ UNCHANGED <<reserved, task, pos, started>>
  BY Zenon DEF Suspend
<1> QED BY <1>1, Elsewhere DEF Labels

(* The loop of aio_suspend. *)
LEMMA SuspendCheckKeeps == ASSUME AioInv, NEW p \in Clients, SuspendCheck(p) PROVE AioInv'
BY Elsewhere DEF AioInv, AioTypes, Labels, SuspendCheck, Returns

(* The deadline of aio_suspend. *)
LEMMA TimeoutKeeps == ASSUME AioInv, NEW p \in Clients, Timeout(p) PROVE AioInv'
BY Elsewhere DEF AioTypes, Labels, Timeout, Returns

(* aio_cancel begins. *)
LEMMA CancelKeeps == ASSUME AioInv, NEW p \in Clients, Cancel(p) PROVE AioInv'
<1>1. PICK c \in Mine(p) : Cancel(p)!(c)
  BY Zenon DEF Cancel
<1>2. c \in Cbs /\ <<p, c>> \in Uses
  BY DEF Mine
<1>3. CASE Returns(p)
  BY <1>1, <1>3, Elsewhere DEF Returns, Labels
<1>4. CASE At(p, "join", {c})
  BY <1>1, <1>2, <1>4, Elsewhere DEF Labels
<1> QED BY <1>1, <1>3, <1>4

(* The invariant holds always. *)
LEMMA AioInductive == ASSUME OneOwner PROVE AioSpec => []AioInv
<1>1. AioInit => AioInv
  BY AioAssumption, SMTT(20) DEF AioInit, AioInv, AioTypes, Tasks, Task, None, Led, Running, Placed, Joining, Labels
<1>2. AioInv /\ [AioNext]_aioVars => AioInv'
  <2> SUFFICES ASSUME AioInv, [AioNext]_aioVars PROVE AioInv'
    OBVIOUS
  <2>1. CASE UNCHANGED aioVars
    BY <2>1 DEF aioVars, AioInv, AioTypes, Led, Running, Placed, Joining
  <2>2. CASE AioNext
    BY <2>2, SeekToKeeps, TransferKeeps, complete_taskKeeps, StartKeeps, LioKeeps, LioStartKeeps,
       LioStartedKeeps, LioCheckKeeps, SuspendKeeps, SuspendCheckKeeps, TimeoutKeeps, ReturnKeeps,
       CancelKeeps, CancelJoinKeeps, Zenon DEF AioNext
  <2> QED BY <2>1, <2>2
<1> QED BY <1>1, <1>2, PTL DEF AioSpec

(* src/aio.c: if every control block has one client and one descriptor of  *)
(* its own, no thread ever outlives its task, and a request that aio_error *)
(* reports as finished was carried out at the offset asked for.            *)
THEOREM TasksRight == ASSUME OneOwner PROVE AioSpec => []TasksExact
<1>0. \A k \in 1 .. MaxTasks : k # 0
  <2>1. MaxTasks \in Nat
    BY AioAssumption
  <2> QED BY <2>1
<1>1. AioInv => TasksExact
  <2> SUFFICES ASSUME AioInv PROVE TasksExact
    BY Zenon
  <2>1. TaskOutlivesThread
    <3> SUFFICES ASSUME NEW k \in 1 .. MaxTasks, task[k].at \in {"seek", "transfer", "complete"}
                 PROVE  ~task[k].freed
      BY Zenon DEF TaskOutlivesThread
    <3>1. PICK c \in Cbs : reserved[c] = k
      BY DEF AioInv, Running
    <3> QED BY <3>1, <1>0, Zenon DEF AioInv, Led
  <2>2. OffsetHonoured
    <3> SUFFICES ASSUME NEW c \in Cbs, reserved[c] # 0, aio_error(c) = "ok"
                 PROVE  task[reserved[c]].ret = Offset(reserved[c])
      BY DEF OffsetHonoured
    <3>1. reserved[c] \in 1 .. MaxTasks
      BY AioAssumption DEF AioInv, AioTypes
    <3>2. task[reserved[c]].done
      BY DEF aio_error, done, get_task
    <3> QED BY <3>1, <3>2 DEF AioInv, Running, Placed
  <2> QED BY <2>1, <2>2 DEF TasksExact
<1> QED BY AioInductive, <1>1, PTL

(* lio_listio returns after LIO_WAIT only from its loop. *)
LEMMA OnlyLioCheck ==
  ASSUME AioInv, AioNext, NEW p \in Clients, apc[p] = "lio", apc'[p] = "idle"
  PROVE  LioCheck(p)
<1> USE DEF AioInv
<1>1. ASSUME NEW q \in Clients, NEW l, NEW S, At(q, l, S) PROVE q = p
  BY <1>1 DEF AioTypes, At
<1>2. ASSUME NEW k \in 1 .. MaxTasks, SeekTo(k) \/ Transfer(k) \/ complete_task(k) PROVE FALSE
  BY <1>2, Zenon DEF AioTypes, SeekTo, Transfer, complete_task, Woken
<1>3. ASSUME NEW q \in Clients, Start(q) \/ LioStart(q) \/ Return(q) PROVE FALSE
  BY <1>3 DEF Start, LioStart, Return
<1>4. ASSUME NEW q \in Clients, Lio(q) \/ LioStarted(q) \/ Suspend(q) \/ SuspendCheck(q) \/ Timeout(q)
                                 \/ Cancel(q) \/ CancelJoin(q)
      PROVE  FALSE
  <2>1. q = p
    BY <1>1, <1>4, Zenon DEF Lio, LioStarted, Suspend, SuspendCheck, Timeout, Cancel, CancelJoin, Returns
  <2> QED BY <1>4, <2>1, Zenon DEF Lio, LioStarted, Suspend, SuspendCheck, Timeout, Cancel, CancelJoin
<1>5. ASSUME NEW q \in Clients, LioCheck(q) PROVE q = p
  BY <1>1, <1>5 DEF LioCheck, Returns
<1> QED BY <1>2, <1>3, <1>4, <1>5, Zenon DEF AioNext

(* src/aio.c: when lio_listio(LIO_WAIT) returns, no request of its list is *)
(* still being carried out.                                                *)
THEOREM ListsAwaited == ASSUME OneOwner PROVE AioSpec => LioWaits
<1>1. ASSUME AioInv, [AioNext]_aioVars
      PROVE  [\A p \in Clients : apc[p] = "lio" /\ apc'[p] = "idle" =>
                 \A c \in alist[p] : reserved[c] = 0 \/ task[reserved[c]].at = "exited"]_aioVars
  <2> SUFFICES ASSUME AioNext, NEW p \in Clients, apc[p] = "lio", apc'[p] = "idle", NEW c \in alist[p],
                      reserved[c] # 0
               PROVE  task[reserved[c]].at = "exited"
    BY <1>1
  <2>1. LioCheck(p)
    BY <1>1, OnlyLioCheck
  <2>2. AllDone(alist[p])
    BY <1>1, <2>1 DEF AioInv, AioTypes, LioCheck, At
  <2>3. c \in Cbs /\ reserved[c] \in 1 .. MaxTasks
    BY <1>1, AioAssumption DEF AioInv, AioTypes
  <2> QED BY <1>1, <2>2, <2>3 DEF AioInv, Running, AllDone, done, get_task
<1> QED BY AioInductive, <1>1, PTL DEF AioSpec, LioWaits
=============================================================================
