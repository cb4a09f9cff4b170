--------------------------------- MODULE Spawn ---------------------------------
(***************************************************************************)
(* Children of posix_spawn, popen and system (src/process.c, popen.c,      *)
(* system.c).  The three share a protocol: a pipe whose ends are closed by *)
(* execve carries the error of a child that could not start.  Processes    *)
(* are 0, the program, and 1, 2, ..., its children; call number k makes    *)
(* child k.  fds[p] is what p has open: ends of the error pipe <<"err", k, *)
(* d>> and of popen's data pipe <<"io", k, d>>, with d "r" or "w".         *)
(***************************************************************************)
EXTENDS Integers, FiniteSets

CONSTANTS Callers,       \* threads of the program
          Kinds,         \* calls they make: "spawn", "system", "read", "write"
          Nested,        \* popen streams are closed in the reverse order
          MaxChildren    \* bound: calls made

ASSUME SpawnAssumption ==
  MaxChildren \in Nat /\ Kinds \subseteq {"spawn", "system", "read", "write"}

VARIABLES
  fds, cloexec,  \* process -> descriptors, and those with FD_CLOEXEC
  kind,          \* child -> how it was made
  state,         \* child -> where it is
  sent,          \* child -> whether it has written to the error pipe
  spc, job,      \* caller -> its place in a call, and the child it is about, or 0
  known,         \* children whose pid the program has
  lost,          \* children that popen forgot when malloc failed
  guessed        \* children whose error pipe could not be read

spawnVars == <<fds, cloexec, kind, state, sent, spc, job, known, lost, guessed>>

Children == 1 .. MaxChildren
End(t, k, d) == <<t, k, d>>
Pipe(t, k) == {End(t, k, "r"), End(t, k, "w")}

SpawnInit ==
  /\ fds = [p \in 0 .. MaxChildren |-> {}]
  /\ cloexec = [p \in 0 .. MaxChildren |-> {}]
  /\ kind = [k \in Children |-> "none"]
  /\ state = [k \in Children |-> "none"]
  /\ sent = [k \in Children |-> FALSE]
  /\ spc = [t \in Callers |-> "idle"]
  /\ job = [t \in Callers |-> 0]
  /\ known = {} /\ lost = {} /\ guessed = {}

Goto(t, l) == spc' = [spc EXCEPT ![t] = l]
Finish(t) == Goto(t, "idle") /\ job' = [job EXCEPT ![t] = 0]
Close(p, E) ==
  /\ fds' = [fds EXCEPT ![p] = @ \ E]
  /\ cloexec' = [cloexec EXCEPT ![p] = @ \ E]
SetState(k, s) == state' = [state EXCEPT ![k] = s]
Popen(k) == kind[k] \in {"read", "write"}
-----------------------------------------------------------------------------
(* pipe, twice for popen. *)
MakePipes(t) == \E k \in Children, c \in Kinds :
  /\ spc[t] = "idle" /\ kind[k] = "none" /\ \A j \in 1 .. k - 1 : kind[j] # "none"
  /\ kind' = [kind EXCEPT ![k] = c]
  /\ fds' = [fds EXCEPT ![0] = @ \cup Pipe("err", k)
                                  \cup IF c \in {"read", "write"} THEN Pipe("io", k) ELSE {}]
  /\ job' = [job EXCEPT ![t] = k]
  /\ Goto(t, "piped")
  /\ UNCHANGED <<cloexec, state, sent, known, lost, guessed>>

(* The ends of the error pipe are marked in a step of its own. *)
MarkCloexec(t) ==
  /\ spc[t] = "piped"
  /\ cloexec' = [cloexec EXCEPT ![0] = @ \cup Pipe("err", job[t])]
  /\ Goto(t, "fork")
  /\ UNCHANGED <<fds, kind, state, sent, job, known, lost, guessed>>

Fork(t) ==
  LET k == job[t] IN
  /\ spc[t] = "fork"
  /\ fds' = [fds EXCEPT ![k] = fds[0]]
  /\ cloexec' = [cloexec EXCEPT ![k] = cloexec[0]]
  /\ SetState(k, "setup")
  /\ Goto(t, "close")
  /\ UNCHANGED <<kind, sent, job, known, lost, guessed>>

ForkFails(t) ==
  /\ spc[t] = "fork"
  /\ Close(0, Pipe("err", job[t]) \cup Pipe("io", job[t]))
  /\ Finish(t)
  /\ UNCHANGED <<kind, state, sent, known, lost, guessed>>
-----------------------------------------------------------------------------
(* The child: the ends it does not need, the attributes and file actions   *)
(* of posix_spawn, execve.  popen's end stays open as descriptor 0 or 1.   *)
Unneeded(k) == {End("err", k, "r")}
                 \cup CASE kind[k] = "read" -> {End("io", k, "r")}
                        [] kind[k] = "write" -> {End("io", k, "w")}
                        [] OTHER -> {}

Setup(k) ==
  /\ state[k] = "setup"
  /\ Close(k, Unneeded(k))
  /\ SetState(k, "exec")
  /\ UNCHANGED <<kind, sent, spc, job, known, lost, guessed>>

Exec(k) ==
  /\ state[k] = "exec"
  /\ Close(k, cloexec[k])
  /\ SetState(k, "running")
  /\ UNCHANGED <<kind, sent, spc, job, known, lost, guessed>>

(* Variant: the error is not written to the pipe. *)
ExecFailsSilently(k) ==
  /\ state[k] = "exec"
  /\ Close(k, fds[k])
  /\ SetState(k, "failed")
  /\ UNCHANGED <<kind, sent, spc, job, known, lost, guessed>>

(* A file action or execve fails; the child writes its errno and exits. *)
ExecFails(k) ==
  /\ state[k] = "exec"
  /\ sent' = [sent EXCEPT ![k] = TRUE]
  /\ Close(k, fds[k])
  /\ SetState(k, "failed")
  /\ UNCHANGED <<kind, spc, job, known, lost, guessed>>

Open(e) == \E p \in 0 .. MaxChildren : e \in fds[p]

(* The program that was started ends; one that reads from popen's pipe     *)
(* does so when nobody can write to it any more.                           *)
Exit(k) ==
  /\ state[k] = "running"
  /\ kind[k] = "write" => ~Open(End("io", k, "w"))
  /\ Close(k, fds[k])
  /\ SetState(k, "exited")
  /\ UNCHANGED <<kind, sent, spc, job, known, lost, guessed>>
-----------------------------------------------------------------------------
(* Variant: the parent keeps the writing end of the error pipe. *)
CloseWriteNot(t) ==
  /\ spc[t] = "close"
  /\ Goto(t, "read")
  /\ UNCHANGED <<fds, cloexec, kind, state, sent, job, known, lost, guessed>>

CloseWrite(t) ==
  /\ spc[t] = "close"
  /\ Close(0, {End("err", job[t], "w")})
  /\ Goto(t, "read")
  /\ UNCHANGED <<kind, state, sent, job, known, lost, guessed>>

AfterRead(k, failed) ==
  IF kind[k] = "system" THEN "wait"
  ELSE IF failed THEN "reap"
  ELSE IF kind[k] = "spawn" THEN "give" ELSE "stream"

(* read returns the error, or 0 when all writing ends are closed. *)
ReadError(t) ==
  LET k == job[t] IN
  /\ spc[t] = "read"
  /\ sent[k] \/ ~Open(End("err", k, "w"))
  /\ Goto(t, AfterRead(k, sent[k]))
  /\ Close(0, {End("err", k, "r")})
  /\ UNCHANGED <<kind, state, sent, job, known, lost, guessed>>

(* A signal interrupts read, which is taken for success. *)
ReadInterrupted(t) ==
  LET k == job[t] IN
  /\ spc[t] = "read"
  /\ Goto(t, AfterRead(k, FALSE))
  /\ guessed' = guessed \cup {k}
  /\ Close(0, {End("err", k, "r")})
  /\ UNCHANGED <<kind, state, sent, job, known, lost>>

Ended(k) == state[k] \in {"failed", "exited"}

(* posix_spawn and popen wait for a child that failed. *)
Reap(t) ==
  /\ spc[t] = "reap" /\ Ended(job[t])
  /\ SetState(job[t], "reaped")
  /\ Close(0, Pipe("io", job[t]))
  /\ Finish(t)
  /\ UNCHANGED <<kind, sent, known, lost, guessed>>

(* The waitpid of system and pclose. *)
Wait(t) ==
  /\ spc[t] = "wait" /\ Ended(job[t])
  /\ SetState(job[t], "reaped")
  /\ Finish(t)
  /\ UNCHANGED <<fds, cloexec, kind, sent, known, lost, guessed>>

(* posix_spawn gives the pid to its caller. *)
Give(t) ==
  /\ spc[t] = "give"
  /\ known' = known \cup {job[t]}
  /\ Finish(t)
  /\ UNCHANGED <<fds, cloexec, kind, state, sent, lost, guessed>>

(* popen keeps the other end of the data pipe, or has no memory for the    *)
(* stream and returns NULL.                                                *)
Stream(t) ==
  LET k == job[t] IN
  /\ spc[t] = "stream"
  /\ \/ Close(0, {End("io", k, IF kind[k] = "read" THEN "w" ELSE "r")})
        /\ known' = known \cup {k} /\ UNCHANGED lost
     \/ Close(0, Pipe("io", k)) /\ lost' = lost \cup {k} /\ UNCHANGED known
  /\ Finish(t)
  /\ UNCHANGED <<kind, state, sent, guessed>>

(* pclose closes the stream before it waits. *)
Pclose(t) == \E k \in known :
  /\ spc[t] = "idle" /\ Popen(k)
  /\ Nested => \A j \in Children : j > k => ~(Popen(j) /\ j \in known)
  /\ Close(0, Pipe("io", k))
  /\ known' = known \ {k}
  /\ job' = [job EXCEPT ![t] = k]
  /\ Goto(t, "wait")
  /\ UNCHANGED <<kind, state, sent, lost, guessed>>

(* The client waits for a child of posix_spawn. *)
Waitpid == \E k \in known :
  /\ kind[k] = "spawn" /\ Ended(k)
  /\ known' = known \ {k}
  /\ SetState(k, "reaped")
  /\ UNCHANGED <<fds, cloexec, kind, sent, spc, job, lost, guessed>>
-----------------------------------------------------------------------------
Parent(t) ==
  \/ MarkCloexec(t) \/ Fork(t) \/ ForkFails(t) \/ CloseWrite(t) \/ ReadError(t)
  \/ Reap(t) \/ Wait(t) \/ Give(t) \/ Stream(t)

Child(k) == Setup(k) \/ Exec(k) \/ ExecFails(k) \/ Exit(k)

SpawnNext ==
  \/ \E t \in Callers :
        \/ MakePipes(t) \/ MarkCloexec(t) \/ Fork(t) \/ ForkFails(t) \/ CloseWrite(t) \/ ReadError(t)
        \/ ReadInterrupted(t) \/ Reap(t) \/ Wait(t) \/ Give(t) \/ Stream(t) \/ Pclose(t)
  \/ \E k \in Children : Setup(k) \/ Exec(k) \/ ExecFails(k) \/ Exit(k)
  \/ Waitpid

SpawnSpec == SpawnInit /\ [][SpawnNext]_spawnVars

(* Threads and processes run, and programs end when they can. *)
SpawnFairness ==
  /\ \A t \in Callers : WF_spawnVars(Parent(t))
  /\ \A k \in Children : WF_spawnVars(Child(k))
-----------------------------------------------------------------------------
(* A child that posix_spawn or popen reports as started has not failed,    *)
(* unless the read of the error pipe was interrupted.                      *)
ErrorsReported == \A k \in Children : k \in known \ guessed => state[k] # "failed"

(* Between calls the program has only the streams of popen open.           *)
NoDescriptorLeft == (\A t \in Callers : spc[t] = "idle") =>
  fds[0] = {End("io", k, IF kind[k] = "read" THEN "r" ELSE "w") : k \in {j \in known : Popen(j)}}

(* A child is reaped, or known to the program, or some call is about it;   *)
(* popen forgets it when it has no memory for the stream.                  *)
NoChildForgotten == \A k \in Children :
  \/ state[k] \in {"none", "reaped"}
  \/ k \in known \cup lost
  \/ \E t \in Callers : job[t] = k

(* The three: posix_spawn and popen report a child that could not start,   *)
(* and the calls leave no descriptor behind, and no child that is neither  *)
(* reaped nor known.                                                       *)
ChildrenAccounted == ErrorsReported /\ NoDescriptorLeft /\ NoChildForgotten

(* posix_spawn, popen, system and pclose return, if popen streams are      *)
(* closed in the reverse order: children inherit the ends of earlier ones. *)
CallsReturn == \A t \in Callers : spc[t] # "idle" ~> spc[t] = "idle"
=============================================================================
