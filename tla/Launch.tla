-------------------------------- MODULE Launch --------------------------------
(***************************************************************************)
(* What a child of posix_spawn does before it becomes the program: the     *)
(* attributes, the file actions, the search of PATH by posix_spawnp and    *)
(* execvp, and the error pipe (process.c; the processes around it are in   *)
(* Spawn).                                                                 *)
(*                                                                         *)
(* A descriptor table maps numbers to what is open, or "free"; "err" is    *)
(* the writing end of the error pipe, which takes a number of its own that *)
(* the caller does not know.  Each directory of PATH has the program       *)
(* ("ok"), does not have it, or has one that may not be run.               *)
(***************************************************************************)
EXTENDS Integers, Sequences, SequencesExt, FiniteSetsExt

CONSTANTS Actions,        \* file actions: [op, path, fd, newfd]
          SearchPaths,    \* values of PATH: sequences of "ok", "ENOENT", "EACCES"
          MaxFileActions

VARIABLES acts, attr,     \* what the caller has put together
          dirs, k,        \* PATH, and the directory that is tried
          lpc,            \* place of the call
          child,          \* the child, or <<>>
          sent,           \* the error in the pipe, or "none"
          outcome,        \* result of the call
          forked          \* no fork, pipe or malloc has failed

launchVars == <<acts, attr, dirs, k, lpc, child, sent, outcome, forked>>

Fds == 0 .. 7
ParentFds == [f \in Fds |-> IF f = 0 THEN "dir" ELSE IF f <= 2 THEN "tty" ELSE "free"]
Free(t) == {f \in Fds : t[f] = "free"}

(* pipe takes the two lowest numbers; the child closes the reading end. *)
errfd == Min(Free(ParentFds) \ {Min(Free(ParentFds))})
-----------------------------------------------------------------------------

(* Without memory for the list or for a copy of the path the list stays    *)
(* as it is.                                                               *)
file_actions_add(a) ==
  /\ lpc = "build" /\ Len(acts) < MaxFileActions
  /\ acts' = Append(acts, a)
  /\ UNCHANGED <<attr, dirs, k, lpc, child, sent, outcome, forked>>

addopen(a) == a.op = "open" /\ file_actions_add(a)
adddup2(a) == a.op = "dup2" /\ file_actions_add(a)
addclose(a) == a.op = "close" /\ file_actions_add(a)
addchdir(a) == a.op = "chdir" /\ file_actions_add(a)
addfchdir(a) == a.op = "fchdir" /\ file_actions_add(a)

posix_spawn_file_actions_destroy ==
  /\ lpc = "build" /\ acts # <<>>
  /\ acts' = <<>>
  /\ UNCHANGED <<attr, dirs, k, lpc, child, sent, outcome, forked>>

(* posix_spawnattr_init, and the functions that set a field. *)
attr_init == [flags |-> {}, mask |-> "empty", pgroup |-> "own"]

SetAttr(a) ==
  /\ lpc = "build" /\ attr' = a
  /\ UNCHANGED <<acts, dirs, k, lpc, child, sent, outcome, forked>>

setflags(f) == SetAttr([attr EXCEPT !.flags = f])
setsigmask(m) == SetAttr([attr EXCEPT !.mask = m])
setpgroup(g) == SetAttr([attr EXCEPT !.pgroup = g])

Go(api) ==
  /\ lpc = "build"
  /\ lpc' = api
  /\ UNCHANGED <<acts, attr, dirs, k, child, sent, outcome, forked>>
-----------------------------------------------------------------------------

(* Variant: the last directory is not tried. *)
AfterOne(api, r) ==
  IF r = "0" \/ k + 1 >= Len(dirs) THEN outcome' = r /\ lpc' = "done" /\ UNCHANGED k
                                   ELSE k' = k + 1 /\ lpc' = api /\ UNCHANGED outcome

(* The next directory of PATH, or the result: any error leads to the next, *)
(* and the last one is returned.                                           *)
After(api, r) ==
  IF r = "0" \/ k = Len(dirs) THEN outcome' = r /\ lpc' = "done" /\ UNCHANGED k
                              ELSE k' = k + 1 /\ lpc' = api /\ UNCHANGED outcome

(* malloc fails, in either loop over PATH. *)
NoMemory ==
  /\ lpc \in {"spawn", "execvp"}
  /\ outcome' = "ENOMEM" /\ lpc' = "done" /\ forked' = FALSE
  /\ UNCHANGED <<acts, attr, dirs, k, child, sent>>

execvp ==
  /\ lpc = "execvp"
  /\ After("execvp", IF dirs[k] = "ok" THEN "0" ELSE dirs[k])
  /\ UNCHANGED <<acts, attr, dirs, child, sent, forked>>

(* The pipe, fork, and what the child starts with. *)
posix_spawn ==
  /\ lpc = "spawn"
  /\ child' = [fds |-> [ParentFds EXCEPT ![errfd] = "err"], cloexec |-> {errfd},
               cwd |-> ".", pgroup |-> "inherited", mask |-> "inherited", i |-> 0, runs |-> FALSE]
  /\ sent' = "none" /\ lpc' = "child"
  /\ UNCHANGED <<acts, attr, dirs, k, outcome, forked>>

(* pipe or fork fails, which posix_spawnp takes for a missing program. *)
posix_spawn_fails ==
  /\ lpc = "spawn"
  /\ After("spawn", "EAGAIN") /\ forked' = FALSE
  /\ UNCHANGED <<acts, attr, dirs, child, sent>>

(* A failure of setpgid goes unnoticed. *)
Attributes ==
  /\ lpc = "child" /\ child.i = 0
  /\ \E failed \in BOOLEAN :
       child' = [child EXCEPT !.i = 1,
                              !.pgroup = IF "SETPGROUP" \in attr.flags /\ ~failed THEN attr.pgroup ELSE @,
                              !.mask = IF "SETSIGMASK" \in attr.flags THEN attr.mask ELSE @]
  /\ UNCHANGED <<acts, attr, dirs, k, lpc, sent, outcome, forked>>

(* What an action makes of a table and a working directory, or its errno. *)
Dup(t, from, to) == [t EXCEPT ![to] = t[from]]
Did(t, cwd) == [err |-> "0", fds |-> t, cwd |-> cwd]

Open(c, a) ==
  LET f == Min(Free(c.fds))
      t == [c.fds EXCEPT ![f] = a.path]
  IN Did(IF f = a.fd THEN t ELSE [Dup(t, f, a.fd) EXCEPT ![f] = "free"], c.cwd)

Perform(c, a) ==
  IF a.op \in {"open", "chdir"} /\ a.path = "missing" THEN [c EXCEPT !.err = "ENOENT"]
  ELSE IF a.op \in {"close", "dup2", "fchdir"} /\ c.fds[a.fd] = "free" THEN [c EXCEPT !.err = "EBADF"]
  ELSE IF a.op = "fchdir" /\ c.fds[a.fd] # "dir" THEN [c EXCEPT !.err = "ENOTDIR"]
  ELSE CASE a.op = "open" -> Open(c, a)
         [] a.op = "close" -> Did([c.fds EXCEPT ![a.fd] = "free"], c.cwd)
         [] a.op = "dup2" -> Did(Dup(c.fds, a.fd, a.newfd), c.cwd)
         [] a.op = "chdir" -> Did(c.fds, a.path)
         [] a.op = "fchdir" -> Did(c.fds, "dir")

(* The numbers that lose FD_CLOEXEC: those that are opened anew. *)
Renewed(a) == CASE a.op \in {"open", "close"} -> {a.fd}
                [] a.op = "dup2" /\ a.fd # a.newfd -> {a.newfd}
                [] OTHER -> {}

(* The child writes errno to what has the number of the error pipe now.    *)
Fail(e) ==
  /\ sent' = IF child.fds[errfd] = "err" THEN e ELSE "none"
  /\ lpc' = "exited"
  /\ UNCHANGED child

FileAction ==
  LET a == acts[child.i]
      r == Perform(Did(child.fds, child.cwd), a)
  IN /\ lpc = "child" /\ child.i \in DOMAIN acts
     /\ IF r.err # "0" THEN Fail(r.err)
        ELSE /\ child' = [child EXCEPT !.fds = r.fds, !.cwd = r.cwd, !.i = @ + 1, !.cloexec = @ \ Renewed(a)]
             /\ UNCHANGED <<lpc, sent>>
     /\ UNCHANGED <<acts, attr, dirs, k, outcome, forked>>

execve ==
  /\ lpc = "child" /\ child.i = Len(acts) + 1
  /\ IF dirs[k] # "ok" THEN Fail(dirs[k])
     ELSE /\ child' = [child EXCEPT !.runs = TRUE,
                                    !.fds = [f \in Fds |-> IF f \in child.cloexec THEN "free" ELSE @[f]]]
          /\ lpc' = "exited" /\ UNCHANGED sent
  /\ UNCHANGED <<acts, attr, dirs, k, outcome, forked>>

(* The parent reads the error, or the end of file when no end is open. *)
ReadPipe ==
  /\ lpc = "exited"
  /\ After("spawn", IF sent = "none" THEN "0" ELSE sent)
  /\ UNCHANGED <<acts, attr, dirs, child, sent, forked>>

Init ==
  /\ acts = <<>> /\ attr = attr_init
  /\ dirs \in SearchPaths /\ k = 1 /\ lpc = "build" /\ child = <<>> /\ sent = "none" /\ outcome = "none" /\ forked = TRUE

Next ==
  \/ \E a \in Actions : addopen(a) \/ adddup2(a) \/ addclose(a) \/ addchdir(a) \/ addfchdir(a)
  \/ posix_spawn_file_actions_destroy
  \/ \E f \in SUBSET {"SETPGROUP", "SETSIGMASK"} : setflags(f)
  \/ setsigmask("some") \/ setpgroup("other")
  \/ \E api \in {"spawn", "execvp"} : Go(api)
  \/ execvp \/ NoMemory
  \/ posix_spawn \/ posix_spawn_fails \/ Attributes \/ FileAction \/ execve \/ ReadPipe
-----------------------------------------------------------------------------

(* What the actions make of the caller's own table, without an error pipe. *)
Wanted == FoldLeft(LAMBDA c, a : IF c.err = "0" THEN Perform(c, a) ELSE c, Did(ParentFds, "."), acts)

(* No action names the number that the error pipe happens to have. *)
PipeKept == \A i \in DOMAIN acts : errfd \notin {acts[i].fd, acts[i].newfd}

(* posix_spawnp returns 0 exactly if the program was started, from a       *)
(* directory of PATH that has it, with the descriptors and the directory   *)
(* that the file actions describe and the mask and, unless setpgid failed, *)
(* the process group of the attributes; else with the error of the first   *)
(* action that fails, or if no directory has the program that of the last  *)
(* one.  The exceptions: fork or malloc failed, or an action names the     *)
(* number of the error pipe.  execvp runs the program if a directory of    *)
(* PATH has it.                                                            *)
LaunchExact ==
  lpc = "done" /\ PipeKept =>
    /\ outcome = "0" =>
         /\ dirs[k] = "ok" /\ \A j \in 1 .. k - 1 : dirs[j] = "ok" => ~forked
         /\ child # <<>> =>
              /\ child.runs
              /\ Wanted = Did(child.fds, child.cwd)
              /\ child.mask = (IF "SETSIGMASK" \in attr.flags THEN attr.mask ELSE "inherited")
              /\ child.pgroup \in (IF "SETPGROUP" \in attr.flags THEN {attr.pgroup} ELSE {}) \cup {"inherited"}
    /\ outcome # "0" => child = <<>> \/ ~child.runs
    /\ outcome # "0" /\ forked =>
         outcome = IF child # <<>> /\ Wanted.err # "0" THEN Wanted.err ELSE Last(dirs)
    /\ outcome # "0" /\ forked /\ (child # <<>> => Wanted.err = "0") =>
         \A j \in DOMAIN dirs : dirs[j] # "ok"
=============================================================================
