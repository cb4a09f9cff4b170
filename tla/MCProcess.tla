------------------------------- MODULE MCProcess -------------------------------
(***************************************************************************)
(* The environment, exit handlers, children, what a child does before it   *)
(* is the program, asynchronous I/O, the loader of shared objects, and the *)
(* functions made of several system calls, for TLC.  The initial state     *)
(* chooses one of them, and only its variables change.                     *)
(***************************************************************************)
EXTENDS Env, Spawn, Aio, Resources

CONSTANTS Parts,     \* the parts that are run
          Solo, Handlers, ATEXIT_MAX, p, q, c, d, e,
          Actions, SearchPaths, MaxFileActions,
          Files, Objects, Places, MaxHandles

VARIABLES
  part,
  handlers, leaving, index, ran, before,
  fds1, cloexec1, kind1, state1, sent1, spc1, job1, known1, lost1, guessed1,
  acts, attr, dirs, nth, lpc, child, error, outcome, forked,
  disk, mem, maps, lfd, handle, paths, dl_list, dl_err, dpc, cur

exitVars == <<handlers, leaving, index, ran, before>>
soloVars == <<fds1, cloexec1, kind1, state1, sent1, spc1, job1, known1, lost1, guessed1>>
launchVars == <<acts, attr, dirs, nth, lpc, child, error, outcome, forked>>
loadVars == <<disk, mem, maps, lfd, handle, paths, dl_list, dl_err, dpc, cur>>
vars == <<part, envVars, exitVars, spawnVars, soloVars, aioVars, launchVars, loadVars, resVars>>

(* p works with two control blocks, q with the third; each has a file. *)
OwnBlocks == {<<p, c>>, <<p, d>>, <<q, e>>}

(* p works with all control blocks, and q waits for them. *)
WorkedByP == {p} \X Cbs
WatchedByQ == {q} \X Cbs

FdOf(x) == x

X == INSTANCE Exit
(* Children of a single thread, for liveness; those of Callers are Spawn. *)
One == INSTANCE Spawn WITH Callers <- Solo, Nested <- TRUE,
         fds <- fds1, cloexec <- cloexec1, kind <- kind1, state <- state1, sent <- sent1,
         spc <- spc1, job <- job1, known <- known1, lost <- lost1, guessed <- guessed1
L == INSTANCE Launch WITH k <- nth, sent <- error
D == INSTANCE Loader WITH fd <- lfd

(* The error pipe has number 4 and 3 is free again in the child. *)
Act(o, path, fd, newfd) == [op |-> o, path |-> path, fd |-> fd, newfd |-> newfd]
SmallActions ==
  {Act("open", "file", f, f) : f \in {1, 3}} \cup {Act("open", "missing", 1, 1)}
  \cup {Act("close", "", f, f) : f \in {1, 4}}
  \cup {Act("dup2", "", x[1], x[2]) : x \in {<<1, 3>>, <<1, 4>>, <<3, 1>>}}
  \cup {Act("chdir", "tmp", -1, -1)} \cup {Act("fchdir", "", f, f) : f \in {0, 1}}
SmallSearch == {<<"ok">>, <<"ENOENT", "ok">>, <<"ok", "EACCES">>, <<"EACCES", "ENOENT">>}

(* An object linked at 0 with a hash table, one linked above 0 without;    *)
(* one without a dynamic section, one with an unknown relocation, one that *)
(* is no shared object.                                                    *)
Segment(at, words, size) == [at |-> at, file |-> words, size |-> size]
Sym(name, value) == [name |-> name, value |-> value]
Rela(at, type, sym, add) == [at |-> at, type |-> type, sym |-> sym, add |-> add]
Object(segs, dyn, h, syms, relas) ==
  [refused |-> FALSE, segs |-> segs, dyn |-> dyn, hash |-> h, gap |-> Len(syms), syms |-> syms, relas |-> relas]
Plain == Object(<<Segment(0, <<91, 92>>, 2), Segment(3, <<93>>, 3)>>, TRUE, 3,
                <<Sym("", 0), Sym("x", 1), Sym("y", 4)>>, <<Rela(3, "RELATIVE", 1, 1), Rela(5, "SYMBOL", 3, 1)>>)
Shifted == Object(<<Segment(2, <<94>>, 2), Segment(4, <<95, 96>>, 2)>>, TRUE, 0,
                  <<Sym("", 0), Sym("x", 3)>>, <<Rela(5, "SYMBOL", 2, 0), Rela(3, "RELATIVE", 1, 0)>>)
SmallObjects ==
  {Plain, Shifted, [Shifted EXCEPT !.dyn = FALSE], [Shifted EXCEPT !.refused = TRUE],
   [Plain EXCEPT !.relas = <<Rela(5, "SYMBOL", 2, 0), Rela(3, "OTHER", 1, 0)>>]}

SmallRanges == {<<0, 1>>, <<1, 2>>}

ProcessInit ==
  /\ part \in Parts
  /\ EnvInit /\ X!Init /\ SpawnInit /\ One!SpawnInit /\ AioInit /\ L!Init /\ D!Init /\ ResInit
  /\ part # "env" => environ = <<>>
  /\ part # "launch" => dirs = <<"ok">>
  /\ part # "load" => \A x \in Files : disk[x].refused
  /\ part # "calls" => \A f \in Numbers : table[f] = "free"

ProcessNext ==
  \/ /\ part = "env" /\ EnvNext
     /\ UNCHANGED <<part, exitVars, spawnVars, soloVars, aioVars, launchVars, loadVars, resVars>>
  \/ /\ part = "exit" /\ X!Next
     /\ UNCHANGED <<part, envVars, spawnVars, soloVars, aioVars, launchVars, loadVars, resVars>>
  \/ /\ part = "two" /\ SpawnNext
     /\ UNCHANGED <<part, envVars, exitVars, soloVars, aioVars, launchVars, loadVars, resVars>>
  \/ /\ part = "one" /\ One!SpawnNext
     /\ UNCHANGED <<part, envVars, exitVars, spawnVars, aioVars, launchVars, loadVars, resVars>>
  \/ /\ part = "aio" /\ AioNext
     /\ UNCHANGED <<part, envVars, exitVars, spawnVars, soloVars, launchVars, loadVars, resVars>>
  \/ /\ part = "launch" /\ L!Next
     /\ UNCHANGED <<part, envVars, exitVars, spawnVars, soloVars, aioVars, loadVars, resVars>>
  \/ /\ part = "load" /\ D!Next
     /\ UNCHANGED <<part, envVars, exitVars, spawnVars, soloVars, aioVars, launchVars, resVars>>
  \/ /\ part = "calls" /\ ResNext
     /\ UNCHANGED <<part, envVars, exitVars, spawnVars, soloVars, aioVars, launchVars, loadVars>>

(* The fairness of Exit, Spawn and Aio, for the part that runs. *)
ProcessFairness ==
  /\ WF_exitVars(part = "exit" /\ (X!RunHandler \/ X!_exit))
  /\ \A t \in Solo : WF_soloVars(part = "one" /\ One!Parent(t))
  /\ \A i \in One!Children : WF_soloVars(part = "one" /\ One!Child(i))
  /\ \A i \in 1 .. MaxTasks : WF_aioVars(part = "aio" /\ Worker(i))
  /\ \A t \in Clients : WF_aioVars(part = "aio" /\ Inside(t)) /\ WF_aioVars(part = "aio" /\ Timeout(t))

ProcessSpec == ProcessInit /\ [][ProcessNext]_vars /\ ProcessFairness

(* See Exit: handlers run once, in the reverse order. *)
HandlersRun == X!HandlersRun
(* See Spawn: a single thread's calls return. *)
SpawnReturns == One!CallsReturn
(* See Launch: posix_spawnp returns 0 exactly if the program runs, with    *)
(* the descriptors that the file actions describe.                         *)
LaunchExact == L!LaunchExact
(* See Loader: dlopen, dlsym and dladdr agree with the file, and a dlopen   *)
(* that failed leaves nothing behind.                                      *)
LoaderExact == D!LoaderExact
(* See Aio: aio_suspend and the others return, and lio_listio waits for    *)
(* the whole list.                                                         *)
RequestsFinish == SuspendReturns /\ LioWaits
=============================================================================
