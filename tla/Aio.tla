---------------------------------- MODULE Aio ----------------------------------
(***************************************************************************)
(* Asynchronous I/O by threads (src/aio.c).  A request has a task and a    *)
(* thread of its own; __reserved[0] of the control block leads to the task *)
(* until aio_return or aio_cancel frees it.  A section under aio_lock is   *)
(* one step: pthread_cond_wait gives the lock up and sleeps in one step,   *)
(* and the broadcast of complete_task wakes all sleepers.  The cancel      *)
(* request has no effect on a task's thread: cancellation is deferred and  *)
(* the thread makes no call that is a cancellation point.                  *)
(***************************************************************************)
EXTENDS Integers, FiniteSets

CONSTANTS Clients, Cbs,
          Uses,          \* pairs <<client, control block>>: who works with which,
          Watches,       \* and who waits for which
          AioFds, Fd(_), \* descriptors, and that of a control block
          MaxTasks       \* bound: requests started

ASSUME AioAssumption == MaxTasks \in Nat /\ \A c \in Cbs : Fd(c) \in AioFds

VARIABLES
  reserved,   \* cb -> its task, 0 without one
  task,       \* number -> what is known of a task
  pos,        \* descriptor -> file offset
  started,    \* tasks created so far
  apc,        \* client -> its place in a call
  alist       \* client -> the control blocks the call is about

aioVars == <<reserved, task, pos, started, apc, alist>>

(* The offset of a request: tasks are numbered, and each has its own. *)
Offset(k) == 10 * k

(* The task of c, whose thread is at l; a number that is not used yet. *)
Task(c, l) == [cb |-> c, at |-> l, ret |-> 0, done |-> FALSE, freed |-> FALSE]
None == Task("none", "none")

AioInit ==
  /\ reserved = [c \in Cbs |-> 0]
  /\ task = [k \in 1 .. MaxTasks |-> None]
  /\ pos = [f \in AioFds |-> 0]
  /\ started = 0
  /\ apc = [p \in Clients |-> "idle"]
  /\ alist = [p \in Clients |-> {}]

Mine(p) == {c \in Cbs : <<p, c>> \in Uses}

get_task(c) == reserved[c]
done(c) == get_task(c) # 0 /\ task[get_task(c)].done

(* A call of p is about the control blocks S and is at l, or returns. *)
At(p, l, S) ==
  /\ apc' = [apc EXCEPT ![p] = l]
  /\ alist' = [alist EXCEPT ![p] = S]

Returns(p) == At(p, "idle", {})
-----------------------------------------------------------------------------
(* start_task for c; clients do not reuse a block that is in use. *)
Create(c) ==
  /\ reserved[c] = 0 /\ started < MaxTasks
  /\ started' = started + 1
  /\ reserved' = [reserved EXCEPT ![c] = started + 1]
  /\ task' = [task EXCEPT ![started + 1] = Task(c, "seek")]

(* aio_read and aio_write; a failure leaves no trace. *)
Start(p) == \E c \in Mine(p) :
  /\ apc[p] = "idle"
  /\ Create(c)
  /\ UNCHANGED <<pos, apc, alist>>

(* lio_listio starts the requests one by one. *)
Lio(p) == \E S \in SUBSET Mine(p) :
  /\ apc[p] = "idle" /\ Cardinality(S) > 1 /\ \A c \in S : reserved[c] = 0
  /\ At(p, "launch", S)
  /\ UNCHANGED <<reserved, task, pos, started>>

LioStart(p) ==
  /\ apc[p] = "launch"
  /\ \E c \in alist[p] : Create(c)
  /\ UNCHANGED <<pos, apc, alist>>

(* LIO_NOWAIT returns, LIO_WAIT goes on; a request that could not be       *)
(* started has no task.                                                    *)
LioStarted(p) ==
  /\ apc[p] = "launch"
  /\ (\E c \in alist[p] : reserved[c] = 0) => started = MaxTasks
  /\ At(p, "lio", alist[p]) \/ Returns(p)
  /\ UNCHANGED <<reserved, task, pos, started>>

AllDone(S) == \A c \in S : get_task(c) = 0 \/ done(c)

LioCheck(p) ==
  /\ apc[p] = "lio"
  /\ IF AllDone(alist[p]) THEN Returns(p) ELSE At(p, "liosuspend", alist[p])
  /\ UNCHANGED <<reserved, task, pos, started>>
-----------------------------------------------------------------------------
(* The thread of a task: reader and writer. *)
SeekTo(k) ==
  /\ task[k].at = "seek"
  /\ pos' = [pos EXCEPT ![Fd(task[k].cb)] = Offset(k)]
  /\ task' = [task EXCEPT ![k].at = "transfer"]
  /\ UNCHANGED <<reserved, started, apc, alist>>

Transfer(k) ==
  LET f == Fd(task[k].cb) IN
  /\ task[k].at = "transfer"
  /\ task' = [task EXCEPT ![k].at = "complete", ![k].ret = pos[f]]
  /\ pos' = [pos EXCEPT ![f] = @ + 1]
  /\ UNCHANGED <<reserved, started, apc, alist>>

(* complete_task wakes everybody who sleeps in aio_suspend. *)
Woken == [p \in Clients |-> CASE apc[p] = "asleep" -> "suspend"
                              [] apc[p] = "timedasleep" -> "timedsuspend"
                              [] apc[p] = "lioasleep" -> "liosuspend"
                              [] OTHER -> apc[p]]

(* Variant: the waiters are not woken. *)
complete_task_quietly(k) ==
  /\ task[k].at = "complete"
  /\ task' = [task EXCEPT ![k].at = "exited", ![k].done = TRUE]
  /\ UNCHANGED <<reserved, pos, started, apc, alist>>

complete_task(k) ==
  /\ task[k].at = "complete"
  /\ task' = [task EXCEPT ![k].at = "exited", ![k].done = TRUE]
  /\ apc' = Woken
  /\ UNCHANGED <<reserved, pos, started, alist>>
-----------------------------------------------------------------------------
Suspend(p) == \E S \in SUBSET {c \in Cbs : <<p, c>> \in Watches} \ {{}} : \E l \in {"suspend", "timedsuspend"} :
  /\ apc[p] = "idle" /\ \E c \in S : reserved[c] # 0
  /\ At(p, l, S)
  /\ UNCHANGED <<reserved, task, pos, started>>

(* The loop of aio_suspend, under aio_lock. *)
SuspendCheck(p) ==
  /\ apc[p] \in {"suspend", "timedsuspend", "liosuspend"}
  /\ IF \E c \in alist[p] : done(c)
     THEN IF apc[p] = "liosuspend" THEN At(p, "lio", alist[p]) ELSE Returns(p)
     ELSE At(p, CASE apc[p] = "suspend" -> "asleep" [] apc[p] = "timedsuspend" -> "timedasleep"
                  [] OTHER -> "lioasleep", alist[p])
  /\ UNCHANGED <<reserved, task, pos, started>>

Timeout(p) ==
  /\ apc[p] = "timedasleep"
  /\ Returns(p)
  /\ UNCHANGED <<reserved, task, pos, started>>

(* Without a task aio_error says that all is well. *)
aio_error(c) == IF get_task(c) = 0 \/ done(c) THEN "ok" ELSE "inprogress"

Free(c) ==
  /\ task' = [task EXCEPT ![reserved[c]].freed = TRUE]
  /\ reserved' = [reserved EXCEPT ![c] = 0]

(* Variant: the task is freed without pthread_join. *)
JoinedNot(k) == TRUE

Joined(k) == task[k].at = "exited"

(* aio_return waits for the thread. *)
Return(p) == \E c \in Mine(p) :
  /\ apc[p] = "idle" /\ reserved[c] # 0
  /\ Joined(reserved[c])
  /\ Free(c)
  /\ UNCHANGED <<pos, started, apc, alist>>

(* aio_cancel asks the thread to stop, and waits for it. *)
Cancel(p) == \E c \in Mine(p) :
  /\ apc[p] = "idle" /\ reserved[c] # 0
  /\ IF done(c) THEN Returns(p) ELSE At(p, "join", {c})
  /\ UNCHANGED <<reserved, task, pos, started>>

CancelJoin(p) == \E c \in alist[p] :
  /\ apc[p] = "join"
  /\ Joined(reserved[c])
  /\ Free(c)
  /\ Returns(p)
  /\ UNCHANGED <<pos, started>>
-----------------------------------------------------------------------------
Worker(k) == SeekTo(k) \/ Transfer(k) \/ complete_task(k)

Inside(p) == LioStart(p) \/ LioStarted(p) \/ LioCheck(p) \/ SuspendCheck(p) \/ CancelJoin(p)

AioNext ==
  \/ \E k \in 1 .. MaxTasks : SeekTo(k) \/ Transfer(k) \/ complete_task(k)
  \/ \E p \in Clients :
        \/ Start(p) \/ Lio(p) \/ LioStart(p) \/ LioStarted(p) \/ LioCheck(p)
        \/ Suspend(p) \/ SuspendCheck(p) \/ Timeout(p)
        \/ Return(p) \/ Cancel(p) \/ CancelJoin(p)

AioSpec == AioInit /\ [][AioNext]_aioVars

(* The threads of tasks run, and so do those inside a call that does not   *)
(* block; the clock reaches every deadline.                                *)
AioFairness ==
  /\ \A k \in 1 .. MaxTasks : WF_aioVars(Worker(k))
  /\ \A p \in Clients : WF_aioVars(Inside(p)) /\ WF_aioVars(Timeout(p))

-----------------------------------------------------------------------------
(* The thread of a task never outlives the task that it reads and writes:  *)
(* aio_return and aio_cancel join before they free.                        *)
TaskOutlivesThread == \A k \in 1 .. MaxTasks :
  task[k].at \in {"seek", "transfer", "complete"} => ~task[k].freed

(* What aio_error reports as finished was carried out at the offset asked  *)
(* for, as long as no two requests use one descriptor at a time.           *)
OffsetHonoured == \A c \in Cbs :
  reserved[c] # 0 /\ aio_error(c) = "ok" => task[reserved[c]].ret = Offset(reserved[c])

(* Both. *)
TasksExact == TaskOutlivesThread /\ OffsetHonoured

(* aio_suspend, aio_cancel and lio_listio return once the requests they    *)
(* are about are finished.                                                 *)
SuspendReturns == \A p \in Clients : apc[p] # "idle" ~> apc[p] = "idle"

(* When lio_listio(LIO_WAIT) returns, no request of the list is running.   *)
LioWaits == [][\A p \in Clients :
  apc[p] = "lio" /\ apc'[p] = "idle" =>
     \A c \in alist[p] : reserved[c] = 0 \/ task[reserved[c]].at = "exited"]_aioVars
=============================================================================
