---------------------------------- MODULE Exit ----------------------------------
(***************************************************************************)
(* Exit handlers (src/atexit.c, exit and _exit of process.c).  The two     *)
(* lists, of atexit and of at_quick_exit, work alike.  A handler may       *)
(* register another one while it runs.                                     *)
(***************************************************************************)
EXTENDS Integers, Sequences

CONSTANTS Handlers,     \* functions
          ATEXIT_MAX

Lists == {"exit", "quick"}

VARIABLES handlers,     \* list -> the functions registered
          leaving,      \* list that is being run, "none", or "gone"
          index,        \* i of __run_atexit
          ran, before   \* handlers called so far, and registered when it began

exitVars == <<handlers, leaving, index, ran, before>>

Init ==
  /\ handlers = [l \in Lists |-> <<>>]
  /\ leaving = "none" /\ index = 0
  /\ ran = <<>> /\ before = <<>>

(* atexit and at_quick_exit; a full list is left as it is. *)
Register(l, f) ==
  /\ leaving # "gone"
  /\ Len(handlers[l]) < ATEXIT_MAX
  /\ handlers' = [handlers EXCEPT ![l] = Append(@, f)]
  /\ UNCHANGED <<leaving, index, ran, before>>

(* exit and quick_exit. *)
Leave(l) ==
  /\ leaving = "none"
  /\ leaving' = l /\ index' = Len(handlers[l])
  /\ before' = handlers[l]
  /\ UNCHANGED <<handlers, ran>>

(* Variant: the oldest handler is called first. *)
RunHandlerForward ==
  /\ leaving \in Lists /\ index > 0
  /\ ran' = Append(ran, handlers[leaving][Len(before) + 1 - index])
  /\ index' = index - 1
  /\ UNCHANGED <<handlers, leaving, before>>

RunHandler ==
  /\ leaving \in Lists /\ index > 0
  /\ ran' = Append(ran, handlers[leaving][index])
  /\ index' = index - 1
  /\ UNCHANGED <<handlers, leaving, before>>

_exit ==
  /\ leaving \in Lists /\ index = 0
  /\ leaving' = "gone"
  /\ UNCHANGED <<handlers, index, ran, before>>

Next ==
  \/ \E l \in Lists, f \in Handlers : Register(l, f)
  \/ \E l \in Lists : Leave(l)
  \/ RunHandler \/ _exit

Spec == Init /\ [][Next]_exitVars
Fairness == WF_exitVars(RunHandler \/ _exit)
-----------------------------------------------------------------------------
(* exit calls each handler registered before it once, the last one first,  *)
(* whatever handlers register meanwhile, and then the process ends.        *)
HandlersRun ==
  leaving \in Lists ~>
    /\ leaving = "gone"
    /\ Len(ran) = Len(before)
    /\ \A i \in 1 .. Len(ran) : ran[i] = before[Len(before) + 1 - i]
=============================================================================
