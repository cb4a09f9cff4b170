--------------------------------- MODULE Heap ---------------------------------
(***************************************************************************)
(* malloc, free and the functions built on them (src/memory.c, the build   *)
(* with sbrk): a first-fit list of freed blocks, never split nor merged,   *)
(* under free_lock, and sbrk when no block on it is large enough.          *)
(*                                                                         *)
(* A block is the number of the sbrk call that made it.  Memory is counted *)
(* in cells; a cell holds "z" (zero), "v" (what its owner wrote) or "j"    *)
(* (anything else).  Any thread may pass on, resize or free any pointer.   *)
(***************************************************************************)
EXTENDS Integers, Sequences, Functions

CONSTANTS Threads,
          Sizes,      \* sizes asked for, positive
          Extra,      \* cells posix_memalign adds for header and alignment
          Magic,      \* POSIX_ALIGN_MAGIC read as a size
          Resizable,  \* which kinds of pointers clients resize: {"plain"}, ...
          MaxBlocks,  \* bound: sbrk calls that succeed
          MaxOps      \* bound: calls made

ASSUME SizesAssumption == Sizes \subseteq Nat \ {0} /\ Extra \in Nat \ {0} /\ Magic \in Nat
ASSUME MagicAssumption == Magic \notin Sizes   \* nobody asks for exactly 0x50414C47 bytes
ASSUME BoundsAssumption == MaxBlocks \in Nat /\ MaxOps \in Nat

VARIABLES
  cap,    \* the cells sbrk provided for each block
  size,   \* the size field of its header
  link,   \* its next field once it is off the list, 0 for NULL
  mem,    \* its cells
  free,   \* free_list, first block first
  held,   \* the client's pointers: block, length, and "plain" or "aligned"
  pc, req,
  ops

vars == <<cap, size, link, mem, free, held, pc, req, ops>>

Null == [blk |-> 0, len |-> 0, kind |-> "plain"]

Init ==
  /\ cap = <<>> /\ size = <<>> /\ link = <<>> /\ mem = <<>>
  /\ free = <<>>
  /\ held = {}
  /\ pc = [t \in Threads |-> "idle"]
  /\ req = [t \in Threads |-> [op |-> "malloc", n |-> 0, want |-> 0, old |-> Null, blk |-> 0]]
  /\ ops = 0

Least(a, b) == IF a < b THEN a ELSE b
Goto(t, l) == pc' = [pc EXCEPT ![t] = l]

(* Where the caller's cells start in a block, and what the word before a   *)
(* pointer holds when it is read as the size of a block_header.            *)
Offset(p) == IF p.kind = "aligned" THEN Extra ELSE 0
HeaderSize(p) == IF p.kind = "aligned" THEN Magic ELSE size[p.blk]
-----------------------------------------------------------------------------
(* A call: the pointer it is given leaves the client's hands. *)
Begin(t, o, n, want, p, l) ==
  /\ pc[t] = "idle" /\ ops < MaxOps
  /\ ops' = ops + 1
  /\ held' = held \ {p}
  /\ req' = [req EXCEPT ![t] = [op |-> o, n |-> n, want |-> want, old |-> p, blk |-> 0]]
  /\ Goto(t, l)
  /\ UNCHANGED <<cap, size, link, mem, free>>

(* malloc, calloc (and reallocarray or recallocarray of NULL). *)
Malloc(t) == \E n \in Sizes, o \in {"malloc", "calloc"} : Begin(t, o, n, n, Null, "search")

(* posix_memalign and aligned_alloc reserve room in front of the result. *)
Memalign(t) == \E n \in Sizes : Begin(t, "memalign", n, n + Extra, Null, "search")

(* realloc, reallocarray, recallocarray; reallocf frees when it fails. *)
Realloc(t) == \E n \in Sizes, p \in held, o \in {"realloc", "recalloc", "reallocf"} :
  p.kind \in Resizable /\ Begin(t, o, n, n, p, "search")

(* free, or realloc to size 0. *)
Free(t) == \E p \in held : Begin(t, "free", 0, 0, p, "free")
-----------------------------------------------------------------------------
(* The first-fit search and the unlinking, under free_lock. *)
Fits(i, n) == size[free[i]] >= n
FirstFit(i, n) == Fits(i, n) /\ \A j \in 1 .. i - 1 : ~Fits(j, n)

(* Variant: the block stays on the list. *)
UnlinkNot(i) == free

Unlink(i) == SubSeq(free, 1, i - 1) \o SubSeq(free, i + 1, Len(free))

Search(t) ==
  /\ pc[t] = "search"
  /\ \/ \E i \in 1 .. Len(free) :
          /\ FirstFit(i, req[t].want)
          /\ req' = [req EXCEPT ![t].blk = free[i]]
          /\ link' = [link EXCEPT ![free[i]] = IF i < Len(free) THEN free[i + 1] ELSE 0]
          /\ free' = Unlink(i)
          /\ Goto(t, "mark")
     \/ /\ \A i \in 1 .. Len(free) : ~Fits(i, req[t].want)
        /\ Goto(t, "grow")
        /\ UNCHANGED <<req, link, free>>
  /\ UNCHANGED <<cap, size, mem, held, ops>>

(* b->size = size, after the unlock: the rest of the block is forgotten. *)
Mark(t) ==
  /\ pc[t] = "mark"
  /\ size' = [size EXCEPT ![req[t].blk] = req[t].want]
  /\ Goto(t, "fill")
  /\ UNCHANGED <<cap, link, mem, free, held, req, ops>>

(* sbrk: fresh memory is zero. *)
Grow(t) ==
  /\ pc[t] = "grow" /\ Len(cap) < MaxBlocks
  /\ cap' = Append(cap, req[t].want)
  /\ size' = Append(size, req[t].want)
  /\ link' = Append(link, 0)
  /\ mem' = Append(mem, [i \in 1 .. req[t].want |-> "z"])
  /\ req' = [req EXCEPT ![t].blk = Len(cap) + 1]
  /\ Goto(t, "fill")
  /\ UNCHANGED <<free, held, ops>>

(* ENOMEM, from sbrk or from the probe before the search: the old pointer  *)
(* stays with the client, but reallocf frees it.                           *)
MallocFails(t) ==
  /\ pc[t] \in {"search", "grow"}
  /\ IF req[t].op = "reallocf" THEN held' = held /\ Goto(t, "free")
     ELSE /\ held' = held \cup ({req[t].old} \ {Null})
          /\ Goto(t, "idle")
  /\ UNCHANGED <<cap, size, link, mem, free, req, ops>>

Resizing(t) == req[t].op \in {"realloc", "reallocf", "recalloc"}

(* The cells realloc copies, by the size it finds before the old pointer. *)
Copied(t) == IF Resizing(t) THEN 1 .. Least(HeaderSize(req[t].old), req[t].n) ELSE {}

(* Variant: recallocarray zeroes nothing. *)
ZeroedOld(t) == IF req[t].op = "calloc" THEN 1 .. req[t].n ELSE {}

(* The cells calloc and recallocarray clear. *)
Zeroed(t) == CASE req[t].op = "calloc" -> 1 .. req[t].n
               [] req[t].op = "recalloc" -> HeaderSize(req[t].old) + 1 .. req[t].n
               [] OTHER -> {}

(* A cell of the old block; past its end lies anything. *)
OldCell(p, i) == IF Offset(p) + i <= cap[p.blk] THEN mem[p.blk][Offset(p) + i] ELSE "j"

(* Variant: the old block is not freed. *)
FillLeaks(t) ==
  /\ pc[t] = "fill"
  /\ mem' = [mem EXCEPT ![req[t].blk] =
              [i \in DOMAIN @ |-> CASE i \in Zeroed(t) -> "z"
                                   [] i \in Copied(t) -> OldCell(req[t].old, i)
                                   [] OTHER -> @[i]]]
  /\ Goto(t, "return")
  /\ UNCHANGED <<cap, size, link, free, held, req, ops>>

(* vmemcpy and vmemset; a resized block is then freed. *)
Fill(t) ==
  /\ pc[t] = "fill"
  /\ mem' = [mem EXCEPT ![req[t].blk] =
              [i \in DOMAIN @ |-> CASE i \in Zeroed(t) -> "z"
                                   [] i \in Copied(t) -> OldCell(req[t].old, i)
                                   [] OTHER -> @[i]]]
  /\ Goto(t, IF req[t].old = Null THEN "return" ELSE "free")
  /\ UNCHANGED <<cap, size, link, free, held, req, ops>>
-----------------------------------------------------------------------------
Result(t) == [blk |-> req[t].blk, len |-> req[t].n,
              kind |-> IF req[t].op = "memalign" THEN "aligned" ELSE "plain"]

(* free: the word before the pointer tells an aligned pointer, whose block *)
(* is found through its header, from a plain one.  A plain block whose     *)
(* size reads as the magic number is taken for an aligned one, with the    *)
(* link of the block as its origin: nothing happens if that is NULL, and   *)
(* otherwise something that is no block (0) gets onto the list.            *)
Push(t) ==
  /\ pc[t] = "free"
  /\ LET p == req[t].old IN
     free' = CASE p.kind = "aligned" \/ size[p.blk] # Magic -> <<p.blk>> \o free
               [] OTHER -> IF link[p.blk] = 0 THEN free ELSE <<0>> \o free
  /\ Goto(t, IF req[t].blk = 0 THEN "idle" ELSE "return")
  /\ UNCHANGED <<cap, size, link, mem, held, req, ops>>

(* The client gets its pointer and writes to all of it. *)
Return(t) ==
  /\ pc[t] = "return"
  /\ held' = held \cup {Result(t)}
  /\ LET o == Offset(Result(t)) IN
     mem' = [mem EXCEPT ![req[t].blk] =
              [i \in DOMAIN @ |-> IF i > o /\ i <= o + req[t].n THEN "v" ELSE @[i]]]
  /\ Goto(t, "idle")
  /\ UNCHANGED <<cap, size, link, free, req, ops>>

Next == \E t \in Threads :
  \/ Malloc(t) \/ Memalign(t) \/ Realloc(t) \/ Free(t)
  \/ Search(t) \/ Mark(t) \/ Grow(t) \/ MallocFails(t) \/ Fill(t) \/ Return(t) \/ Push(t)

Spec == Init /\ [][Next]_vars
-----------------------------------------------------------------------------
Blocks == 1 .. Len(cap)

(* The blocks a call in progress is responsible for. *)
InCall(t) ==
  {b \in Blocks : \/ b = req[t].blk /\ pc[t] \in {"mark", "fill", "free", "return"}
                  \/ b = req[t].old.blk /\ pc[t] \notin {"idle", "return"}}

TypeOK ==
  /\ Len(size) = Len(cap) /\ Len(link) = Len(cap) /\ Len(mem) = Len(cap)
  /\ \A b \in Blocks : cap[b] \in Nat /\ size[b] \in Nat /\ DOMAIN mem[b] = 1 .. cap[b]
  /\ free \in Seq(Blocks)
  /\ \A p \in held : p.blk \in Blocks /\ p.kind \in {"plain", "aligned"}
  /\ pc \in [Threads -> {"idle", "search", "mark", "grow", "fill", "return", "free"}]

(* Two pointers never share memory: a block is on the free list once, in   *)
(* the client's hands, or in one call, and never in two of these places.   *)
(* What a client has is as large as it asked malloc, posix_memalign or     *)
(* realloc for, also after the block has served smaller requests before.   *)
NoSharing ==
  /\ IsInjective(free)
  /\ \A p, q \in held : p.blk = q.blk => p = q
  /\ \A p \in held : p.blk \notin Range(free)
  /\ \A t \in Threads : InCall(t) \cap (Range(free) \cup {p.blk : p \in held}) = {}
  /\ \A t, u \in Threads : t # u => InCall(t) \cap InCall(u) = {}
  /\ \A p \in held : Offset(p) + p.len <= cap[p.blk]

(* free "returns memory to the allocator": no block drops out of sight. *)
NothingLost ==
  Blocks = Range(free) \cup {p.blk : p \in held} \cup UNION {InCall(t) : t \in Threads}

(* calloc's memory is zero, also on a block that was used before. *)
CallocZero == \A t \in Threads : pc[t] = "return" /\ req[t].op = "calloc" =>
  \A i \in 1 .. req[t].n : mem[req[t].blk][i] = "z"

(* A resized array keeps the contents both sizes have in common ... *)
ReallocKeeps == \A t \in Threads :
  pc[t] = "return" /\ req[t].op \in {"realloc", "reallocf", "recalloc"} =>
    \A i \in 1 .. Least(req[t].n, req[t].old.len) : mem[req[t].blk][i] = "v"

(* ... and recallocarray "zeroes any newly allocated region". *)
RecallocZeroes == \A t \in Threads : pc[t] = "return" /\ req[t].op = "recalloc" =>
  \A i \in req[t].old.len + 1 .. req[t].n : mem[req[t].blk][i] = "z"

(* The three together: what calloc, realloc and recallocarray return has   *)
(* the contents they promise.                                              *)
ContentsExact == CallocZero /\ ReallocKeeps /\ RecallocZeroes
=============================================================================
