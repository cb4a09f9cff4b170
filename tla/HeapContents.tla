----------------------------- MODULE HeapContents -----------------------------
(***************************************************************************)
(* What is in the memory that calloc, realloc and recallocarray return,    *)
(* for any number of threads, blocks and calls.  The invariant: a          *)
(* pointer's cells hold what its owner wrote, with the client and while a  *)
(* call that was given the pointer has not freed it; and a call that has   *)
(* filled its new block has in it what it promises.  Threads do not write  *)
(* to each other's blocks because HeapProofs shows no block to be shared.  *)
(***************************************************************************)
EXTENDS HeapProofs

(* A pointer's cells hold what its owner wrote ... *)
Kept(p) == \A i \in 1 .. p.len : mem[p.blk][Offset(p) + i] = "v"

Filled(t) ==
  /\ req[t].op = "calloc" => \A i \in 1 .. req[t].n : mem[req[t].blk][i] = "z"
  /\ Resizing(t) => \A i \in 1 .. Least(req[t].n, req[t].old.len) : mem[req[t].blk][i] = "v"
  /\ req[t].op = "recalloc" => \A i \in req[t].old.len + 1 .. req[t].n : mem[req[t].blk][i] = "z"

HasFilled(t) == pc[t] = "return" \/ (pc[t] = "free" /\ req[t].blk # 0)

Cells == UNION {[1 .. n -> {"z", "v", "j"}] : n \in Nat}

MemOK == mem \in Seq(Cells) /\ Len(mem) = Len(cap) /\ \A x \in Blocks : DOMAIN mem[x] = 1 .. cap[x]

(* The part of the invariant that is about one call. *)
CallFilled(t) ==
  /\ pc[t] # "idle" /\ Resizing(t) => req[t].old # Null /\ req[t].old.kind = "plain"
  /\ HasOld(t) => Kept(req[t].old)
  /\ HasFilled(t) => Filled(t)

ContentsInv ==
  /\ HeapInv /\ MemOK
  /\ \A p \in held : Kept(p)
  /\ \A t \in Threads : CallFilled(t)

(* A call sees no other thread write to its blocks. *)
LEMMA FilledBystander ==
  ASSUME HeapInv, NEW u \in Threads, CallFilled(u), pc'[u] = pc[u], req'[u] = req[u],
         \A x \in InCall(u) : mem'[x] = mem[x]
  PROVE  CallFilled(u)'
<1>1. HasOld(u) => req[u].old.blk \in InCall(u)
  BY DEF HeapInv, CallOK, Whole, HasOld, InCall
<1>2. HasFilled(u) => req[u].blk \in InCall(u)
  BY DEF HeapInv, CallOK, HasFilled, HasNew, InCall
<1>3. (HasOld(u)' <=> HasOld(u)) /\ (HasFilled(u)' <=> HasFilled(u)) /\ (Resizing(u)' <=> Resizing(u))
  BY DEF HasOld, HasFilled, Resizing
<1>4. HasOld(u) => Kept(req[u].old)'
  BY <1>1 DEF CallFilled, Kept, Offset
<1>5. HasFilled(u) => Filled(u)'
  <2> SUFFICES ASSUME HasFilled(u) PROVE Filled(u)'
    OBVIOUS
  <2>1. mem'[req'[u].blk] = mem[req[u].blk]
    BY <1>2
  <2> QED BY <2>1, <1>3 DEF CallFilled, Filled
<1> QED BY <1>3, <1>4, <1>5 DEF CallFilled

(* What has to be shown of a step of t that writes at most to block x. *)
LEMMA StepOf ==
  ASSUME ContentsInv, HeapInv', MemOK', NEW t \in Threads, NEW x, NEW l, Goto(t, l),
         \A u \in Threads \ {t} : req'[u] = req[u],
         \A y \in Blocks \ {x} : mem'[y] = mem[y],
         x \in Blocks => x \in InCall(t),
         \A p \in held' \ held : Kept(p)', CallFilled(t)'
  PROVE  ContentsInv'
<1>1. HeapInv /\ \A u \in Threads : CallFilled(u)
  BY DEF ContentsInv, CallFilled
<1>2. \A u \in Threads \ {t} : pc'[u] = pc[u]
  BY <1>1 DEF HeapInv, Typed, Goto
<1>3. \A u \in Threads \ {t} : \A y \in InCall(u) : mem'[y] = mem[y]
  BY <1>1 DEF HeapInv, Apart, InCall
<1>4. \A u \in Threads : CallFilled(u)'
  BY <1>1, <1>2, <1>3, FilledBystander
<1>5. ASSUME NEW p \in held PROVE Kept(p)'
  <2>1. p.blk \in Blocks /\ p.blk # x
    BY <1>1 DEF HeapInv, Apart, Whole
  <2> QED BY <2>1 DEF ContentsInv, Kept, Offset
<1> QED BY <1>4, <1>5 DEF ContentsInv, CallFilled

(* A call begins with a pointer the client had. *)
LEMMA BeginFills ==
  ASSUME ContentsInv, HeapInv', NEW t \in Threads, NEW o \in Ops, NEW n, NEW want, NEW p \in held \cup {Null},
         NEW l \in {"search", "free"}, Begin(t, o, n, want, p, l),
         o \in {"realloc", "reallocf", "recalloc"} => p # Null /\ p.kind = "plain"
  PROVE  ContentsInv'
<1>1. /\ mem' = mem /\ cap' = cap /\ held' = held \ {p} /\ Goto(t, l)
      /\ req' = [req EXCEPT ![t] = [op |-> o, n |-> n, want |-> want, old |-> p, blk |-> 0]]
  BY DEF Begin
<1>2. pc'[t] = l /\ req'[t] = [op |-> o, n |-> n, want |-> want, old |-> p, blk |-> 0]
  BY <1>1 DEF ContentsInv, HeapInv, Typed, Goto
<1>3. MemOK'
  BY <1>1 DEF ContentsInv, MemOK, Blocks
<1>4. p # Null => Kept(p)'
  BY <1>1 DEF ContentsInv, Kept, Offset
<1>5. CallFilled(t)'
  BY <1>2, <1>4 DEF CallFilled, HasOld, HasFilled, Resizing
<1>6. \A u \in Threads \ {t} : req'[u] = req[u]
  BY <1>1 DEF ContentsInv, HeapInv, Typed
<1>7. 0 \notin Blocks /\ \A y \in Blocks : mem'[y] = mem[y]
  BY <1>1 DEF Blocks
<1> QED BY <1>1, <1>3, <1>5, <1>6, <1>7, StepOf

(* Until the block is filled only the request's block changes. *)
LEMMA InsideFills ==
  ASSUME ContentsInv, HeapInv', NEW t \in Threads, NEW l \in {"mark", "grow", "fill"}, Goto(t, l),
         pc[t] \in {"search", "mark", "grow"}, held' = held,
         \A u \in Threads \ {t} : req'[u] = req[u],
         req'[t].old = req[t].old, req'[t].op = req[t].op,
         \A y \in Blocks : mem'[y] = mem[y], MemOK'
  PROVE  ContentsInv'
<1>1. pc'[t] = l
  BY DEF ContentsInv, HeapInv, Typed, Goto
<1>2. ~HasFilled(t)' /\ (HasOld(t)' => HasOld(t)) /\ (Resizing(t)' <=> Resizing(t)) /\ pc[t] # "idle"
  BY <1>1 DEF HasFilled, HasOld, Resizing
<1>3. HasOld(t) => req[t].old.blk \in Blocks
  BY DEF ContentsInv, HeapInv, CallOK, Whole
<1>4. HasOld(t) => Kept(req[t].old)'
  BY <1>3 DEF ContentsInv, CallFilled, Kept, Offset
<1>5. CallFilled(t)'
  BY <1>2, <1>4 DEF ContentsInv, CallFilled
<1>6. 0 \notin Blocks
  BY DEF Blocks
<1> QED BY <1>5, <1>6, StepOf

(* A new block of sbrk disturbs no contents. *)
LEMMA GrowFills == ASSUME ContentsInv, HeapInv', NEW t \in Threads, Grow(t) PROVE ContentsInv'
<1> DEFINE w == req[t].want
           fresh == [i \in 1 .. w |-> "z"]
<1>1. /\ pc[t] = "grow" /\ cap' = Append(cap, w) /\ mem' = Append(mem, fresh) /\ held' = held
      /\ req' = [req EXCEPT ![t].blk = Len(cap) + 1] /\ Goto(t, "fill")
  BY DEF Grow
<1>2. req[t] \in Records /\ req'[t] = [req[t] EXCEPT !.blk = Len(cap) + 1]
  BY <1>1 DEF ContentsInv, HeapInv, Typed
<1>3. w \in Nat /\ req'[t].old = req[t].old /\ req'[t].op = req[t].op
  BY <1>2 DEF Records
<1>4. fresh \in Cells /\ DOMAIN fresh = 1 .. w
  <2>1. fresh \in [1 .. w -> {"z", "v", "j"}]
    OBVIOUS
  <2> QED BY <2>1, <1>3 DEF Cells
<1>5. mem \in Seq(Cells) /\ Len(mem) = Len(cap) /\ cap \in Seq(Nat) /\ Len(cap) \in Nat
  BY DEF ContentsInv, HeapInv, Typed, MemOK
<1> HIDE DEF w, fresh
<1>6. /\ mem' \in Seq(Cells) /\ Len(mem') = Len(mem) + 1 /\ Len(cap') = Len(cap) + 1
      /\ mem'[Len(cap) + 1] = fresh /\ cap'[Len(cap) + 1] = w
      /\ \A y \in Blocks : mem'[y] = mem[y] /\ cap'[y] = cap[y]
  <2>1. mem' \in Seq(Cells) /\ Len(mem') = Len(mem) + 1 /\ mem'[Len(mem) + 1] = fresh
    BY <1>1, <1>4, <1>5
  <2>2. cap' \in Seq(Nat) /\ Len(cap') = Len(cap) + 1 /\ cap'[Len(cap) + 1] = w
    BY <1>1, <1>3, <1>5
  <2>3. \A y \in Blocks : mem'[y] = mem[y]
    BY <1>1, <1>4, <1>5 DEF Blocks
  <2>4. \A y \in Blocks : cap'[y] = cap[y]
    BY <1>1, <1>3, <1>5 DEF Blocks
  <2> QED BY <2>1, <2>2, <2>3, <2>4, <1>5
<1>7. MemOK'
  <2>1. Blocks' = Blocks \cup {Len(cap) + 1}
    BY <1>5, <1>6 DEF Blocks
  <2>2. \A y \in Blocks' : DOMAIN mem'[y] = 1 .. cap'[y]
    BY <2>1, <1>4, <1>6 DEF ContentsInv, MemOK
  <2> QED BY <2>2, <1>5, <1>6 DEF MemOK
<1>8. \A u \in Threads \ {t} : req'[u] = req[u]
  BY <1>1 DEF ContentsInv, HeapInv, Typed
<1> QED BY <1>1, <1>3, <1>6, <1>7, <1>8, InsideFills, Zenon


(* A write to a block leaves a block. *)
LEMMA Written ==
  ASSUME MemOK, cap' = cap, NEW x \in Blocks, NEW f \in [DOMAIN mem[x] -> {"z", "v", "j"}],
         mem' = [mem EXCEPT ![x] = f], cap \in Seq(Nat)
  PROVE  MemOK' /\ mem'[x] = f /\ \A y \in Blocks \ {x} : mem'[y] = mem[y]
<1>1. mem \in Seq(Cells) /\ Len(mem) = Len(cap) /\ Len(cap) \in Nat /\ DOMAIN mem = Blocks /\ cap[x] \in Nat
  BY DEF MemOK, Blocks
<1>2. f \in Cells
  BY <1>1 DEF Cells, MemOK
<1>3. mem' \in Seq(Cells) /\ Len(mem') = Len(mem)
  BY <1>1, <1>2 DEF Blocks
<1>4. mem'[x] = f /\ \A y \in Blocks \ {x} : mem'[y] = mem[y]
  BY <1>1
<1>5. Blocks' = Blocks
  BY DEF Blocks
<1>6. \A y \in Blocks : DOMAIN mem'[y] = 1 .. cap[y]
  BY <1>4 DEF MemOK
<1> QED BY <1>1, <1>3, <1>4, <1>5, <1>6 DEF MemOK

(* The cells of block y are cells. *)
LEMMA CellType == ASSUME MemOK, cap \in Seq(Nat), NEW y \in Blocks, NEW i \in 1 .. cap[y] PROVE mem[y][i] \in {"z", "v", "j"}
<1>1. mem[y] \in Cells /\ DOMAIN mem[y] = 1 .. cap[y]
  BY DEF MemOK, Blocks
<1>2. PICK n \in Nat : mem[y] \in [1 .. n -> {"z", "v", "j"}]
  BY <1>1 DEF Cells
<1> QED BY <1>1, <1>2, Zenon

(* The new block gets the contents that the call promises. *)
LEMMA FillFills == ASSUME ContentsInv, HeapInv', NEW t \in Threads, Fill(t) PROVE ContentsInv'
<1> DEFINE x == req[t].blk
           p == req[t].old
           n == req[t].n
           l == IF p = Null THEN "return" ELSE "free"
           f == [i \in DOMAIN mem[x] |-> CASE i \in Zeroed(t) -> "z"
                                           [] i \in Copied(t) -> OldCell(p, i)
                                           [] OTHER -> mem[x][i]]
<1>1. /\ pc[t] = "fill" /\ cap' = cap /\ held' = held /\ req' = req /\ Goto(t, l)
      /\ mem' = [mem EXCEPT ![x] = f]
  BY DEF Fill
<1>2. /\ x \in Blocks /\ size[x] = req[t].want /\ size[x] <= cap[x] /\ n \in Nat
      /\ req[t].want >= n /\ cap[x] \in Nat /\ x \in InCall(t) /\ n <= cap[x]
  <2>1. x \in Blocks /\ size[x] = req[t].want /\ size[x] <= cap[x] /\ x \in InCall(t)
    BY <1>1 DEF ContentsInv, HeapInv, Typed, CallOK, HasNew, InCall
  <2>2. n \in Sizes /\ req[t].want = n + (IF req[t].op = "memalign" THEN Extra ELSE 0)
    BY <1>1 DEF ContentsInv, HeapInv, CallOK, HasNew
  <2>3. cap[x] \in Nat
    BY <2>1 DEF ContentsInv, HeapInv, Typed, Blocks
  <2> HIDE DEF x, n
  <2> QED BY <2>1, <2>2, <2>3, SizesAssumption
<1>3. ASSUME Resizing(t)
      PROVE  /\ p # Null /\ p.kind = "plain" /\ Kept(p) /\ p.blk \in Blocks /\ p.len \in Nat
             /\ HeaderSize(p) = p.len /\ Offset(p) = 0 /\ p.len <= cap[p.blk] /\ cap[p.blk] \in Nat
  <2>1. p # Null /\ p.kind = "plain" /\ HasOld(t)
    BY <1>1, <1>3 DEF ContentsInv, CallFilled, HasOld
  <2>2. Kept(p) /\ Whole(p)
    BY <2>1 DEF ContentsInv, CallFilled, HeapInv, CallOK
  <2>3. p.blk \in Blocks /\ cap[p.blk] \in Nat /\ size[p.blk] <= cap[p.blk]
    <3> HIDE DEF p
    <3>1. p.blk \in Blocks
      BY <2>2 DEF Whole
    <3>2. cap \in Seq(Nat) /\ \A y \in Blocks : size[y] <= cap[y]
      BY DEF ContentsInv, HeapInv, Typed
    <3> QED BY <3>1, <3>2 DEF Blocks
  <2>4. p.len \in Nat /\ Offset(p) = 0 /\ size[p.blk] = p.len + Offset(p) /\ HeaderSize(p) = size[p.blk]
    BY <2>1, <2>2, SizesAssumption, Zenon DEF Whole, Offset, HeaderSize
  <2> QED BY <2>1, <2>2, <2>3, <2>4
<1>4. DOMAIN mem[x] = 1 .. cap[x] /\ MemOK /\ cap \in Seq(Nat)
  BY <1>2 DEF ContentsInv, MemOK, HeapInv, Typed
<1>5. \A i \in Copied(t) : i \in Nat \ {0} /\ Resizing(t) /\ i <= p.len /\ OldCell(p, i) = "v"
  <2> SUFFICES ASSUME NEW i \in Copied(t) PROVE i \in Nat \ {0} /\ Resizing(t) /\ i <= p.len /\ OldCell(p, i) = "v"
    OBVIOUS
  <2>1. Resizing(t) /\ i \in 1 .. Least(HeaderSize(p), n)
    BY DEF Copied
  <2>2. i \in 1 .. p.len /\ Offset(p) + i <= cap[p.blk]
    BY <2>1, <1>2, <1>3 DEF Least
  <2> QED BY <2>1, <2>2, <1>3 DEF OldCell, Kept
<1>6. f \in [DOMAIN mem[x] -> {"z", "v", "j"}]
  <2> SUFFICES ASSUME NEW i \in DOMAIN mem[x] PROVE f[i] \in {"z", "v", "j"}
    BY Zenon
  <2>1. mem[x][i] \in {"z", "v", "j"}
    BY <1>2, <1>4, CellType
  <2> QED BY <2>1, <1>5
<1>7. MemOK' /\ mem'[x] = f /\ \A y \in Blocks \ {x} : mem'[y] = mem[y]
  <2> HIDE DEF f, x
  <2> QED BY <1>1, <1>2, <1>4, <1>6, Written, Zenon
<1>8. Filled(t)'
  <2>1. req[t].op = "calloc" => \A i \in 1 .. n : f[i] = "z"
    <3> SUFFICES ASSUME req[t].op = "calloc", NEW i \in 1 .. n PROVE f[i] = "z"
      OBVIOUS
    <3>1. i \in DOMAIN mem[x] /\ i \in Zeroed(t) /\ i \notin Copied(t)
      BY <1>2, <1>4 DEF Zeroed, Copied, Resizing
    <3> QED BY <3>1
  <2>2. Resizing(t) => \A i \in 1 .. Least(n, p.len) : f[i] = "v"
    <3> SUFFICES ASSUME Resizing(t), NEW i \in 1 .. Least(n, p.len) PROVE f[i] = "v"
      OBVIOUS
    <3>1. i \in 1 .. n /\ i \in 1 .. p.len /\ i \in DOMAIN mem[x] /\ i \in Copied(t)
      BY <1>2, <1>3, <1>4, SMTT(30) DEF Least, Copied
    <3>2. i \notin Zeroed(t)
      BY <3>1, <1>2, <1>3 DEF Zeroed, Resizing
    <3> QED BY <3>1, <3>2, <1>5
  <2>3. req[t].op = "recalloc" => \A i \in p.len + 1 .. n : f[i] = "z"
    <3> SUFFICES ASSUME req[t].op = "recalloc", NEW i \in p.len + 1 .. n PROVE f[i] = "z"
      OBVIOUS
    <3>1. Resizing(t)
      BY DEF Resizing
    <3>2. i \in DOMAIN mem[x] /\ i \in Zeroed(t) /\ i \notin Copied(t)
      BY <3>1, <1>2, <1>3, <1>4, <1>5, SMTT(30) DEF Zeroed
    <3> QED BY <3>2
  <2> HIDE DEF f
  <2>4. mem'[req'[t].blk] = f /\ req'[t] = req[t] /\ (Resizing(t)' <=> Resizing(t))
    BY <1>1, <1>7 DEF Resizing
  <2> QED BY <2>1, <2>2, <2>3, <2>4 DEF Filled
<1>9. CallFilled(t)'
  <2>1. pc'[t] = l /\ (Resizing(t)' <=> Resizing(t))
    BY <1>1 DEF ContentsInv, HeapInv, Typed, Goto, Resizing
  <2>2. HasOld(t)' => HasOld(t)
    BY <2>1, <1>1 DEF HasOld
  <2>3. HasOld(t) => Kept(p) /\ p.blk \in Blocks /\ p.blk # x
    BY DEF ContentsInv, CallFilled, HeapInv, CallOK, Whole
  <2>4. HasOld(t) => Kept(p)'
    BY <2>3, <1>1, <1>7 DEF Kept, Offset
  <2> QED BY <2>1, <2>2, <2>4, <1>1, <1>3, <1>8 DEF CallFilled
<1> HIDE DEF x, l, f
<1> QED BY <1>1, <1>2, <1>7, <1>9, StepOf

(* The client gets a block, and writes to it. *)
LEMMA ReturnFills == ASSUME ContentsInv, HeapInv', NEW t \in Threads, Return(t) PROVE ContentsInv'
<1> DEFINE x == req[t].blk
           n == req[t].n
           p == Result(t)
           o == Offset(p)
           f == [i \in DOMAIN mem[x] |-> IF i > o /\ i <= o + n THEN "v" ELSE mem[x][i]]
<1>1. /\ pc[t] = "return" /\ cap' = cap /\ held' = held \cup {p} /\ req' = req /\ Goto(t, "idle")
      /\ mem' = [mem EXCEPT ![x] = f]
  BY DEF Return
<1>2. /\ x \in Blocks /\ size[x] <= cap[x] /\ n \in Nat /\ o \in Nat /\ p.blk = x /\ p.len = n
      /\ size[x] = n + o /\ cap[x] \in Nat /\ x \in InCall(t)
  <2>1. x \in Blocks /\ size[x] = req[t].want /\ size[x] <= cap[x] /\ x \in InCall(t)
    BY <1>1, SMTT(30) DEF ContentsInv, HeapInv, Typed, CallOK, HasNew, InCall
  <2>2. n \in Sizes /\ req[t].want = n + (IF req[t].op = "memalign" THEN Extra ELSE 0)
    BY <1>1 DEF ContentsInv, HeapInv, CallOK, HasNew
  <2>3. cap[x] \in Nat
    BY <2>1 DEF ContentsInv, HeapInv, Typed, Blocks
  <2> QED BY <2>1, <2>2, <2>3, SizesAssumption, Zenon DEF Result, Offset
<1>3. DOMAIN mem[x] = 1 .. cap[x] /\ MemOK /\ cap \in Seq(Nat)
  BY <1>2 DEF ContentsInv, MemOK, HeapInv, Typed
<1>4. f \in [DOMAIN mem[x] -> {"z", "v", "j"}]
  <2> SUFFICES ASSUME NEW i \in DOMAIN mem[x] PROVE f[i] \in {"z", "v", "j"}
    BY Zenon
  <2> QED BY <1>2, <1>3, CellType
<1>5. \A i \in 1 .. n : f[o + i] = "v"
  <2> HIDE DEF x, n, p, o
  <2>1. \A i \in 1 .. n : o + i \in DOMAIN mem[x] /\ o + i > o /\ o + i <= o + n
    BY <1>2, <1>3
  <2> QED BY <2>1
<1>6. MemOK' /\ mem'[x] = f /\ \A y \in Blocks \ {x} : mem'[y] = mem[y]
  <2> HIDE DEF f, x
  <2> QED BY <1>1, <1>2, <1>3, <1>4, Written, Zenon
<1>7. Kept(p)'
  <2>1. o' = o /\ p' = p
    BY <1>1 DEF Offset, Result
  <2> HIDE DEF f, p
  <2> QED BY <1>2, <1>5, <1>6, <2>1 DEF Kept
<1>8. CallFilled(t)'
  <2>1. pc'[t] = "idle"
    BY <1>1 DEF ContentsInv, HeapInv, Typed, Goto
  <2> QED BY <2>1 DEF CallFilled, HasOld, HasFilled
<1>9. \A q \in held' \ held : Kept(q)'
  <2> SUFFICES ASSUME NEW q \in held' \ held PROVE Kept(q)'
    OBVIOUS
  <2>1. q = p /\ p' = p
    BY <1>1 DEF Result
  <2> HIDE DEF p
  <2> QED BY <2>1, <1>7 DEF Kept, Offset
<1> HIDE DEF x, f, p
<1> QED BY <1>1, <1>2, <1>6, <1>8, <1>9, StepOf

(* A call that fails leaves the old block as it was. *)
LEMMA MallocFailsFills == ASSUME ContentsInv, HeapInv', NEW t \in Threads, MallocFails(t) PROVE ContentsInv'
<1> DEFINE p == req[t].old
<1>1. pc[t] \in {"search", "grow"} /\ cap' = cap /\ mem' = mem /\ req' = req /\ req[t].blk = 0
  BY DEF ContentsInv, HeapInv, CallOK, MallocFails
<1>2. HasOld(t) => Kept(p)'
  BY <1>1 DEF ContentsInv, CallFilled, Kept, Offset
<1>3. p # Null => HasOld(t)
  BY <1>1 DEF HasOld
<1>4. MemOK' /\ 0 \notin Blocks /\ \A y \in Blocks : mem'[y] = mem[y]
  <2>1. 0 \notin Blocks /\ Blocks' = Blocks
    BY <1>1 DEF Blocks
  <2>2. MemOK
    BY DEF ContentsInv
  <2> QED BY <1>1, <2>1, <2>2 DEF MemOK
<1>5. CASE req[t].op = "reallocf"
  <2>1. held' = held /\ Goto(t, "free")
    BY <1>5 DEF MallocFails
  <2>2. pc'[t] = "free" /\ p # Null /\ p.kind = "plain"
    BY <2>1, <1>1, <1>5 DEF ContentsInv, CallFilled, HeapInv, Typed, Goto, Resizing
  <2>3. CallFilled(t)'
    BY <2>2, <1>1, <1>2, <1>3 DEF CallFilled, HasFilled
  <2> QED BY <2>1, <2>3, <1>1, <1>4, StepOf
<1>6. CASE req[t].op # "reallocf"
  <2>1. held' = held \cup ({p} \ {Null}) /\ Goto(t, "idle")
    BY <1>6 DEF MallocFails
  <2>2. pc'[t] = "idle"
    BY <2>1 DEF ContentsInv, HeapInv, Typed, Goto
  <2>3. CallFilled(t)'
    BY <2>2 DEF CallFilled, HasFilled, HasOld
  <2>4. \A q \in held' \ held : Kept(q)'
    <3> SUFFICES ASSUME NEW q \in held' \ held PROVE Kept(q)'
      OBVIOUS
    <3>1. q = p /\ q # Null
      BY <2>1
    <3> QED BY <3>1, <1>1, <1>3 DEF ContentsInv, CallFilled, Kept, Offset
  <2> QED BY <2>1, <2>3, <2>4, <1>1, <1>4, StepOf
<1> QED BY <1>5, <1>6

(* free disturbs the contents of no other block. *)
LEMMA PushFills == ASSUME ContentsInv, HeapInv', NEW t \in Threads, Push(t) PROVE ContentsInv'
<1> DEFINE l == IF req[t].blk = 0 THEN "idle" ELSE "return"
<1>1. pc[t] = "free" /\ cap' = cap /\ mem' = mem /\ req' = req /\ held' = held /\ Goto(t, l)
  BY DEF Push
<1>2. pc'[t] = l
  BY <1>1 DEF ContentsInv, HeapInv, Typed, Goto
<1>3. ~HasOld(t)' /\ (HasFilled(t)' => HasFilled(t)) /\ (Resizing(t)' <=> Resizing(t))
  BY <1>1, <1>2 DEF HasOld, HasFilled, Resizing
<1>4. Filled(t) => Filled(t)'
  BY <1>1 DEF Filled, Resizing
<1>5. CallFilled(t)'
  BY <1>1, <1>3, <1>4 DEF ContentsInv, CallFilled
<1>6. MemOK' /\ 0 \notin Blocks /\ \A y \in Blocks : mem'[y] = mem[y]
  <2>1. 0 \notin Blocks /\ Blocks' = Blocks
    BY <1>1 DEF Blocks
  <2>2. MemOK
    BY DEF ContentsInv
  <2> QED BY <1>1, <2>1, <2>2 DEF MemOK
<1> HIDE DEF l
<1> QED BY <1>1, <1>5, <1>6, StepOf

(* Clients that resize what posix_memalign gave them are excluded: realloc *)
(* takes the magic number for the size of such a block.                    *)
LEMMA StepFills == ASSUME Resizable \subseteq {"plain"}, ContentsInv, [Next]_vars PROVE ContentsInv'
<1>1. HeapInv'
  BY StepKeeps DEF ContentsInv
<1>2. \A p \in held : p # Null
  BY SizesAssumption DEF ContentsInv, HeapInv, Whole, Null
<1>3. ASSUME NEW t \in Threads, Malloc(t) \/ Memalign(t) \/ Realloc(t) \/ Free(t) PROVE ContentsInv'
  <2>1. CASE Malloc(t)
    <3>1. PICK n \in Sizes, o \in {"malloc", "calloc"} : Begin(t, o, n, n, Null, "search")
      BY <2>1 DEF Malloc
    <3> QED BY <1>1, <3>1, BeginFills DEF Ops
  <2>2. CASE Memalign(t)
    <3>1. PICK n \in Sizes : Begin(t, "memalign", n, n + Extra, Null, "search")
      BY <2>2 DEF Memalign
    <3> QED BY <1>1, <3>1, BeginFills DEF Ops
  <2>3. CASE Realloc(t)
    <3>1. PICK n \in Sizes, p \in held, o \in {"realloc", "recalloc", "reallocf"} :
            p.kind \in Resizable /\ Begin(t, o, n, n, p, "search")
      BY <2>3 DEF Realloc
    <3> QED BY <1>1, <1>2, <3>1, BeginFills, Zenon DEF Ops
  <2>4. CASE Free(t)
    <3>1. PICK p \in held : Begin(t, "free", 0, 0, p, "free")
      BY <2>4 DEF Free
    <3> QED BY <1>1, <3>1, BeginFills DEF Ops
  <2> QED BY <1>3, <2>1, <2>2, <2>3, <2>4
<1>4. ASSUME NEW t \in Threads, Search(t) \/ Mark(t) PROVE ContentsInv'
  <2>1. cap' = cap /\ mem' = mem /\ held' = held /\ pc[t] \in {"search", "mark", "grow"}
    BY <1>4 DEF Search, Mark
  <2>2. MemOK' /\ \A y \in Blocks : mem'[y] = mem[y]
    BY <2>1 DEF ContentsInv, MemOK, Blocks
  <2>3. CASE Mark(t)
    <3>1. Goto(t, "fill") /\ req' = req
      BY <2>3 DEF Mark
    <3> QED BY <1>1, <2>1, <2>2, <3>1, InsideFills
  <2>4. CASE Search(t)
    <3>1. \E l \in {"mark", "grow"} : Goto(t, l)
      BY <2>4 DEF Search
    <3>2. req' = req \/ \E x : req' = [req EXCEPT ![t].blk = x]
      BY <2>4 DEF Search
    <3>3. /\ req'[t].old = req[t].old /\ req'[t].op = req[t].op
          /\ \A u \in Threads \ {t} : req'[u] = req[u]
      BY <3>2 DEF ContentsInv, HeapInv, Typed, Records
    <3> QED BY <1>1, <2>1, <2>2, <3>1, <3>3, InsideFills
  <2> QED BY <1>4, <2>3, <2>4
<1>5. CASE UNCHANGED vars
  <2>1. UNCHANGED <<cap, mem, held, pc, req>> /\ Blocks' = Blocks
    BY <1>5 DEF vars, Blocks
  <2>2. MemOK' /\ \A p \in held : Kept(p)'
    BY <2>1 DEF ContentsInv, MemOK, Kept, Offset
  <2>3. \A t \in Threads : CallFilled(t)'
    BY <2>1, FilledBystander DEF ContentsInv, CallFilled
  <2> QED BY <1>1, <2>1, <2>2, <2>3 DEF ContentsInv, CallFilled
<1> QED
  BY <1>1, <1>3, <1>4, <1>5, GrowFills, MallocFailsFills, FillFills, ReturnFills, PushFills DEF Next

(* What calloc, realloc, reallocf and recallocarray return holds what they *)
(* promise, for any threads, sizes and calls, as long as only pointers of  *)
(* malloc and its like are resized: calloc's cells are zero on a used      *)
(* block too, the old contents survive, and recallocarray's new cells are  *)
(* zero.                                                                   *)
THEOREM ContentsRight == ASSUME Resizable \subseteq {"plain"} PROVE Spec => []ContentsExact
<1>1. Init => ContentsInv
  <2> SUFFICES ASSUME Init PROVE ContentsInv
    OBVIOUS
  <2>1. HeapInv /\ MemOK /\ held = {} /\ \A t \in Threads : pc[t] = "idle"
    BY InitHolds DEF Init, MemOK, Blocks
  <2> QED BY <2>1 DEF ContentsInv, CallFilled, HasOld, HasFilled
<1>2. ContentsInv /\ [Next]_vars => ContentsInv'
  BY StepFills
<1>3. ContentsInv => ContentsExact
  BY DEF ContentsInv, CallFilled, ContentsExact, CallocZero, ReallocKeeps, RecallocZeroes, HasFilled, Filled, Resizing
<1> QED
  BY <1>1, <1>2, <1>3, PTL DEF Spec

=============================================================================
