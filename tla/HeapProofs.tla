------------------------------ MODULE HeapProofs ------------------------------
(***************************************************************************)
(* No block of the heap is shared or lost, for any number of threads,      *)
(* blocks and calls, and all sizes but the one that reads as the magic     *)
(* number.                                                                 *)
(***************************************************************************)
EXTENDS Heap, SequenceTheorems, TLAPS

Places == 1 .. Len(free)
Kinds == {"plain", "aligned"}
Ops == {"malloc", "calloc", "memalign", "realloc", "recalloc", "reallocf", "free"}
Records == [op : Ops, n : Nat, want : Nat, old : [blk : Nat, len : Nat, kind : Kinds], blk : Nat]

Typed ==
  /\ cap \in Seq(Nat) /\ size \in Seq(Nat) /\ Len(size) = Len(cap)
  /\ \A b \in Blocks : size[b] <= cap[b]
  /\ free \in Seq(Blocks)
  /\ held \subseteq [blk : Blocks, len : Sizes, kind : Kinds]
  /\ pc \in [Threads -> {"idle", "search", "mark", "grow", "fill", "return", "free"}]
  /\ req \in [Threads -> Records]

(* A pointer to all of a block: the header has the size that was asked for. *)
Whole(p) == p.blk \in Blocks /\ p.len \in Sizes /\ p.kind \in Kinds /\ size[p.blk] = p.len + Offset(p)

(* The call has a block of the right size, and the size asked for. *)
HasNew(t) == pc[t] \in {"fill", "return"} \/ (pc[t] = "free" /\ req[t].blk # 0)
HasOld(t) == pc[t] \notin {"idle", "return"} /\ req[t].old # Null

CallOK(t) ==
  /\ pc[t] \in {"search", "grow"} => req[t].blk = 0
  /\ pc[t] = "mark" => req[t].blk \in Blocks /\ req[t].want <= size[req[t].blk]
  /\ HasNew(t) => req[t].blk \in Blocks /\ size[req[t].blk] = req[t].want
  /\ HasNew(t) \/ pc[t] \in {"search", "grow", "mark"} =>
       req[t].n \in Sizes /\ req[t].want = req[t].n + (IF req[t].op = "memalign" THEN Extra ELSE 0)
  /\ pc[t] = "free" \/ (pc[t] # "idle" /\ req[t].op = "reallocf") => req[t].old # Null
  /\ HasOld(t) => Whole(req[t].old) /\ req[t].old.blk # req[t].blk

(* NoSharing and NothingLost, block by block. *)
Apart ==
  /\ \A i, j \in Places : free[i] = free[j] => i = j
  /\ \A p, q \in held : p.blk = q.blk => p = q
  /\ \A p \in held, i \in Places : free[i] # p.blk
  /\ \A t \in Threads, i \in Places : free[i] \notin InCall(t)
  /\ \A t \in Threads, p \in held : p.blk \notin InCall(t)
  /\ \A t, u \in Threads, b \in Blocks : b \in InCall(t) /\ b \in InCall(u) => t = u

Found == \A b \in Blocks : \/ \E i \in Places : free[i] = b
                           \/ \E p \in held : p.blk = b
                           \/ \E t \in Threads : b \in InCall(t)

HeapInv == Typed /\ (\A t \in Threads : CallOK(t)) /\ (\A p \in held : Whole(p)) /\ Apart /\ Found

(* Nothing is allocated yet. *)
LEMMA InitHolds == ASSUME Init PROVE HeapInv
<1>1. Blocks = {} /\ Places = {}
  BY DEF Init, Blocks, Places
<1>2. Typed
  <2>0. Null \in [blk : Nat, len : Nat, kind : Kinds]
    BY DEF Null, Kinds
  <2>1. [op |-> "malloc", n |-> 0, want |-> 0, old |-> Null, blk |-> 0] \in Records
    BY <2>0 DEF Records, Ops
  <2>2. req \in [Threads -> Records]
    BY <2>1 DEF Init
  <2> QED
    BY <1>1, <2>2 DEF Init, Typed
<1>3. \A t \in Threads : CallOK(t) /\ InCall(t) = {}
  BY <1>1 DEF Init, CallOK, HasNew, HasOld, InCall
<1> QED
  BY <1>1, <1>2, <1>3 DEF HeapInv, Apart, Found, Init

(* What HeapInv says implies the two properties. *)
LEMMA InvSuffices == ASSUME HeapInv PROVE NoSharing /\ NothingLost
<1>1. Range(free) = {free[i] : i \in Places}
  BY DEF HeapInv, Typed, Range, Places
<1>2. IsInjective(free)
  <2>1. DOMAIN free = Places /\ \A i, j \in Places : free[i] = free[j] => i = j
    BY DEF HeapInv, Typed, Apart, Places
  <2> QED
    BY <2>1, Zenon DEF IsInjective
<1>3. \A p \in held : Offset(p) + p.len <= cap[p.blk]
  BY SizesAssumption DEF HeapInv, Typed, Whole, Offset
<1>4. \A t \in Threads : InCall(t) \cap (Range(free) \cup {p.blk : p \in held}) = {}
  BY <1>1 DEF HeapInv, Apart
<1>5. \A t, u \in Threads : t # u => InCall(t) \cap InCall(u) = {}
  BY DEF HeapInv, Apart, InCall
<1>6. NoSharing
  BY <1>1, <1>2, <1>3, <1>4, <1>5 DEF HeapInv, Apart, NoSharing
<1>7. NothingLost
  <2>1. Range(free) \subseteq Blocks
    BY <1>1 DEF HeapInv, Typed, Places
  <2>2. {p.blk : p \in held} \subseteq Blocks
    BY DEF HeapInv, Whole
  <2>3. \A t \in Threads : InCall(t) \subseteq Blocks
    BY DEF InCall
  <2> QED
    BY <1>1, <2>1, <2>2, <2>3 DEF HeapInv, Found, NothingLost
<1> QED
  BY <1>6, <1>7

(* A thread that takes no step keeps its part of the invariant, as long as *)
(* the sizes of its blocks stay.                                           *)
LEMMA Bystander ==
  ASSUME HeapInv, NEW u \in Threads, pc'[u] = pc[u], req'[u] = req[u],
         cap' \in Seq(Nat), Len(cap) <= Len(cap'), \A b \in InCall(u) : size'[b] = size[b]
  PROVE  CallOK(u)' /\ InCall(u)' = InCall(u)
<1>1. Len(cap) \in Nat /\ Len(cap') \in Nat /\ Blocks \subseteq Blocks' /\ 0 \notin Blocks'
  BY DEF HeapInv, Typed, Blocks
<1>2. pc[u] \in {"mark", "fill", "return"} => req[u].blk \in InCall(u)
  BY DEF HeapInv, CallOK, HasNew, InCall
<1>3. pc[u] = "free" => req[u].blk = 0 \/ req[u].blk \in InCall(u)
  BY DEF HeapInv, CallOK, HasNew, InCall
<1>4. HasOld(u) => req[u].old.blk \in InCall(u)
  BY DEF HeapInv, CallOK, HasOld, Whole, InCall
<1>5. ~HasOld(u) /\ pc[u] \notin {"idle", "return"} => req[u].old.blk = 0
  BY DEF HasOld, Null
<1>6. CallOK(u)'
  BY <1>1, <1>2, <1>3, <1>4 DEF HeapInv, CallOK, HasNew, HasOld, Whole, Offset, InCall
<1>7. InCall(u)' = InCall(u)
  BY <1>1, <1>2, <1>3, <1>4, <1>5 DEF InCall
<1> QED
  BY <1>6, <1>7

(* A call begins, and takes the pointer that it was given. *)
LEMMA BeginKeeps ==
  ASSUME HeapInv, NEW t \in Threads, NEW o \in Ops, NEW n \in Nat, NEW want \in Nat, NEW p \in held \cup {Null},
         NEW l \in {"search", "free"}, Begin(t, o, n, want, p, l),
         l = "free" \/ o = "reallocf" => p # Null,
         l = "search" => n \in Sizes /\ want = n + (IF o = "memalign" THEN Extra ELSE 0)
  PROVE  HeapInv'
<1>1. Blocks' = Blocks /\ Places' = Places /\ 0 \notin Blocks
  BY DEF Begin, Blocks, Places
<1>2. /\ pc' = [pc EXCEPT ![t] = l] /\ held' = held \ {p} /\ pc[t] = "idle"
      /\ req' = [req EXCEPT ![t] = [op |-> o, n |-> n, want |-> want, old |-> p, blk |-> 0]]
      /\ size' = size /\ cap' = cap /\ free' = free
  BY DEF Begin, Goto
<1>3. p \in [blk : Nat, len : Nat, kind : Kinds]
  <2>1. Null \in [blk : Nat, len : Nat, kind : Kinds]
    BY DEF Null, Kinds
  <2>2. Blocks \subseteq Nat /\ Sizes \subseteq Nat /\ held \subseteq [blk : Blocks, len : Sizes, kind : Kinds]
    BY SizesAssumption DEF HeapInv, Typed, Blocks
  <2> QED
    BY <2>1, <2>2, Zenon
<1>4. Typed'
  BY <1>1, <1>2, <1>3 DEF HeapInv, Typed, Records
<1>5. /\ pc'[t] = l /\ req'[t] = [op |-> o, n |-> n, want |-> want, old |-> p, blk |-> 0]
      /\ \A u \in Threads : u # t => pc'[u] = pc[u] /\ req'[u] = req[u]
  BY <1>2 DEF HeapInv, Typed
<1>6. \A u \in Threads : u # t => CallOK(u)' /\ InCall(u)' = InCall(u)
  BY <1>2, <1>5, Bystander DEF HeapInv, Typed
<1>7. p # Null => Whole(p) /\ p \in held
  BY DEF HeapInv
<1>8. CallOK(t)'
  BY <1>1, <1>2, <1>5, <1>7 DEF CallOK, HasNew, HasOld, Whole, Offset, Blocks
<1>9. InCall(t) = {} /\ InCall(t)' = IF p = Null THEN {} ELSE {p.blk}
  BY <1>1, <1>2, <1>5, <1>7 DEF InCall, Whole, Null
<1>10. Apart'
  BY <1>1, <1>2, <1>6, <1>7, <1>9 DEF HeapInv, Apart
<1>11. Found'
  <2> SUFFICES ASSUME NEW b \in Blocks
               PROVE \/ \E i \in Places : free[i] = b
                     \/ \E q \in held' : q.blk = b
                     \/ \E u \in Threads : b \in InCall(u)'
    BY <1>1, <1>2 DEF Found
  <2>1. ASSUME NEW q \in held, q.blk = b PROVE q \in held' \/ b \in InCall(t)'
    <3>1. CASE q = p
      BY <2>1, <3>1, <1>9, <1>1 DEF HeapInv, Whole, Null
    <3>2. CASE q # p
      BY <2>1, <3>2, <1>2
    <3> QED
      BY <3>1, <3>2
  <2>2. CASE \E u \in Threads : b \in InCall(u)
    BY <2>2, <1>6, <1>9
  <2> QED
    BY <2>1, <2>2 DEF HeapInv, Found
<1>12. \A q \in held' : Whole(q)'
  BY <1>1, <1>2 DEF HeapInv, Whole, Offset
<1> QED
  BY <1>4, <1>6, <1>8, <1>10, <1>11, <1>12 DEF HeapInv

(* Steps that change neither the list nor what belongs to the client nor   *)
(* what the call is responsible for: only the size of the block in hand.   *)
LEMMA StepInside ==
  ASSUME HeapInv, NEW t \in Threads, NEW l \in {"grow", "fill", "return", "free"}, Goto(t, l),
         UNCHANGED <<cap, free, held, req>>, size' \in Seq(Nat), Len(size') = Len(size),
         \A b \in Blocks : size'[b] <= cap[b], \A b \in Blocks \ {req[t].blk} : size'[b] = size[b],
         pc[t] \in {"mark", "fill"} \/ size' = size, CallOK(t)', InCall(t)' = InCall(t)
  PROVE  HeapInv'
<1>1. Blocks' = Blocks /\ Places' = Places
  BY DEF Blocks, Places
<1>2. /\ pc' \in [Threads -> {"idle", "search", "mark", "grow", "fill", "return", "free"}]
      /\ \A u \in Threads : u # t => pc'[u] = pc[u]
  BY DEF HeapInv, Typed, Goto
<1>3. Typed'
  BY <1>1, <1>2, SMTT(60) DEF HeapInv, Typed
<1>4. req[t].blk \in InCall(t) \/ size' = size
  BY DEF HeapInv, CallOK, HasNew, InCall
<1>5. \A u \in Threads : \A b \in InCall(u) : u # t => size'[b] = size[b]
  BY <1>4 DEF HeapInv, Apart, InCall
<1>6. \A u \in Threads : u # t => CallOK(u)' /\ InCall(u)' = InCall(u)
  BY <1>2, <1>5, Bystander DEF HeapInv, Typed
<1>7. \A p \in held : Whole(p)'
  <2> SUFFICES ASSUME NEW p \in held PROVE Whole(p)'
    OBVIOUS
  <2>1. Whole(p) /\ (p.blk # req[t].blk \/ size' = size)
    BY <1>4 DEF HeapInv, Apart
  <2> QED
    BY <1>1, <2>1 DEF Whole, Offset
<1>8. Apart' /\ Found'
  BY <1>1, <1>6 DEF HeapInv, Apart, Found
<1> QED
  BY <1>3, <1>6, <1>7, <1>8 DEF HeapInv

(* A list without its element number i. *)
Without(s, i) == SubSeq(s, 1, i - 1) \o SubSeq(s, i + 1, Len(s))

(* What is left of a sequence without its place i. *)
LEMMA Removed ==
  ASSUME NEW S, NEW s \in Seq(S), NEW i \in 1 .. Len(s)
  PROVE  /\ Without(s, i) \in Seq(S) /\ Len(Without(s, i)) = Len(s) - 1
         /\ \A j \in 1 .. Len(s) - 1 : Without(s, i)[j] = IF j < i THEN s[j] ELSE s[j + 1]
<1> DEFINE a == SubSeq(s, 1, i - 1)
           b == SubSeq(s, i + 1, Len(s))
<1>1. a \in Seq(S) /\ Len(a) = i - 1 /\ \A j \in 1 .. i - 1 : a[j] = s[j]
  OBVIOUS
<1>2. b \in Seq(S) /\ Len(b) = Len(s) - i /\ \A j \in 1 .. Len(s) - i : b[j] = s[i + j]
  OBVIOUS
<1> HIDE DEF a, b
<1>3. /\ a \o b \in Seq(S) /\ Len(a \o b) = Len(a) + Len(b)
      /\ \A j \in 1 .. Len(a) + Len(b) : (a \o b)[j] = IF j <= Len(a) THEN a[j] ELSE b[j - Len(a)]
  BY <1>1, <1>2, ConcatProperties
<1>4. ASSUME NEW j \in 1 .. Len(s) - 1 PROVE (a \o b)[j] = IF j < i THEN s[j] ELSE s[j + 1]
  <2>1. CASE j < i
    BY <1>1, <1>2, <1>3, <2>1
  <2>2. CASE ~(j < i)
    <3>1. (a \o b)[j] = b[j - (i - 1)] /\ j - (i - 1) \in 1 .. Len(s) - i /\ i + (j - (i - 1)) = j + 1
      BY <1>1, <1>2, <1>3, <2>2
    <3> QED
      BY <1>2, <3>1, <2>2
  <2> QED
    BY <2>1, <2>2, Zenon
<1>5. Without(s, i) = a \o b
  BY DEF Without, a, b
<1>6. Len(a) + Len(b) = Len(s) - 1
  BY <1>1, <1>2
<1> QED
  BY <1>3, <1>4, <1>5, <1>6

(* malloc takes the first block of the free list that is large enough. *)
LEMMA SearchKeeps == ASSUME HeapInv, NEW t \in Threads, Search(t) PROVE HeapInv'
<1>1. /\ Blocks' = Blocks /\ 0 \notin Blocks /\ held' = held /\ size' = size /\ cap' = cap /\ pc[t] = "search"
      /\ req[t].blk = 0
  BY DEF HeapInv, CallOK, Search, Blocks
<1>2. \A q \in held' : Whole(q)'
  BY <1>1 DEF HeapInv, Whole, Offset
<1>3. CASE \E i \in 1 .. Len(free) :
             /\ FirstFit(i, req[t].want) /\ req' = [req EXCEPT ![t].blk = free[i]]
             /\ free' = Unlink(i) /\ Goto(t, "mark")
  <2>1. PICK i \in Places :
             /\ FirstFit(i, req[t].want) /\ req' = [req EXCEPT ![t].blk = free[i]]
             /\ free' = Unlink(i) /\ Goto(t, "mark")
    BY <1>3, Zenon DEF Places
  <2> DEFINE x == free[i]
  <2>2. x \in Blocks /\ size[x] >= req[t].want /\ x \in Nat /\ x # 0
    <3>1. x \in Blocks
      BY <2>1 DEF HeapInv, Typed, Places
    <3>2. size[x] >= req[t].want
      BY <2>1 DEF FirstFit, Fits
    <3> QED
      BY <3>1, <3>2 DEF Blocks
  <2>3. /\ pc'[t] = "mark" /\ req'[t] = [req[t] EXCEPT !.blk = x]
        /\ \A u \in Threads : u # t => pc'[u] = pc[u] /\ req'[u] = req[u]
    BY <2>1 DEF HeapInv, Typed, Goto
  <2>4. /\ free' \in Seq(Blocks) /\ Len(free') = Len(free) - 1
        /\ \A j \in Places' : free'[j] = IF j < i THEN free[j] ELSE free[j + 1]
    BY <2>1, Removed, Zenon DEF HeapInv, Typed, Unlink, Without, Places
  <2>5. pc' \in [Threads -> {"idle", "search", "mark", "grow", "fill", "return", "free"}] /\ req' \in [Threads -> Records]
    BY <2>1, <2>2, Zenon DEF HeapInv, Typed, Goto, Records
  <2>6. Typed'
    BY <1>1, <2>4, <2>5 DEF HeapInv, Typed
  <2>7. \A u \in Threads : u # t => CallOK(u)' /\ InCall(u)' = InCall(u)
    BY <1>1, <2>3, Bystander DEF HeapInv, Typed
  <2>8. /\ req'[t].blk = x /\ req'[t].old = req[t].old /\ req'[t].want = req[t].want
        /\ req'[t].n = req[t].n /\ req'[t].op = req[t].op
    BY <2>3 DEF HeapInv, Typed, Records
  <2>9. InCall(t)' = InCall(t) \cup {x}
    BY <1>1, <2>2, <2>3, <2>8 DEF InCall
  <2>10. HasOld(t) => req[t].old.blk \in InCall(t)
    BY DEF HeapInv, CallOK, HasOld, Whole, InCall
  <2>11. x \notin InCall(t)
    BY <2>1 DEF HeapInv, Apart
  <2>12. CallOK(t)'
    <3>1. HasOld(t)' => HasOld(t)
      BY <1>1, <2>3, <2>8 DEF HasOld
    <3>2. HasOld(t) => Whole(req[t].old)' /\ req[t].old.blk # x
      BY <1>1, <2>8, <2>10, <2>11 DEF HeapInv, CallOK, Whole, Offset
    <3>3. size'[x] \in Nat /\ req[t].want \in Nat /\ req[t].want <= size'[x]
      BY <1>1, <2>2, SMTT(60) DEF HeapInv, Typed, Records, Blocks
    <3>4. req[t].n \in Sizes /\ req[t].want = req[t].n + (IF req[t].op = "memalign" THEN Extra ELSE 0)
      BY <1>1 DEF HeapInv, CallOK
    <3>5. req[t].op = "reallocf" => req[t].old # Null
      BY <1>1 DEF HeapInv, CallOK
    <3> QED
      BY <1>1, <2>2, <2>3, <2>8, <3>1, <3>2, <3>3, <3>4, <3>5 DEF CallOK, HasNew, Whole, Offset
  <2>13. Len(free) \in Nat /\ Places = 1 .. Len(free) /\ Places' = 1 .. Len(free) - 1
    BY <2>4 DEF HeapInv, Typed, Places
  <2>18. \A j \in Places' : \E k \in Places : k # i /\ free'[j] = free[k] /\ k = IF j < i THEN j ELSE j + 1
    BY <2>1, <2>4, <2>13
  <2>17. ASSUME NEW j \in Places, j # i PROVE \E k \in Places' : free'[k] = free[j]
    <3>1. CASE j < i
      BY <2>1, <2>4, <2>13, <3>1
    <3>2. CASE j > i
      <4>1. j - 1 \in Places' /\ free'[j - 1] = free[j]
        BY <2>1, <2>4, <2>13, <3>2
      <4> QED
        BY <4>1
    <3> QED
      BY <2>1, <2>13, <2>17, <3>1, <3>2
  <2>14. \A j, k \in Places' : free'[j] = free'[k] => j = k
    BY <2>1, <2>13, <2>18 DEF HeapInv, Apart
  <2>15. Apart'
    BY <1>1, <2>1, <2>2, <2>7, <2>9, <2>18, <2>14 DEF HeapInv, Apart
  <2>16. Found'
    BY <1>1, <2>1, <2>7, <2>9, <2>17 DEF HeapInv, Found
  <2> QED
    BY <1>2, <2>6, <2>7, <2>12, <2>15, <2>16 DEF HeapInv
<1>4. CASE Goto(t, "grow") /\ UNCHANGED <<req, free>>
  <2>1. pc'[t] = "grow"
    BY <1>4 DEF HeapInv, Typed, Goto
  <2>2. CallOK(t)' /\ InCall(t)' = InCall(t)
    BY <1>1, <1>4, <2>1 DEF HeapInv, CallOK, HasNew, HasOld, Whole, Offset, InCall
  <2>3. size \in Seq(Nat) /\ \A b \in Blocks : size[b] <= cap[b]
    BY SMTT(60) DEF HeapInv, Typed
  <2> QED
    BY <1>1, <1>4, <2>2, <2>3, StepInside
<1> QED
  BY <1>3, <1>4 DEF Search

(* malloc writes the size of a block that it uses again. *)
LEMMA MarkKeeps == ASSUME HeapInv, NEW t \in Threads, Mark(t) PROVE HeapInv'
<1> DEFINE x == req[t].blk
<1>1. x \in Blocks /\ req[t].want \in Nat /\ req[t].want <= size[x] /\ size[x] <= cap[x] /\ pc[t] = "mark"
  BY DEF HeapInv, Typed, CallOK, Mark, Records
<1>2. /\ UNCHANGED <<cap, free, held, req>> /\ Goto(t, "fill")
      /\ size' = [size EXCEPT ![x] = req[t].want]
  BY DEF Mark
<1>3. size \in Seq(Nat) /\ cap \in Seq(Nat) /\ Len(size) = Len(cap) /\ Blocks = 1 .. Len(size)
  BY DEF HeapInv, Typed, Blocks
<1>4. /\ size' \in Seq(Nat) /\ Len(size') = Len(size) /\ size'[x] = req[t].want
      /\ \A b \in Blocks \ {x} : size'[b] = size[b]
  BY <1>1, <1>2, <1>3
<1>5. \A b \in Blocks : size'[b] <= cap[b]
  <2> SUFFICES ASSUME NEW b \in Blocks PROVE size'[b] <= cap[b]
    OBVIOUS
  <2>1. size[x] \in Nat /\ cap[x] \in Nat /\ size[b] <= cap[b]
    <3>1. size[b] <= cap[b]
      BY DEF HeapInv, Typed
    <3>2. size[x] \in Nat /\ cap[x] \in Nat
      BY <1>1, <1>3, SMTT(60)
    <3> QED
      BY <3>1, <3>2
  <2> QED
    BY <1>1, <1>4, <2>1
<1>6. pc'[t] = "fill"
  BY <1>2 DEF HeapInv, Typed, Goto
<1>7. InCall(t)' = InCall(t)
  BY <1>1, <1>2, <1>6 DEF InCall, Blocks
<1>8. CallOK(t)'
  <2>1. HasOld(t)' <=> HasOld(t)
    BY <1>1, <1>2, <1>6, SMTT(60) DEF HasOld
  <2>2. HasOld(t) => Whole(req[t].old)' /\ req[t].old.blk # x
    BY <1>2, <1>4, SMTT(60) DEF HeapInv, CallOK, Whole, Offset, Blocks
  <2> QED
    BY <1>1, <1>2, <1>4, <1>6, <2>1, <2>2, SMTT(60) DEF HeapInv, CallOK, HasNew, Blocks
<1> HIDE DEF x
<1> QED
  BY <1>1, <1>2, <1>4, <1>5, <1>7, <1>8, StepInside DEF x

(* calloc and the realloc family fill the new block. *)
LEMMA FillKeeps == ASSUME HeapInv, NEW t \in Threads, Fill(t) PROVE HeapInv'
<1> DEFINE l == IF req[t].old = Null THEN "return" ELSE "free"
<1>1. UNCHANGED <<cap, free, held, req, size>> /\ Goto(t, l) /\ pc[t] = "fill"
  BY DEF Fill
<1>2. l \in {"return", "free"} /\ pc'[t] = l
  BY <1>1 DEF HeapInv, Typed, Goto
<1>3. req[t].blk \in Blocks /\ Blocks' = Blocks /\ 0 \notin Blocks
  BY <1>1, SMTT(60) DEF HeapInv, CallOK, HasNew, Blocks
<1>4. CallOK(t)'
  BY <1>1, <1>2, <1>3 DEF HeapInv, CallOK, HasNew, HasOld, Whole, Offset
<1>5. InCall(t)' = InCall(t)
  <2>1. req[t].old = Null => req[t].old.blk \notin Blocks
    BY <1>3 DEF Null
  <2> QED
    BY <1>1, <1>2, <1>3, <2>1 DEF InCall
<1>6. size \in Seq(Nat) /\ \A b \in Blocks : size[b] <= cap[b]
  BY DEF HeapInv, Typed
<1> HIDE DEF l
<1> QED
  BY <1>1, <1>2, <1>4, <1>5, <1>6, StepInside

(* Steps that end a call: the pointers P go to the client. *)
LEMMA HandOver ==
  ASSUME HeapInv, NEW t \in Threads, Goto(t, "idle"), UNCHANGED <<cap, free, size, req>>,
         NEW P \in SUBSET [blk : Blocks, len : Sizes, kind : Kinds], held' = held \cup P,
         \A p \in P : Whole(p), \A p, q \in P : p = q, InCall(t) = {p.blk : p \in P}
  PROVE  HeapInv'
<1>1. Blocks' = Blocks /\ Places' = Places
  BY DEF Blocks, Places
<1>2. /\ pc' \in [Threads -> {"idle", "search", "mark", "grow", "fill", "return", "free"}]
      /\ pc'[t] = "idle" /\ \A u \in Threads : u # t => pc'[u] = pc[u]
  BY DEF HeapInv, Typed, Goto
<1>3. Typed'
  BY <1>1, <1>2 DEF HeapInv, Typed
<1>4. \A u \in Threads : u # t => CallOK(u)' /\ InCall(u)' = InCall(u)
  BY <1>2, Bystander DEF HeapInv, Typed
<1>5. CallOK(t)' /\ InCall(t)' = {}
  BY <1>2 DEF CallOK, HasNew, HasOld, InCall
<1>6. \A p \in held' : Whole(p)'
  BY <1>1, SMTT(60) DEF HeapInv, Whole, Offset
<1>7. Apart'
  BY <1>1, <1>4, <1>5 DEF HeapInv, Apart
<1>8. Found'
  <2> SUFFICES ASSUME NEW b \in Blocks
               PROVE \/ \E i \in Places : free[i] = b
                     \/ \E p \in held' : p.blk = b
                     \/ \E u \in Threads : b \in InCall(u)'
    BY <1>1 DEF Found
  <2>1. CASE \E u \in Threads : b \in InCall(u)
    BY <2>1, <1>4
  <2> QED
    BY <2>1 DEF HeapInv, Found
<1> QED
  BY <1>3, <1>4, <1>5, <1>6, <1>7, <1>8 DEF HeapInv

(* sbrk fails. *)
LEMMA MallocFailsKeeps == ASSUME HeapInv, NEW t \in Threads, MallocFails(t) PROVE HeapInv'
<1> DEFINE p == req[t].old
<1>1. pc[t] \in {"search", "grow"} /\ UNCHANGED <<cap, free, size, req>> /\ req[t].blk = 0
  BY DEF HeapInv, CallOK, MallocFails
<1>2. Blocks' = Blocks /\ 0 \notin Blocks
  BY <1>1 DEF Blocks
<1>3. p # Null => Whole(p)
  BY <1>1 DEF HeapInv, CallOK, HasOld
<1>4. InCall(t) = {q.blk : q \in {p} \ {Null}}
  BY <1>1, <1>2, <1>3 DEF InCall, Whole, Null
<1>5. CASE req[t].op = "reallocf"
  <2>1. held' = held /\ Goto(t, "free") /\ pc'[t] = "free"
    BY <1>5 DEF HeapInv, Typed, MallocFails, Goto
  <2>2. CallOK(t)'
    BY <1>1, <1>2, <1>5, <2>1, ZenonT(60) DEF HeapInv, CallOK, HasNew, HasOld, Whole, Offset
  <2>4. InCall(t)' = InCall(t)
    BY <1>1, <1>2, <2>1, SMTT(60) DEF InCall
  <2>3. size \in Seq(Nat) /\ \A b \in Blocks : size[b] <= cap[b]
    BY DEF HeapInv, Typed
  <2> QED
    BY <1>1, <2>1, <2>2, <2>3, <2>4, StepInside, SMTT(60)
<1>6. CASE req[t].op # "reallocf"
  <2>1. held' = held \cup ({p} \ {Null}) /\ Goto(t, "idle")
    BY <1>6 DEF MallocFails
  <2>2. p \in [blk : Nat, len : Nat, kind : Kinds]
    BY DEF HeapInv, Typed, Records
  <2>3. {p} \ {Null} \in SUBSET [blk : Blocks, len : Sizes, kind : Kinds]
    BY <1>3, <2>2 DEF Whole
  <2> HIDE DEF p
  <2> QED
    BY <1>1, <1>3, <1>4, <2>1, <2>3, HandOver, Zenon
<1> QED
  BY <1>5, <1>6

(* A call returns, and the client has its block. *)
LEMMA ReturnKeeps == ASSUME HeapInv, NEW t \in Threads, Return(t) PROVE HeapInv'
<1> DEFINE p == Result(t)
<1>1. /\ pc[t] = "return" /\ UNCHANGED <<cap, free, size, req>> /\ held' = held \cup {p} /\ Goto(t, "idle")
  BY DEF Return
<1>2. /\ req[t].blk \in Blocks /\ size[req[t].blk] = req[t].want /\ req[t].n \in Sizes
      /\ req[t].want = req[t].n + (IF req[t].op = "memalign" THEN Extra ELSE 0)
  BY <1>1 DEF HeapInv, CallOK, HasNew
<1>3. p \in [blk : Blocks, len : Sizes, kind : Kinds] /\ Whole(p) /\ p.blk = req[t].blk
  BY <1>2, SizesAssumption DEF Result, Kinds, Whole, Offset
<1>4. InCall(t) = {q.blk : q \in {p}}
  BY <1>1, <1>2, <1>3 DEF InCall
<1>5. {p} \in SUBSET [blk : Blocks, len : Sizes, kind : Kinds]
  BY <1>3
<1> HIDE DEF p
<1>6. (\A q \in {p} : Whole(q)) /\ \A q, r \in {p} : q = r
  BY <1>3
<1> QED
  BY <1>1, <1>4, <1>5, <1>6, HandOver, ZenonT(60)

(* malloc gets a new block from sbrk. *)
LEMMA GrowKeeps == ASSUME HeapInv, NEW t \in Threads, Grow(t) PROVE HeapInv'
<1> DEFINE x == Len(cap) + 1
           w == req[t].want
<1>1. /\ pc[t] = "grow" /\ cap' = Append(cap, w) /\ size' = Append(size, w) /\ UNCHANGED <<free, held>>
      /\ req' = [req EXCEPT ![t].blk = x] /\ Goto(t, "fill")
  BY DEF Grow
<1>2. /\ cap \in Seq(Nat) /\ size \in Seq(Nat) /\ Len(size) = Len(cap) /\ Len(cap) \in Nat
      /\ w \in Nat /\ free \in Seq(Blocks) /\ Blocks = 1 .. Len(cap)
  BY DEF HeapInv, Typed, Records, Blocks
<1>3. /\ cap' \in Seq(Nat) /\ size' \in Seq(Nat) /\ Len(cap') = x /\ Len(size') = x
      /\ cap'[x] = w /\ size'[x] = w /\ \A b \in Blocks : cap'[b] = cap[b] /\ size'[b] = size[b]
  <2>1. /\ cap' \in Seq(Nat) /\ Len(cap') = x /\ cap'[x] = w
        /\ \A b \in 1 .. Len(cap) : cap'[b] = cap[b]
    BY <1>1, <1>2, AppendProperties
  <2>2. /\ size' \in Seq(Nat) /\ Len(size') = x /\ size'[x] = w
        /\ \A b \in 1 .. Len(size) : size'[b] = size[b]
    BY <1>1, <1>2, AppendProperties
  <2> QED
    BY <1>2, <2>1, <2>2
<1>4. Blocks' = Blocks \cup {x} /\ x \notin Blocks /\ x # 0 /\ 0 \notin Blocks /\ x \in Nat /\ Places' = Places
  BY <1>1, <1>2, <1>3 DEF Blocks, Places
<1>5. /\ pc'[t] = "fill" /\ \A u \in Threads : u # t => pc'[u] = pc[u] /\ req'[u] = req[u]
      /\ pc' \in [Threads -> {"idle", "search", "mark", "grow", "fill", "return", "free"}]
      /\ req' \in [Threads -> Records]
  <2>1. /\ pc'[t] = "fill" /\ \A u \in Threads : u # t => pc'[u] = pc[u]
        /\ pc' \in [Threads -> {"idle", "search", "mark", "grow", "fill", "return", "free"}]
    BY <1>1, SMTT(60) DEF HeapInv, Typed, Goto
  <2>2. [req[t] EXCEPT !.blk = x] \in Records
    <3>1. \A r \in Records, y \in Nat : [r EXCEPT !.blk = y] \in Records
      BY DEF Records
    <3>2. req[t] \in Records /\ x \in Nat
      BY <1>4 DEF HeapInv, Typed
    <3> QED
      BY <3>1, <3>2, Zenon
  <2>3. req \in [Threads -> Records] /\ req' = [req EXCEPT ![t] = [req[t] EXCEPT !.blk = x]]
    BY <1>1 DEF HeapInv, Typed
  <2>4. req' \in [Threads -> Records] /\ \A u \in Threads : u # t => req'[u] = req[u]
    BY <2>2, <2>3
  <2> QED
    BY <2>1, <2>4
<1>6. /\ req'[t].blk = x /\ req'[t].old = req[t].old /\ req'[t].want = w
      /\ req'[t].n = req[t].n /\ req'[t].op = req[t].op /\ req[t].blk = 0
  BY <1>1 DEF HeapInv, Typed, Records, CallOK
<1>7. Typed'
  <2>1. free' \in Seq(Blocks')
    BY <1>1, <1>2, <1>4, SeqMonotonic, ZenonT(60)
  <2>2. ASSUME NEW b \in Blocks' PROVE size'[b] <= cap'[b]
    <3>1. CASE b = x
      BY <1>2, <1>3, <3>1
    <3>2. CASE b \in Blocks
      BY <1>3, <3>2 DEF HeapInv, Typed
    <3> QED
      BY <1>4, <3>1, <3>2
  <2>3. held' \subseteq [blk : Blocks', len : Sizes, kind : Kinds]
    BY <1>1, <1>4 DEF HeapInv, Typed
  <2> QED
    BY <1>3, <1>5, <2>1, <2>2, <2>3 DEF Typed
<1>8. \A u \in Threads : u # t => CallOK(u)' /\ InCall(u)' = InCall(u)
  <2> SUFFICES ASSUME NEW u \in Threads, u # t PROVE CallOK(u)' /\ InCall(u)' = InCall(u)
    OBVIOUS
  <2>1. Len(cap) <= Len(cap') /\ \A b \in InCall(u) : size'[b] = size[b]
    BY <1>2, <1>3, SMTT(60) DEF InCall
  <2> QED
    BY <1>3, <1>5, <2>1, Bystander
<1>9. HasOld(t) => Whole(req[t].old)
  BY DEF HeapInv, CallOK
<1>10. CallOK(t)'
  <2>1. HasOld(t)' <=> HasOld(t)
    BY <1>1, <1>5, <1>6, SMTT(60) DEF HasOld
  <2>2. HasOld(t) => Whole(req[t].old)' /\ req[t].old.blk # x
    BY <1>3, <1>4, <1>6, <1>9 DEF Whole, Offset
  <2>3. /\ req[t].n \in Sizes /\ w = req[t].n + (IF req[t].op = "memalign" THEN Extra ELSE 0)
        /\ req[t].op = "reallocf" => req[t].old # Null
    BY <1>1 DEF HeapInv, CallOK
  <2> QED
    BY <1>3, <1>4, <1>5, <1>6, <2>1, <2>2, <2>3 DEF CallOK, HasNew
<1>11. InCall(t)' = InCall(t) \cup {x}
  <2>1. req[t].old.blk # x
    BY <1>1, <1>4, <1>9 DEF HasOld, Whole, Null
  <2> QED
    BY <1>1, <1>4, <1>5, <1>6, <2>1 DEF InCall
<1>12. (\A i \in Places : free[i] \in Blocks) /\ (\A p \in held : Whole(p) /\ p.blk \in Blocks)
  BY <1>2, SMTT(60) DEF HeapInv, Whole, Places
<1>13. \A p \in held : Whole(p)'
  BY <1>3, <1>4, <1>12 DEF Whole, Offset
<1>14. \A u \in Threads : x \notin InCall(u)
  BY <1>4 DEF InCall
<1> HIDE DEF x, w
<1>15. Apart'
  BY <1>1, <1>4, <1>8, <1>11, <1>12, <1>14, SMTT(60) DEF HeapInv, Apart
<1>16. Found'
  BY <1>1, <1>4, <1>8, <1>11, SMTT(60) DEF HeapInv, Found
<1> QED
  BY <1>1, <1>7, <1>8, <1>10, <1>13, <1>15, <1>16 DEF HeapInv

(* free puts a block in front of the free list. *)
LEMMA PushKeeps == ASSUME HeapInv, NEW t \in Threads, Push(t) PROVE HeapInv'
<1> DEFINE p == req[t].old
           x == req[t].old.blk
           l == IF req[t].blk = 0 THEN "idle" ELSE "return"
<1>1. pc[t] = "free" /\ UNCHANGED <<cap, size, held, req>> /\ Goto(t, l) /\ Blocks' = Blocks /\ 0 \notin Blocks
  BY DEF Push, Blocks
<1>2. Whole(p) /\ x # req[t].blk /\ p # Null /\ x \in Blocks
  BY <1>1 DEF HeapInv, CallOK, HasOld, Whole
<1>3. p.kind = "aligned" \/ size[x] # Magic
  <2>1. CASE p.kind = "plain"
    <3>1. p.len \in Sizes /\ size[x] = p.len + 0
      BY <1>2, <2>1, Zenon DEF Whole, Offset
    <3>2. p.len \in Nat
      BY <3>1, SizesAssumption, Zenon
    <3> HIDE DEF p, x
    <3>3. size[x] = p.len
      BY <3>1, <3>2
    <3> QED
      BY <3>1, <3>3, MagicAssumption, Zenon
  <2> QED
    BY <1>2, <2>1 DEF Whole, Kinds
<1>4. free' = <<x>> \o free
  BY <1>3 DEF Push
<1>5. free \in Seq(Blocks) /\ Len(free) \in Nat /\ Places = 1 .. Len(free)
  BY DEF HeapInv, Typed, Places
<1>6. <<x>> \in Seq(Blocks) /\ Len(<<x>>) = 1 /\ <<x>>[1] = x
  BY <1>2
<1>7. /\ free' \in Seq(Blocks) /\ Len(free') = Len(free) + 1
      /\ \A j \in 1 .. Len(free) + 1 : free'[j] = IF j = 1 THEN x ELSE free[j - 1]
  <2> DEFINE s == <<x>>
  <2> HIDE DEF s
  <2>1. s \in Seq(Blocks) /\ Len(s) = 1 /\ s[1] = x /\ free' = s \o free
    BY <1>4, <1>6 DEF s
  <2>2. /\ s \o free \in Seq(Blocks) /\ Len(s \o free) = Len(s) + Len(free)
        /\ \A j \in 1 .. Len(s) + Len(free) : (s \o free)[j] = IF j <= Len(s) THEN s[j] ELSE free[j - Len(s)]
    BY <1>5, <2>1, ConcatProperties
  <2> QED
    BY <1>5, <2>1, <2>2
<1>8. Places' = 1 .. Len(free) + 1
  BY <1>7 DEF Places
<1>9. l \in {"idle", "return"} /\ pc'[t] = l /\ \A u \in Threads : u # t => pc'[u] = pc[u]
  BY <1>1 DEF HeapInv, Typed, Goto
<1>10. pc' \in [Threads -> {"idle", "search", "mark", "grow", "fill", "return", "free"}]
  BY <1>1, <1>9, SMTT(60) DEF HeapInv, Typed, Goto
<1>11. Typed'
  BY <1>1, <1>7, <1>10 DEF HeapInv, Typed
<1>12. \A u \in Threads : u # t => CallOK(u)' /\ InCall(u)' = InCall(u)
  <2> SUFFICES ASSUME NEW u \in Threads, u # t PROVE CallOK(u)' /\ InCall(u)' = InCall(u)
    OBVIOUS
  <2>1. /\ cap' \in Seq(Nat) /\ Len(cap) <= Len(cap') /\ \A b \in InCall(u) : size'[b] = size[b]
        /\ pc'[u] = pc[u] /\ req'[u] = req[u]
    BY <1>1, <1>9 DEF HeapInv, Typed
  <2> QED
    BY <2>1, Bystander
<1>13. CallOK(t)'
  BY <1>1, <1>2, <1>9, ZenonT(60) DEF HeapInv, CallOK, HasNew, HasOld
<1>14. InCall(t) = InCall(t)' \cup {x} /\ x \notin InCall(t)'
  <2>1. InCall(t) = {b \in Blocks : b = req[t].blk \/ b = x}
    BY <1>1, Zenon DEF InCall
  <2>2. InCall(t)' = {b \in Blocks : b = req[t].blk /\ l = "return"}
    BY <1>1, <1>9, SMTT(60) DEF InCall
  <2>3. req[t].blk \in Blocks => l = "return"
    BY <1>1
  <2> HIDE DEF x, l
  <2> QED
    BY <1>2, <2>1, <2>2, <2>3
<1>15. \A q \in held' : Whole(q)'
  BY <1>1 DEF HeapInv, Whole, Offset
<1>16. ASSUME NEW j \in Places' PROVE (free'[j] = x /\ j = 1) \/ \E i \in Places : free'[j] = free[i] /\ j = i + 1
  <2>1. CASE j = 1
    BY <1>5, <1>7, <2>1
  <2>2. CASE j # 1
    <3>1. j - 1 \in Places /\ free'[j] = free[j - 1] /\ j = (j - 1) + 1
      BY <1>5, <1>7, <1>8, <2>2
    <3> QED
      BY <3>1
  <2> QED
    BY <2>1, <2>2
<1>17. 1 \in Places' /\ free'[1] = x /\ \A i \in Places : i + 1 \in Places' /\ free'[i + 1] = free[i]
  BY <1>5, <1>7, <1>8, SMTT(60)
<1>18. (\A i \in Places : free[i] # x) /\ (\A q \in held : q.blk # x) /\ \A u \in Threads : u # t => x \notin InCall(u)
  BY <1>2, <1>14 DEF HeapInv, Apart
<1> HIDE DEF p, x, l
<1>19. Apart'
  <2>1. \A i, j \in Places' : free'[i] = free'[j] => i = j
    BY <1>16, <1>18 DEF HeapInv, Apart
  <2>2. \A q \in held', i \in Places' : free'[i] # q.blk
    BY <1>1, <1>16, <1>18 DEF HeapInv, Apart
  <2>3. \A u \in Threads, i \in Places' : free'[i] \notin InCall(u)'
    BY <1>12, <1>14, <1>16, <1>18 DEF HeapInv, Apart
  <2>4. /\ \A u \in Threads, q \in held' : q.blk \notin InCall(u)'
        /\ \A u, v \in Threads, b \in Blocks' : b \in InCall(u)' /\ b \in InCall(v)' => u = v
    BY <1>1, <1>12, <1>14 DEF HeapInv, Apart
  <2> QED
    BY <1>1, <2>1, <2>2, <2>3, <2>4, SMTT(60) DEF HeapInv, Apart
<1>20. Found'
  <2> SUFFICES ASSUME NEW b \in Blocks
               PROVE \/ \E i \in Places' : free'[i] = b
                     \/ \E q \in held : q.blk = b
                     \/ \E u \in Threads : b \in InCall(u)'
    BY <1>1 DEF Found
  <2>1. CASE \E u \in Threads : b \in InCall(u)
    BY <2>1, <1>12, <1>14, <1>17
  <2> QED
    BY <2>1, <1>17 DEF HeapInv, Found
<1> QED
  BY <1>11, <1>12, <1>13, <1>15, <1>19, <1>20 DEF HeapInv

(* Every step of malloc, free and their callers keeps the invariant. *)
LEMMA StepKeeps == ASSUME HeapInv, [Next]_vars PROVE HeapInv'
<1>1. Sizes \subseteq Nat /\ Extra \in Nat /\ held \subseteq [blk : Blocks, len : Sizes, kind : Kinds] /\ 0 \notin Blocks
  BY SizesAssumption DEF HeapInv, Typed, Blocks
<1>2. \A p \in held : p # Null
  BY <1>1 DEF HeapInv, Whole, Null
<1>3. ASSUME NEW t \in Threads, Malloc(t) PROVE HeapInv'
  <2>1. PICK n \in Sizes, o \in {"malloc", "calloc"} : Begin(t, o, n, n, Null, "search")
    BY <1>3 DEF Malloc
  <2>2. o \in Ops /\ n \in Nat /\ n = n + (IF o = "memalign" THEN Extra ELSE 0) /\ o # "reallocf"
    BY <1>1 DEF Ops
  <2> QED
    BY <2>1, <2>2, BeginKeeps
<1>4. ASSUME NEW t \in Threads, Memalign(t) PROVE HeapInv'
  <2>1. PICK n \in Sizes : Begin(t, "memalign", n, n + Extra, Null, "search")
    BY <1>4 DEF Memalign
  <2>2. "memalign" \in Ops /\ n \in Nat /\ n + Extra \in Nat
    BY <1>1 DEF Ops
  <2> QED
    BY <2>1, <2>2, BeginKeeps
<1>5. ASSUME NEW t \in Threads, Realloc(t) PROVE HeapInv'
  <2>1. PICK n \in Sizes, p \in held, o \in {"realloc", "recalloc", "reallocf"} : Begin(t, o, n, n, p, "search")
    BY <1>5 DEF Realloc
  <2>2. o \in Ops /\ n \in Nat /\ n = n + (IF o = "memalign" THEN Extra ELSE 0) /\ p # Null
    BY <1>1, <1>2 DEF Ops
  <2> QED
    BY <2>1, <2>2, BeginKeeps
<1>6. ASSUME NEW t \in Threads, Free(t) PROVE HeapInv'
  <2>1. PICK p \in held : Begin(t, "free", 0, 0, p, "free")
    BY <1>6 DEF Free
  <2>2. "free" \in Ops /\ p # Null
    BY <1>2 DEF Ops
  <2> QED
    BY <2>1, <2>2, BeginKeeps
<1>7. CASE UNCHANGED vars
  <2>1. UNCHANGED <<cap, size, free, held, pc, req>> /\ Blocks' = Blocks /\ Places' = Places
    BY <1>7 DEF vars, Blocks, Places
  <2>2. Typed' /\ \A p \in held : Whole(p)'
    BY <2>1 DEF HeapInv, Typed, Whole, Offset
  <2>3. \A t \in Threads : CallOK(t)' /\ InCall(t)' = InCall(t)
    BY <2>1, Bystander DEF HeapInv, Typed
  <2>4. Apart' /\ Found'
    BY <2>1, <2>3 DEF HeapInv, Apart, Found
  <2> QED
    BY <2>1, <2>2, <2>3, <2>4 DEF HeapInv
<1> QED
  BY <1>3, <1>4, <1>5, <1>6, <1>7, SearchKeeps, MarkKeeps, GrowKeeps, MallocFailsKeeps, FillKeeps, ReturnKeeps, PushKeeps
  DEF Next

(* No two pointers share memory: whatever the threads do and however long  *)
(* they do it, a block that malloc, realloc or posix_memalign gave out is  *)
(* nowhere else, and is as large as was asked for.                         *)
THEOREM NoBlockShared == Spec => []NoSharing
<1>1. Init => HeapInv
  BY InitHolds
<1>2. HeapInv /\ [Next]_vars => HeapInv'
  BY StepKeeps
<1>3. HeapInv => NoSharing
  BY InvSuffices
<1> QED
  BY <1>1, <1>2, <1>3, PTL DEF Spec

(* No block drops out of sight: what sbrk gave is on the free list, with   *)
(* the client or in a call, also when calls fail half way.                 *)
THEOREM NoBlockLost == Spec => []NothingLost
<1>1. Init => HeapInv
  BY InitHolds
<1>2. HeapInv /\ [Next]_vars => HeapInv'
  BY StepKeeps
<1>3. HeapInv => NothingLost
  BY InvSuffices
<1> QED
  BY <1>1, <1>2, <1>3, PTL DEF Spec
=============================================================================
