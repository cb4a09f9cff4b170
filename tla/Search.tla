-------------------------------- MODULE Search --------------------------------
(***************************************************************************)
(* The tables of search.h.                                                 *)
(*                                                                         *)
(* tsearch, tfind, tdelete and twalk (src/search_tree.c) on one tree whose *)
(* keys are numbers.  Nodes are numbered as malloc returns them and 0 is   *)
(* the null pointer.  A pointer to a pointer is a slot: <<0, "root">>, or  *)
(* a node and a side.                                                      *)
(*                                                                         *)
(* hcreate, hsearch and hdestroy (src/search_hash.c): one table with       *)
(* linear probing.  A slot is empty or holds a key with its data; what     *)
(* hash_str makes of a key is any function.                                *)
(***************************************************************************)
EXTENDS Integers, Sequences, FiniteSetsExt, SequencesExt

CONSTANTS Keys,      \* numbers
          MaxNodes,  \* bound: calls of malloc
          MaxCalls   \* bound: calls

VARIABLES root, nodes,  \* nodes[n] is a struct node
          live,         \* nodes that have not been freed
          want,         \* the keys put in and not deleted
          tret,         \* the last call and the node it returned
          tcalls

treeVars == <<root, nodes, live, want, tret, tcalls>>

RootSlot == <<0, "root">>

At(s) == CASE s[2] = "root" -> root
           [] s[2] = "left" -> nodes[s[1]].left
           [] s[2] = "right" -> nodes[s[1]].right

(* Where k is, or where it would be put. *)
RECURSIVE SlotOf(_, _)
SlotOf(k, s) ==
  LET n == At(s) IN
  IF n = 0 \/ nodes[n].key = k THEN s
  ELSE SlotOf(k, <<n, IF k < nodes[n].key THEN "left" ELSE "right">>)

RECURSIVE MinSlot(_)
MinSlot(s) == IF nodes[At(s)].left = 0 THEN s ELSE MinSlot(<<At(s), "left">>)

(* The nodes ns after the slot s has been set to n. *)
Store(ns, s, n) ==
  CASE s[2] = "root" -> ns
    [] s[2] = "left" -> [ns EXCEPT ![s[1]].left = n]
    [] s[2] = "right" -> [ns EXCEPT ![s[1]].right = n]

NewRoot(s, n) == IF s = RootSlot THEN n ELSE root

TreeInit ==
  /\ root = 0 /\ nodes = <<>> /\ live = {}
  /\ want = {} /\ tret = <<"none", 0, 0>> /\ tcalls = 0
-----------------------------------------------------------------------------
tsearch(k) ==
  LET s == SlotOf(k, RootSlot)
      new == Len(nodes) + 1
  IN \/ /\ At(s) # 0
        /\ tret' = <<"tsearch", k, At(s)>>
        /\ UNCHANGED <<root, nodes, live, want>>
     \/ /\ At(s) = 0 /\ new <= MaxNodes
        /\ nodes' = Append(Store(nodes, s, new), [key |-> k, left |-> 0, right |-> 0])
        /\ root' = NewRoot(s, new)
        /\ live' = live \cup {new} /\ want' = want \cup {k}
        /\ tret' = <<"tsearch", k, new>>

(* malloc fails. *)
NoMemory(k) ==
  /\ At(SlotOf(k, RootSlot)) = 0
  /\ tret' = <<"nomem", k, 0>>
  /\ UNCHANGED <<root, nodes, live, want>>

tfind(k) ==
  /\ tret' = <<"tfind", k, At(SlotOf(k, RootSlot))>>
  /\ UNCHANGED <<root, nodes, live, want>>

(* The node t at slot s has at most one child. *)
Unlink(s, t) ==
  LET child == IF nodes[t].left = 0 THEN nodes[t].right ELSE nodes[t].left IN
  /\ nodes' = Store(nodes, s, child)
  /\ root' = NewRoot(s, child)
  /\ live' = live \ {t}

(* Variant: the child of the node that is freed is lost. *)
MoveMinDrops(t) ==
  LET s == MinSlot(<<t, "right">>)
      min == At(s)
  IN /\ nodes' = [Store(nodes, s, 0) EXCEPT ![t].key = nodes[min].key]
     /\ root' = root
     /\ live' = live \ {min}

(* The least node of the right subtree gives its key to t and is freed. *)
MoveMin(t) ==
  LET s == MinSlot(<<t, "right">>)
      min == At(s)
  IN /\ nodes' = [Store(nodes, s, nodes[min].right) EXCEPT ![t].key = nodes[min].key]
     /\ root' = root
     /\ live' = live \ {min}

tdelete(k) ==
  LET s == SlotOf(k, RootSlot)
      t == At(s)
  IN /\ tret' = <<"tdelete", k, IF t = 0 THEN 0 ELSE IF s = RootSlot THEN t ELSE s[1]>>
     /\ want' = want \ {k}
     /\ CASE t = 0 -> UNCHANGED <<root, nodes, live>>
          [] t # 0 /\ (nodes[t].left = 0 \/ nodes[t].right = 0) -> Unlink(s, t)
          [] OTHER -> MoveMin(t)

TreeNext ==
  /\ tcalls < MaxCalls /\ tcalls' = tcalls + 1
  /\ \E k \in Keys : tsearch(k) \/ NoMemory(k) \/ tfind(k) \/ tdelete(k)

-----------------------------------------------------------------------------
(* twalk: the calls of action, each with a key, a visit and a level. *)
RECURSIVE walk(_, _)
walk(n, level) ==
  IF n = 0 THEN <<>>
  ELSE LET x == nodes[n]
           Visit(v) == <<<<x.key, v, level>>>>
       IN IF x.left = 0 /\ x.right = 0 THEN Visit("leaf")
          ELSE Visit("preorder") \o walk(x.left, level + 1) \o Visit("postorder")
               \o walk(x.right, level + 1) \o Visit("endorder")

InOrder == SelectSeq(walk(root, 0), LAMBDA v : v[2] \in {"postorder", "leaf"})

(* After any sequence of calls the keys are those put in and not deleted,  *)
(* twalk passes them in order and each once, no node is lost or used after *)
(* it was freed, and tsearch and tfind return the key's node exactly when  *)
(* it is there.                                                            *)
TreeExact ==
  /\ [i \in 1 .. Len(InOrder) |-> InOrder[i][1]] = SetToSortSeq(want, <)
  /\ Cardinality(live) = Cardinality(want)
  /\ tret[1] \in {"tsearch", "tfind"} =>
       (tret[3] # 0 <=> tret[2] \in want) /\ (tret[3] # 0 => nodes[tret[3]].key = tret[2] /\ tret[3] \in live)
-----------------------------------------------------------------------------
CONSTANTS HashKeys, Data, Hashes,
          Sizes,      \* sizes given to hcreate
          MaxHashOps  \* bound: calls

VARIABLES hash, table, items,
          dict,   \* what was entered first for every key
          hret, hops

hashVars == <<hash, table, items, dict, hret, hops>>

NoTable == [i \in {} |-> 0]
Empty == [used |-> FALSE]
size == Cardinality(DOMAIN table)

HashInit ==
  /\ hash \in [HashKeys -> Hashes]
  /\ table = NoTable /\ items = 0
  /\ dict = {} /\ hret = [op |-> "none"] /\ hops = 0

(* Also when malloc fails. *)
HcreateFails ==
  /\ hret' = [op |-> "hcreate", ok |-> FALSE]
  /\ UNCHANGED <<table, items, dict>>

hcreate(n) ==
  \/ HcreateFails
  \/ /\ table = NoTable
     /\ table' = [i \in 0 .. n - 1 |-> Empty] /\ items' = 0
     /\ hret' = [op |-> "hcreate", ok |-> TRUE]
     /\ UNCHANGED dict

hdestroy ==
  /\ table' = NoTable /\ items' = 0 /\ dict' = {}
  /\ hret' = [op |-> "hdestroy"]

Stops(k, i) == ~table[i].used \/ table[i].key = k

(* Where probing for k stops, or -1 when the table is full of others. *)
Probe(k) ==
  LET idx(i) == (hash[k] + i) % size
      Hits == {i \in 0 .. size - 1 : Stops(k, idx(i))}
  IN IF Hits = {} THEN -1 ELSE idx(CHOOSE i \in Hits : \A j \in Hits : i <= j)

Answer(op, k, d, e) == hret' = [op |-> op, key |-> k, data |-> d, entry |-> e]

hsearch(k, d, op) ==
  LET idx == Probe(k) IN
  IF table = NoTable \/ idx = -1 \/ (~table[idx].used /\ (op = "FIND" \/ items >= size))
  THEN Answer(op, k, d, Empty) /\ UNCHANGED <<table, items, dict>>
  ELSE IF table[idx].used
  THEN Answer(op, k, d, table[idx]) /\ UNCHANGED <<table, items, dict>>
  ELSE LET e == [used |-> TRUE, key |-> k, data |-> d] IN
       /\ table' = [table EXCEPT ![idx] = e]
       /\ items' = items + 1
       /\ dict' = dict \cup {e}
       /\ Answer(op, k, d, e)

HashNext ==
  /\ hops < MaxHashOps /\ hops' = hops + 1 /\ UNCHANGED hash
  /\ \/ \E n \in Sizes : hcreate(n)
     \/ hdestroy
     \/ \E k \in HashKeys, d \in Data, op \in {"FIND", "ENTER"} : hsearch(k, d, op)

-----------------------------------------------------------------------------
(* hsearch finds what was entered first under the key, whatever collides   *)
(* with it, and enters a new key as long as there is room.                 *)
HashExact ==
  /\ items = Cardinality(dict)
  /\ hret.op \in {"FIND", "ENTER"} =>
       IF \E e \in dict : e.key = hret.key THEN hret.entry \in dict /\ hret.entry.key = hret.key
       ELSE hret.entry = Empty /\ (hret.op = "ENTER" => items = size)
  /\ \A e, f \in dict : e.key = f.key => e = f
=============================================================================
