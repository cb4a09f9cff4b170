---------------------------- MODULE SequentialProofs ----------------------------
(***************************************************************************)
(* Two components that one thread runs.                                    *)
(*                                                                         *)
(* qsort and bsearch, for arrays of every length and elements of any       *)
(* value.                                                                  *)
(*                                                                         *)
(* The functions of Resources, for any number of descriptors, entries,     *)
(* interfaces and calls.  The invariant says at every place of every       *)
(* function which descriptors and how many blocks are in the hands of the  *)
(* call alone; all others are known to the client or are the log's.        *)
(***************************************************************************)
EXTENDS Sort, Resources, TLAPS
-----------------------------------------------------------------------------
(* What makes it inductive: the elements before row i are in their final   *)
(* places, the one in row i is the least up to column j; and the key is    *)
(* not outside low and high.                                               *)
SortInv ==
  /\ nmemb \in Nat /\ given \in [Places -> Int] /\ key \in Int
  /\ base \in [Places -> Places]
  /\ i \in Nat /\ i <= nmemb /\ j \in Nat /\ j > i
  /\ spc \in {"sort", "search", "found", "absent"}
  /\ low \in 0 .. nmemb /\ high \in 0 .. nmemb
  /\ \A k, l \in Places : k < i /\ k < l => Key(k) <= Key(l)
  /\ \A l \in Places : i < l /\ l < j => Key(i) <= Key(l)
  /\ spc # "sort" => i >= nmemb
  /\ spc \in {"search", "absent"} =>
       /\ \A k \in Places : k < low => Key(k) < key
       /\ \A k \in Places : k >= high => Key(k) > key
  /\ spc = "absent" => low >= high
  /\ SortExact

(* The array before qsort has begun. *)
LEMMA SortStarts == ASSUME Init PROVE SortInv
<1>1. nmemb \in Nat /\ given \in [Places -> Int] /\ key \in Int
  BY SortAssumption, Zenon DEF Init
<1>2. base \in [Places -> Places] /\ \A k \in Places : base[k] = k
  BY DEF Init
<1>3. Permuted
  BY <1>2 DEF Permuted
<1>4. \A k \in Places : k \in Nat /\ ~(k < 0)
  BY <1>1 DEF Places
<1>5. \A k \in Places : ~(0 < k /\ k < 1)
  BY <1>4
<1>6. 0 \in 0 .. nmemb
  BY <1>1
<1>7. spc = "sort" /\ i = 0 /\ j = 1 /\ low = 0 /\ high = 0
  BY DEF Init
<1> QED
  BY <1>1, <1>2, <1>3, <1>4, <1>5, <1>6, <1>7 DEF SortInv, SortExact

(* Elements are compared as integers. *)
LEMMA KeyInt == ASSUME SortInv, NEW k \in Places PROVE Key(k) \in Int
  BY DEF SortInv, Key

(* The inner loop of qsort: the lesser of the two elements comes to row i. *)
LEMMA StepKeeps == ASSUME SortInv, Step PROVE SortInv'
<1>1. i \in Places /\ j \in Places /\ i < j /\ Places' = Places /\ given' = given /\ i' = i /\ j' = j + 1
  BY DEF SortInv, Step, Places
<1>2. base' \in [Places -> Places]
  BY <1>1 DEF SortInv, Swapped, Step
<1>3. \A k \in Places : Key(k) \in Int /\ k \in Nat
  BY KeyInt DEF Places, SortInv
<1>6. \A l \in Places : i < l /\ l < j => Key(i) <= Key(l)
  BY DEF SortInv
<1>7. i \in Nat /\ j \in Nat /\ \A l \in Places : l < j + 1 => l < j \/ l = j
  BY <1>1, <1>3
<1>4. CASE Key(i) <= Key(j)
  <2>1. base' = base
    BY <1>1, <1>3, <1>4 DEF compar, Step
  <2>2. \A k : Key(k)' = Key(k)
    BY <1>1, <2>1 DEF Key
  <2>3. \A l \in Places : i < l /\ l < j + 1 => Key(i) <= Key(l)
    BY <1>4, <1>6, <1>7
  <2> QED
    BY <2>1, <2>2, <2>3, <1>1 DEF SortInv, SortExact, Permuted, Step
<1>5. CASE Key(i) > Key(j)
  <2>1. base' = Swapped
    BY <1>1, <1>3, <1>5 DEF compar, Step
  <2>2. /\ base'[i] = base[j] /\ base'[j] = base[i]
        /\ \A k \in Places : k # i /\ k # j => base'[k] = base[k]
    BY <1>1, <2>1 DEF SortInv, Swapped
  <2>3. /\ Key(i)' = Key(j)
        /\ \A k \in Places : k = i => Key(k)' = Key(j)
        /\ \A k \in Places : k = j => Key(k)' = Key(i)
        /\ \A k \in Places : k # i /\ k # j => Key(k)' = Key(k)
    BY <1>1, <2>2, <1>2 DEF Key
  <2>4. Permuted'
    BY <1>1, <1>2, <2>2 DEF SortInv, SortExact, Permuted
  <2>5. \A k, l \in Places : k < i /\ k < l => Key(k)' <= Key(l)'
    <3> SUFFICES ASSUME NEW k \in Places, NEW l \in Places, k < i, k < l PROVE Key(k)' <= Key(l)'
      OBVIOUS
    <3>1. k < j /\ k # i /\ k # j
      BY <1>1, <1>3
    <3>2. Key(k)' = Key(k) /\ \A m \in Places : k < m => Key(k) <= Key(m)
      BY <2>3, <3>1 DEF SortInv
    <3>3. CASE l = i
      BY <1>1, <2>3, <3>1, <3>2, <3>3
    <3>4. CASE l = j
      BY <1>1, <2>3, <3>1, <3>2, <3>4
    <3>5. CASE l # i /\ l # j
      BY <2>3, <3>2, <3>5
    <3> QED
      BY <3>3, <3>4, <3>5
  <2>6. \A l \in Places : i < l /\ l < j + 1 => Key(i)' <= Key(l)'
    <3> SUFFICES ASSUME NEW l \in Places, i < l, l < j + 1 PROVE Key(i)' <= Key(l)'
      OBVIOUS
    <3>1. CASE l = j
      <4>1. Key(j) <= Key(i)
        BY <1>1, <1>3, <1>5
      <4> QED
        BY <2>3, <3>1, <4>1
    <3>2. CASE l # j
      <4>1. l < j /\ l # i /\ Key(i) <= Key(l)
        BY <1>3, <1>6, <1>7, <3>2
      <4>2. Key(j) <= Key(l)
        BY <1>1, <1>3, <1>5, <4>1
      <4> QED
        BY <2>3, <4>1, <4>2, <3>2
    <3> QED
      BY <3>1, <3>2
  <2> QED
    BY <1>1, <1>2, <2>4, <2>5, <2>6 DEF SortInv, SortExact, Step
<1> QED
  BY <1>1, <1>3, <1>4, <1>5

(* The outer loop of qsort: row i has its element. *)
LEMMA NextRowKeeps == ASSUME SortInv, NextRow PROVE SortInv'
<1>1. /\ Places' = Places /\ given' = given /\ base' = base /\ i' = i + 1 /\ j' = i + 2
      /\ \A k : Key(k)' = Key(k)
  BY DEF NextRow, Places, Key
<1>2. \A k, l \in Places : k < i + 1 /\ k < l => Key(k) <= Key(l)
  <2> SUFFICES ASSUME NEW k \in Places, NEW l \in Places, k < i + 1, k < l PROVE Key(k) <= Key(l)
    OBVIOUS
  <2>1. CASE k < i
    BY <2>1 DEF SortInv
  <2>2. CASE ~(k < i)
    <3>1. k = i /\ i < l /\ l < j
      BY <2>2 DEF SortInv, NextRow, Places
    <3> QED
      BY <3>1 DEF SortInv
  <2> QED
    BY <2>1, <2>2
<1>3. \A l \in Places : ~(i + 1 < l /\ l < i + 2)
  BY DEF SortInv, Places
<1> QED
  BY <1>1, <1>2, <1>3 DEF SortInv, SortExact, Permuted, NextRow

(* bsearch begins, on the sorted array. *)
LEMMA BsearchKeeps == ASSUME SortInv, Bsearch PROVE SortInv'
<1>1. Places' = Places /\ base' = base /\ \A k : Key(k)' = Key(k)
  BY DEF Bsearch, Places, Key
<1>2. Sorted
  BY DEF SortInv, Bsearch, Sorted, Places
<1>3. (\A k \in Places : ~(k < 0)) /\ (\A k \in Places : ~(k >= nmemb)) /\ 0 \in 0 .. nmemb /\ nmemb \in 0 .. nmemb
  BY DEF SortInv, Places
<1> QED
  BY <1>1, <1>2, <1>3 DEF SortInv, SortExact, Permuted, Sorted, Bsearch

(* bsearch: the half that is given up does not have the key. *)
LEMMA ProbeKeeps == ASSUME SortInv, Probe PROVE SortInv'
<1>1. mid \in Places /\ low <= mid /\ mid < high /\ mid + 1 \in 0 .. nmemb /\ mid \in 0 .. nmemb
  BY DEF SortInv, Probe, mid, Places
<1>2. Sorted
  BY DEF SortInv, SortExact, Probe
<1>3. \A k \in Places : Key(k) \in Int
  BY KeyInt
<1>4. Places' = Places /\ base' = base /\ key' = key /\ key \in Int /\ \A k : Key(k)' = Key(k)
  BY DEF Probe, Places, Key, SortInv
<1>5. CASE key < Key(mid)
  <2>1. high' = mid /\ low' = low /\ UNCHANGED <<spc, found>>
    BY <1>1, <1>3, <1>4, <1>5 DEF Probe
  <2>2. \A k \in Places : k >= mid => Key(k) > key
    BY <1>1, <1>2, <1>3, <1>4, <1>5 DEF Sorted, Places
  <2> QED
    BY <1>1, <1>4, <2>1, <2>2 DEF Probe, SortInv, SortExact, Permuted, Sorted
<1>6. CASE key > Key(mid)
  <2>1. high' = high /\ low' = mid + 1 /\ UNCHANGED <<spc, found>>
    <3>1. key - Key(mid) > 0 /\ ~(key - Key(mid) < 0) /\ key - Key(mid) # 0
      BY <1>1, <1>3, <1>4, <1>6
    <3> QED
      BY <3>1 DEF Probe
  <2>2. \A k \in Places : k < mid + 1 => Key(k) < key
    BY <1>1, <1>2, <1>3, <1>4, <1>6 DEF Sorted, Places
  <2> QED
    BY <1>1, <1>4, <2>1, <2>2 DEF Probe, SortInv, SortExact, Permuted, Sorted
<1>7. CASE key = Key(mid)
  <2>1. high' = high /\ low' = low /\ spc' = "found" /\ found' = mid
    BY <1>1, <1>3, <1>4, <1>7 DEF Probe
  <2> QED
    BY <1>1, <1>4, <1>7, <2>1 DEF Probe, SortInv, SortExact, Permuted, Sorted
<1> QED
  BY <1>1, <1>3, <1>4, <1>5, <1>6, <1>7

(* bsearch gives up when nothing is left between low and high. *)
LEMMA NotFoundKeeps == ASSUME SortInv, NotFound PROVE SortInv'
<1>1. Places' = Places /\ base' = base /\ \A k : Key(k)' = Key(k)
  BY DEF NotFound, Places, Key
<1>2. \A k \in Places : Key(k) # key
  <2> SUFFICES ASSUME NEW k \in Places PROVE Key(k) # key
    OBVIOUS
  <2>1. Key(k) \in Int /\ key \in Int
    BY KeyInt DEF SortInv
  <2>2. k < low \/ k >= high
    BY DEF SortInv, NotFound, Places
  <2>3. Key(k) < key \/ Key(k) > key
    BY <2>2 DEF SortInv, NotFound
  <2> QED
    BY <2>1, <2>3
<1> QED
  BY <1>1, <1>2 DEF NotFound, SortInv, SortExact, Permuted, Sorted

(* For arrays of every length and all keys: qsort returns the elements     *)
(* it was given, in order, and bsearch finds a key exactly if it is there. *)
THEOREM SortsAndFinds == Spec => []SortExact
<1>1. SortInv /\ [Next]_sortVars => SortInv'
  <2> SUFFICES ASSUME SortInv, [Next]_sortVars PROVE SortInv'
    OBVIOUS
  <2>1. CASE UNCHANGED sortVars
    BY <2>1 DEF sortVars, SortInv, SortExact, Permuted, Sorted, Places, Key
  <2> QED
    BY <2>1, StepKeeps, NextRowKeeps, BsearchKeeps, ProbeKeeps, NotFoundKeeps DEF Next
<1>2. SortInv => SortExact
  BY DEF SortInv
<1> QED
  BY SortStarts, <1>1, <1>2, PTL DEF Spec
-----------------------------------------------------------------------------
(* The kinds of descriptors. *)
FdKinds == {"free", "tty", "slave", "master", "null", "log", "dir", "socket"}

(* Places at which a call has made nothing yet, and the others. *)
Bare == {"client", "openpty", "forkpty", "daemon", "daemon_noclose", "getpass", "vsyslog",
         "scandir", "getifaddrs", "getcwd", "posix_fallocate"}
Inner == {"grantpt", "ptsname_r", "slave", "fork", "prompt", "echo", "read", "newline",
          "readdir", "interface", "sys_getcwd", "pwrite"}

Locals == [fun : Bare \cup {"none"}, m : Int, s : Int, n : Nat, cap : Nat, left : Nat]

ResTypes ==
  /\ table \in [Numbers -> FdKinds] /\ held \in [Numbers -> FdKinds]
  /\ kept \in Nat /\ resCalls \in Nat
  /\ ctty \in {"tty", "slave", "none"} /\ echo \in [{"tty", "slave"} -> BOOLEAN]
  /\ log_fd \in Numbers \cup {-1}
  /\ rpc \in Bare \cup Inner
  /\ loc \in Locals

(* What the client can tell of a descriptor. *)
Known(f) == IF f = log_fd THEN "log" ELSE held[f]

(* The descriptors that only the call knows of, and its blocks. *)
InHand ==
  CASE rpc \in {"grantpt", "ptsname_r", "slave", "readdir", "interface"} -> {loc.m}
    [] rpc = "fork" -> {loc.m, loc.s}
    [] rpc \in {"prompt", "echo", "read", "newline"} -> need_close
    [] OTHER -> {}
Made ==
  CASE rpc \in {"ptsname_r", "slave", "sys_getcwd"} -> 1
    [] rpc = "readdir" -> loc.n + 2
    [] rpc = "interface" -> loc.n
    [] OTHER -> 0

(* Every descriptor is known to the client or in the call's hands, and not *)
(* both.                                                                   *)
Accounted ==
  /\ InHand \subseteq Numbers
  /\ \A f \in Numbers : IF f \in InHand THEN table[f] # "free" /\ Known(f) = "free" ELSE table[f] = Known(f)
  /\ log_fd # -1 => held[log_fd] = "free"
  /\ blocks = kept + Made

(* The two ends of a new terminal. *)
Ends ==
  /\ rpc \in {"grantpt", "ptsname_r", "slave", "fork"} => table[loc.m] = "master"
  /\ rpc = "fork" => table[loc.s] = "slave"

(* The log is not in the way of what is put onto 0, 1 and 2. *)
Aside ==
  /\ rpc \in {"openpty", "forkpty", "grantpt", "ptsname_r", "slave"} /\ loc.fun # "openpty" => LogAside
  /\ rpc \in {"fork", "daemon"} => LogAside

(* The terminal whose echo getpass has to restore. *)
Hidden == IF rpc = "read" /\ loc.n # 0 THEN {Terminal(table[loc.m])} ELSE {}
Shown ==
  /\ \A x \in DOMAIN echo \ Hidden : x \in stuck \/ echo[x]
  /\ \A x \in Hidden : x \in DOMAIN echo /\ (x \in stuck \/ loc.cap = 1)
  /\ rpc \in {"getpass", "prompt", "echo"} => loc.n = 0
  /\ rpc \in {"prompt", "echo", "read", "newline"} => loc.m \in Numbers

Named == IF log_fd = -1 THEN ident = "" ELSE log_ident = ident

Filed ==
  /\ rpc \in {"posix_fallocate", "pwrite"} => loc.n <= loc.m /\ loc.m <= loc.s
  /\ IF rpc = "pwrite" THEN FileKept ELSE file = Contents

(* A list begins empty and has room for its entries. *)
Roomy ==
  /\ rpc \in {"scandir", "getifaddrs"} => loc.n = 0
  /\ rpc = "readdir" => loc.n <= loc.cap /\ loc.cap >= 1

ResInv == ResTypes /\ Accounted /\ Ends /\ Aside /\ Shown /\ Named /\ Filed /\ Roomy
-----------------------------------------------------------------------------
(* The locals of a call that has just begun. *)
LEMMA NoneLocal == /\ NoLocals \in Locals
                   /\ NoLocals.fun = "none" /\ NoLocals.n = 0 /\ NoLocals.left = 0
<1>1. -1 \in Int /\ 0 \in Nat
  OBVIOUS
<1> QED
  BY <1>1 DEF NoLocals, Locals

(* A count to which nothing is added. *)
LEMMA PlusNone == \A k \in Nat : k + 0 = k
  OBVIOUS

(* 0, 1 and 2 are numbers of descriptors. *)
LEMMA StdNumbers == Std \subseteq Numbers /\ -1 \notin Numbers /\ Numbers \subseteq Int
  BY ResourcesAssumption DEF Std, Numbers

(* A place at which a call has made nothing: what has to be shown there. *)
LEMMA AtBare ==
  ASSUME ResTypes', rpc' \in Bare, Aside', Named', file' = Contents, blocks' = kept',
         \A f \in Numbers : table'[f] = Known(f)', log_fd' # -1 => held'[log_fd'] = "free",
         \A x \in DOMAIN echo' : x \in stuck' \/ echo'[x],
         rpc' \in {"getpass", "scandir", "getifaddrs"} => loc'.n = 0,
         rpc' = "posix_fallocate" => loc'.n <= loc'.m /\ loc'.m <= loc'.s
  PROVE  ResInv'
<1>1. rpc' \notin Inner
  BY DEF Bare, Inner
<1>2. InHand' = {} /\ Made' = 0 /\ Hidden' = {}
  BY <1>1 DEF InHand, Made, Hidden, Inner
<1>3. Accounted'
  <2>1. kept' \in Nat
    BY DEF ResTypes
  <2>2. kept' + 0 = kept'
    BY <2>1, PlusNone, Zenon
  <2> QED
    BY <1>1, <1>2, <2>2 DEF Accounted, Inner
<1>4. Shown' /\ Ends'
  BY <1>1, <1>2 DEF Shown, Ends, Inner
<1>5. Filed' /\ Roomy'
  BY <1>1 DEF Filed, Roomy, Inner
<1> QED
  BY <1>3, <1>4, <1>5 DEF ResInv

(* Where no echo is hidden, every terminal shows it. *)
LEMMA AllShown == ASSUME ResInv, rpc # "read" PROVE \A x \in DOMAIN echo : x \in stuck \/ echo[x]
  BY DEF ResInv, Shown, Hidden

(* A call ends. *)
LEMMA Ended ==
  ASSUME ResInv, NEW t \in [Numbers -> FdKinds], NEW h \in [Numbers -> FdKinds], NEW n \in Nat, NEW b,
         Leave(t, b, h, n), b = kept + n, UNCHANGED logVars, file' = Contents,
         rpc # "read", ctty' \in {"tty", "slave", "none"}, UNCHANGED <<echo, stuck>>,
         \A f \in Numbers : t[f] = IF f = log_fd THEN "log" ELSE h[f], log_fd # -1 => h[log_fd] = "free"
  PROVE  ResInv'
<1>1. /\ rpc' = "client" /\ loc' = NoLocals /\ resCalls' = resCalls
      /\ table' = t /\ held' = h /\ blocks' = b /\ kept' = kept + n
  BY DEF Leave, Enter
<1>2. log_fd' = log_fd /\ log_ident' = log_ident /\ ident' = ident /\ echo' = echo /\ stuck' = stuck
  BY DEF logVars
<1>3. ResTypes'
  <2>1. NoLocals \in Locals
    BY NoneLocal
  <2>2. kept + n \in Nat /\ "client" \in Bare
    BY DEF ResInv, ResTypes, Bare
  <2> QED
    BY <1>1, <1>2, <2>1, <2>2 DEF ResInv, ResTypes
<1>4. Aside' /\ Named' /\ rpc' \in Bare
  BY <1>1, <1>2, Zenon DEF ResInv, Aside, Named, Bare
<1>5. \A f \in Numbers : table'[f] = Known(f)'
  BY <1>1, <1>2 DEF Known
<1>6. \A x \in DOMAIN echo' : x \in stuck' \/ echo'[x]
  BY <1>2, AllShown
<1> QED
  BY <1>1, <1>2, <1>3, <1>4, <1>5, <1>6, AtBare

(* A call ends and gives up what it has in hand. *)
LEMMA Unwound ==
  ASSUME ResInv, NEW b, NEW S, Unwind(b, S), S = InHand, b = kept, UNCHANGED logVars, file' = Contents,
         rpc # "read", ctty' \in {"tty", "slave", "none"}, UNCHANGED <<echo, stuck>>
  PROVE  ResInv'
<1> DEFINE t == Drop(table, S)
<1>1. t \in [Numbers -> FdKinds] /\ held \in [Numbers -> FdKinds] /\ 0 \in Nat /\ kept \in Nat
  BY DEF ResInv, ResTypes, Drop, FdKinds
<1>2. \A f \in Numbers : t[f] = IF f = log_fd THEN "log" ELSE held[f]
  <2> SUFFICES ASSUME NEW f \in Numbers PROVE t[f] = Known(f)
    BY DEF Known
  <2>1. t[f] = IF f \in S THEN "free" ELSE table[f]
    BY DEF Drop
  <2> QED
    BY <2>1 DEF ResInv, Accounted
<1>3. Leave(t, b, held, 0)
  BY DEF Unwind
<1>4. (log_fd # -1 => held[log_fd] = "free") /\ b = kept + 0
  BY <1>1 DEF ResInv, Accounted
<1> HIDE DEF t
<1> QED
  BY <1>1, <1>2, <1>3, <1>4, Ended, Zenon

(* A call begins. *)
LEMMA Begun ==
  ASSUME ResInv, NEW f \in Bare \ {"client"}, NEW l \in Locals, Call(f, l),
         UNCHANGED <<table, held, blocks, kept, termVars, logVars, file>>,
         f \in {"forkpty", "daemon"} => LogAside,
         f \in {"getpass", "scandir", "getifaddrs"} => l.n = 0,
         f = "posix_fallocate" => l.n <= l.m /\ l.m <= l.s
  PROVE  ResInv'
<1>1. /\ rpc = "client" /\ rpc' = f /\ loc' = [l EXCEPT !.fun = f] /\ resCalls' = resCalls + 1
      /\ table' = table /\ held' = held /\ blocks' = blocks /\ kept' = kept /\ file' = file
  BY DEF Call
<1>2. /\ log_fd' = log_fd /\ log_ident' = log_ident /\ ident' = ident
      /\ ctty' = ctty /\ echo' = echo /\ stuck' = stuck
  BY DEF logVars, termVars
<1>3. /\ loc' \in Locals /\ loc'.fun = f /\ loc'.n = l.n /\ loc'.m = l.m /\ loc'.s = l.s
  BY <1>1 DEF Locals
<1>4. ResTypes'
  <2>1. resCalls + 1 \in Nat
    BY DEF ResInv, ResTypes
  <2> QED
    BY <1>1, <1>2, <1>3, <2>1 DEF ResInv, ResTypes
<1>5. Aside'
  BY <1>1, <1>2, <1>3 DEF Aside, LogAside, Bare
<1>6. Named' /\ rpc' \in Bare
  BY <1>1, <1>2, Zenon DEF ResInv, Named
<1>7. InHand = {} /\ Made = 0
  BY <1>1 DEF InHand, Made
<1>8. /\ \A g \in Numbers : table'[g] = Known(g)'
      /\ log_fd' # -1 => held'[log_fd'] = "free"
  BY <1>1, <1>2, <1>7 DEF ResInv, Accounted, Known
<1>9. blocks' = kept'
  BY <1>1, <1>7 DEF ResInv, Accounted, ResTypes
<1>10. file' = Contents
  BY <1>1 DEF ResInv, Filed
<1>11. \A x \in DOMAIN echo' : x \in stuck' \/ echo'[x]
  BY <1>1, <1>2, AllShown
<1> QED
  BY <1>1, <1>3, <1>4, <1>5, <1>6, <1>8, <1>9, <1>10, <1>11, AtBare

(* A call goes on: what has to be shown where the terminals, the log and   *)
(* the file are left alone.                                                *)
LEMMA Onward ==
  ASSUME ResInv, rpc \notin {"read", "pwrite"}, rpc' \in Inner \ {"read", "pwrite"},
         UNCHANGED <<held, kept, termVars, logVars, file, resCalls>>,
         loc' \in Locals, table' \in [Numbers -> FdKinds], Accounted', Ends', Aside', Roomy',
         rpc' \in {"prompt", "echo"} => loc'.n = 0,
         rpc' \in {"prompt", "echo", "newline"} => loc'.m \in Numbers
  PROVE  ResInv'
<1>1. /\ held' = held /\ kept' = kept /\ file' = file /\ resCalls' = resCalls
      /\ log_fd' = log_fd /\ log_ident' = log_ident /\ ident' = ident
      /\ ctty' = ctty /\ echo' = echo /\ stuck' = stuck
  BY DEF logVars, termVars
<1>2. ResTypes'
  BY <1>1 DEF ResInv, ResTypes
<1>3. Shown'
  <2>1. Hidden' = {}
    BY DEF Hidden
  <2>2. \A x \in DOMAIN echo' : x \in stuck' \/ echo'[x]
    BY <1>1, AllShown
  <2> QED
    BY <2>1, <2>2 DEF Shown, Inner
<1>4. Named'
  BY <1>1, Zenon DEF ResInv, Named
<1>5. Filed'
  BY <1>1 DEF ResInv, Filed, Inner
<1> QED
  BY <1>2, <1>3, <1>4, <1>5 DEF ResInv

(* The call has no other descriptors than before. *)
LEMMA SameInHand ==
  ASSUME ResInv, UNCHANGED <<table, held, log_fd>>, InHand' = InHand, blocks' = kept' + Made'
  PROVE  Accounted'
  BY DEF ResInv, Accounted, Known

(* The call has one more: the lowest that was free. *)
LEMMA OneMoreInHand ==
  ASSUME ResInv, NEW f \in Numbers, lowest(table, f), NEW x \in FdKinds \ {"free"},
         table' = Put(table, f, x), InHand' = InHand \cup {f}, UNCHANGED <<held, log_fd>>,
         blocks' = kept' + Made'
  PROVE  /\ Accounted' /\ table' \in [Numbers -> FdKinds] /\ table'[f] = x
         /\ \A g \in Numbers \ {f} : table'[g] = table[g]
<1>1. table \in [Numbers -> FdKinds] /\ InHand \subseteq Numbers
  BY DEF ResInv, ResTypes, Accounted
<1>2. /\ table' \in [Numbers -> FdKinds] /\ table'[f] = x
      /\ \A g \in Numbers \ {f} : table'[g] = table[g]
  BY <1>1 DEF Put
<1>3. f \notin InHand /\ Known(f) = "free"
  BY DEF ResInv, Accounted, lowest
<1>4. \A g \in Numbers : Known(g)' = Known(g)
  BY DEF Known
<1>5. \A g \in Numbers : IF g \in InHand' THEN table'[g] # "free" /\ Known(g)' = "free" ELSE table'[g] = Known(g)'
  <2> SUFFICES ASSUME NEW g \in Numbers
               PROVE  IF g \in InHand' THEN table'[g] # "free" /\ Known(g)' = "free" ELSE table'[g] = Known(g)'
    OBVIOUS
  <2>1. IF g \in InHand THEN table[g] # "free" /\ Known(g) = "free" ELSE table[g] = Known(g)
    BY DEF ResInv, Accounted
  <2> QED
    BY <1>2, <1>3, <1>4, <2>1
<1>6. InHand' \subseteq Numbers /\ (log_fd' # -1 => held'[log_fd'] = "free")
  BY <1>1 DEF ResInv, Accounted
<1> QED
  BY <1>2, <1>5, <1>6 DEF Accounted

(* openpty and forkpty begin with nothing in hand. *)
LEMMA PtyCall == ASSUME ResInv, pty_call PROVE ResInv'
<1>1. PICK f \in {"openpty", "forkpty"} : (f = "forkpty" => LogAside) /\ Call(f, NoLocals)
  BY DEF pty_call
<1>2. f \in Bare \ {"client"} /\ f \notin {"getpass", "scandir", "getifaddrs"} /\ f # "posix_fallocate" /\ f # "daemon"
  BY DEF Bare
<1>3. UNCHANGED <<table, held, blocks, kept, termVars, logVars, file>>
  BY DEF pty_call
<1> QED
  BY <1>1, <1>2, <1>3, NoneLocal, Begun

(* A call fails and leaves the terminals and the log as they were. *)
LEMMA Undone ==
  ASSUME ResInv, NEW b, NEW S, Unwind(b, S), S = InHand, b = kept, UNCHANGED <<termVars, logVars>>,
         file' = Contents, rpc # "read"
  PROVE  ResInv'
<1>1. ctty' \in {"tty", "slave", "none"} /\ UNCHANGED <<echo, stuck>> /\ UNCHANGED logVars
  BY DEF ResInv, ResTypes, termVars
<1> QED
  BY <1>1, Unwound

(* What a place says of the blocks and of the file. *)
LEMMA OfPlace ==
  ASSUME ResInv
  PROVE  /\ blocks = kept + Made /\ kept \in Nat /\ loc \in Locals
         /\ loc.n \in Nat /\ loc.cap \in Nat /\ loc.left \in Nat
         /\ loc.m \in Int /\ loc.s \in Int
         /\ rpc # "pwrite" => file = Contents
<1>1. blocks = kept + Made /\ kept \in Nat /\ loc \in Locals /\ (rpc # "pwrite" => file = Contents)
  BY DEF ResInv, ResTypes, Accounted, Filed
<1> QED
  BY <1>1 DEF Locals

(* posix_openpt: the master is the call's alone, or there is none. *)
LEMMA Openpt == ASSUME ResInv, posix_openpt PROVE ResInv'
<1>1. rpc \in {"openpty", "forkpty"} /\ UNCHANGED <<termVars, logVars, file>>
  BY DEF posix_openpt
<1>2. InHand = {} /\ Made = 0 /\ blocks = kept /\ file = Contents
  <2>1. InHand = {} /\ Made = 0
    BY <1>1 DEF InHand, Made
  <2> QED
    BY <1>1, <2>1, OfPlace
<1>3. CASE Unwind(blocks, {})
  BY <1>1, <1>2, <1>3, Undone
<1>4. ASSUME NEW f \in Numbers, lowest(table, f), table' = Put(table, f, "master"),
             loc' = [loc EXCEPT !.m = f], Enter("grantpt"), UNCHANGED <<held, blocks, kept>>
      PROVE  ResInv'
  <2>1. rpc' = "grantpt" /\ loc' \in Locals /\ loc'.m = f /\ loc'.fun = loc.fun /\ resCalls' = resCalls
    BY <1>4, StdNumbers, OfPlace DEF Enter, Locals
  <2>2. InHand' = InHand \cup {f} /\ Made' = 0
    BY <1>2, <2>1 DEF InHand, Made
  <2>3. log_fd' = log_fd /\ held' = held
    BY <1>1, <1>4 DEF logVars
  <2>4. Accounted' /\ table' \in [Numbers -> FdKinds] /\ table'[f] = "master"
    <3>1. "master" \in FdKinds \ {"free"} /\ blocks' = kept' + Made'
      BY <1>2, <1>4, <2>1, <2>2, OfPlace DEF FdKinds
    <3> QED
      BY <1>4, <2>2, <2>3, <3>1, OneMoreInHand
  <2>5. Aside' /\ Roomy' /\ Ends'
    BY <1>1, <2>1, <2>3, <2>4 DEF ResInv, Aside, Roomy, Ends, LogAside
  <2>6. rpc' \in Inner \ {"read", "pwrite"}
    BY <2>1 DEF Inner
  <2> QED
    BY <1>1, <1>4, <2>1, <2>4, <2>5, <2>6, Onward
<1> QED
  BY <1>3, <1>4 DEF posix_openpt

(* grantpt and unlockpt: on an error the master is closed. *)
LEMMA Grantpt == ASSUME ResInv, grantpt PROVE ResInv'
<1>1. rpc = "grantpt" /\ UNCHANGED <<termVars, logVars, file>>
  BY DEF grantpt
<1>2. InHand = {loc.m} /\ Made = 0 /\ blocks = kept /\ file = Contents
  <2>1. InHand = {loc.m} /\ Made = 0
    BY <1>1 DEF InHand, Made
  <2> QED
    BY <1>1, <2>1, OfPlace
<1>3. CASE Unwind(blocks, {loc.m})
  BY <1>1, <1>2, <1>3, Undone
<1>4. ASSUME blocks' = blocks + 1, loc' = [loc EXCEPT !.cap = 1], Enter("ptsname_r"),
             UNCHANGED <<table, held, kept>>
      PROVE  ResInv'
  <2>1. rpc' = "ptsname_r" /\ loc' \in Locals /\ loc'.m = loc.m /\ loc'.fun = loc.fun /\ resCalls' = resCalls
    BY <1>4, OfPlace DEF Enter, Locals
  <2>2. InHand' = InHand /\ Made' = 1
    BY <1>2, <2>1 DEF InHand, Made
  <2>3. log_fd' = log_fd
    BY <1>1 DEF logVars
  <2>4. Accounted'
    BY <1>2, <1>4, <2>1, <2>2, <2>3, SameInHand
  <2>5. Aside' /\ Roomy' /\ Ends'
    BY <1>1, <1>4, <2>1, <2>3 DEF ResInv, Aside, Roomy, Ends, LogAside
  <2>6. rpc' \in Inner \ {"read", "pwrite"} /\ table' \in [Numbers -> FdKinds]
    BY <1>4, <2>1 DEF Inner, ResInv, ResTypes
  <2> QED
    BY <1>1, <1>4, <2>1, <2>4, <2>5, <2>6, Onward
<1> QED
  BY <1>3, <1>4 DEF grantpt

(* ptsname_r: on an error the buffer goes and the master is closed. *)
LEMMA Ptsname == ASSUME ResInv, ptsname_r PROVE ResInv'
<1>1. rpc = "ptsname_r" /\ UNCHANGED <<termVars, logVars, file>>
  BY DEF ptsname_r
<1>2. InHand = {loc.m} /\ Made = 1
  BY <1>1 DEF InHand, Made
<1>3. blocks = kept + 1 /\ blocks - 1 = kept /\ file = Contents /\ log_fd' = log_fd
  BY <1>1, <1>2, OfPlace DEF logVars
<1>4. CASE PtsFails
  BY <1>1, <1>2, <1>3, <1>4, Undone DEF PtsFails
<1>5. ASSUME rpc' \in {"ptsname_r", "slave"}, loc' \in Locals, loc'.m = loc.m, loc'.fun = loc.fun,
             UNCHANGED <<table, held, blocks, kept, resCalls>>
      PROVE  ResInv'
  <2>1. InHand' = InHand /\ Made' = 1
    BY <1>2, <1>5 DEF InHand, Made
  <2>2. Accounted'
    BY <1>3, <1>5, <2>1, SameInHand
  <2>3. Aside' /\ Roomy' /\ Ends'
    BY <1>1, <1>3, <1>5 DEF ResInv, Aside, Roomy, Ends, LogAside
  <2>4. rpc' \in Inner \ {"read", "pwrite"} /\ table' \in [Numbers -> FdKinds]
    BY <1>5 DEF Inner, ResInv, ResTypes
  <2> QED
    BY <1>1, <1>5, <2>2, <2>3, <2>4, Onward
<1>6. CASE /\ loc.cap * 2 <= MaxCap /\ loc' = [loc EXCEPT !.cap = @ * 2]
           /\ UNCHANGED rpc /\ UNCHANGED <<table, held, blocks, kept, resCalls>>
  <2>1. loc' \in Locals /\ loc'.m = loc.m /\ loc'.fun = loc.fun
    BY <1>6, OfPlace DEF Locals
  <2> QED
    BY <1>1, <1>5, <1>6, <2>1
<1>7. CASE Enter("slave") /\ UNCHANGED <<table, held, blocks, kept, loc>>
  BY <1>5, <1>7, OfPlace DEF Enter
<1> QED
  BY <1>4, <1>6, <1>7 DEF ptsname_r

(* The slave is opened: both ends go to the client, or on to the fork. *)
LEMMA OpenSlave == ASSUME ResInv, do_openpty PROVE ResInv'
<1>1. rpc = "slave" /\ UNCHANGED <<termVars, logVars, file>>
  BY DEF do_openpty
<1>2. InHand = {loc.m} /\ Made = 1 /\ table[loc.m] = "master" /\ loc.m \in Numbers
  <2>1. InHand = {loc.m} /\ Made = 1 /\ table[loc.m] = "master"
    BY <1>1 DEF ResInv, Ends, InHand, Made
  <2> QED
    BY <2>1 DEF ResInv, Accounted
<1>3. /\ blocks = kept + 1 /\ blocks - 1 = kept /\ kept \in Nat /\ file = Contents
      /\ log_fd' = log_fd /\ UNCHANGED <<echo, stuck>> /\ ctty' \in {"tty", "slave", "none"}
  BY <1>1, <1>2, OfPlace DEF logVars, termVars, ResInv, ResTypes
<1>4. CASE PtsFails
  BY <1>1, <1>2, <1>3, <1>4, Undone DEF PtsFails
<1>5. ASSUME NEW f \in Numbers, lowest(table, f)
      PROVE  f # loc.m /\ f # log_fd /\ loc.m # log_fd /\ held \in [Numbers -> FdKinds] /\ table \in [Numbers -> FdKinds]
  BY <1>2, <1>5 DEF ResInv, ResTypes, Accounted, Known, lowest
<1>6. ASSUME NEW f \in Numbers, lowest(table, f),
             Leave(Put(table, f, "slave"), blocks - 1, Put(Put(held, loc.m, "master"), f, "slave"), 0)
      PROVE  ResInv'
  <2> DEFINE t == Put(table, f, "slave")
             h == Put(Put(held, loc.m, "master"), f, "slave")
  <2>1. t \in [Numbers -> FdKinds] /\ h \in [Numbers -> FdKinds]
    BY <1>2, <1>5, <1>6 DEF Put, FdKinds
  <2>2. \A g \in Numbers : t[g] = IF g = log_fd THEN "log" ELSE h[g]
    <3> SUFFICES ASSUME NEW g \in Numbers PROVE t[g] = IF g = log_fd THEN "log" ELSE h[g]
      OBVIOUS
    <3>1. /\ t[g] = IF g = f THEN "slave" ELSE table[g]
          /\ h[g] = IF g = f THEN "slave" ELSE IF g = loc.m THEN "master" ELSE held[g]
      BY <1>2, <1>5, <1>6 DEF Put
    <3>2. g # loc.m => table[g] = IF g = log_fd THEN "log" ELSE held[g]
      BY <1>2 DEF ResInv, Accounted, Known
    <3> QED
      BY <1>2, <1>5, <1>6, <3>1, <3>2
  <2>3. log_fd # -1 => h[log_fd] = "free"
    <3>1. log_fd # -1 => log_fd \in Numbers /\ held[log_fd] = "free"
      BY DEF ResInv, ResTypes, Accounted
    <3> QED
      BY <1>2, <1>5, <1>6, <3>1 DEF Put
  <2>4. Leave(t, blocks - 1, h, 0) /\ blocks - 1 = kept + 0 /\ 0 \in Nat
    BY <1>3, <1>6
  <2> HIDE DEF t, h
  <2> QED
    BY <1>1, <1>3, <2>1, <2>2, <2>3, <2>4, Ended
<1>7. ASSUME NEW f \in Numbers, lowest(table, f), loc.fun # "openpty",
             table' = Put(table, f, "slave"), blocks' = blocks - 1, loc' = [loc EXCEPT !.s = f],
             Enter("fork"), UNCHANGED <<held, kept>>
      PROVE  ResInv'
  <2>1. /\ rpc' = "fork" /\ loc' \in Locals /\ loc'.m = loc.m /\ loc'.s = f /\ loc'.fun = loc.fun
        /\ resCalls' = resCalls
    BY <1>7, StdNumbers, OfPlace DEF Enter, Locals
  <2>2. InHand' = InHand \cup {f} /\ Made' = 0
    BY <1>2, <2>1 DEF InHand, Made
  <2>3. "slave" \in FdKinds \ {"free"} /\ blocks' = kept' + Made' /\ held' = held
    BY <1>3, <1>7, <2>2 DEF FdKinds
  <2>4. /\ Accounted' /\ table' \in [Numbers -> FdKinds] /\ table'[f] = "slave"
        /\ \A g \in Numbers \ {f} : table'[g] = table[g]
    BY <1>3, <1>7, <2>2, <2>3, OneMoreInHand
  <2>5. Ends'
    BY <1>2, <1>5, <1>7, <2>1, <2>4 DEF Ends
  <2>6. Aside' /\ Roomy'
    BY <1>1, <1>3, <1>7, <2>1 DEF ResInv, Aside, Roomy, LogAside
  <2>7. rpc' \in Inner \ {"read", "pwrite"}
    BY <2>1 DEF Inner
  <2> QED
    BY <1>1, <1>7, <2>1, <2>4, <2>5, <2>6, <2>7, Onward
<1> QED
  BY <1>4, <1>6, <1>7 DEF do_openpty

(* dup2 onto 0, 1 and 2. *)
LEMMA OntoStdIs ==
  ASSUME NEW t \in [Numbers -> FdKinds], NEW f \in Numbers
  PROVE  /\ OntoStd(t, f) \in [Numbers -> FdKinds]
         /\ \A g \in Numbers : OntoStd(t, f)[g] = IF g \in Std THEN t[f] ELSE IF g = f THEN "free" ELSE t[g]
<1>1. (f > 2 <=> f \notin Std) /\ "free" \in FdKinds
  BY StdNumbers, ResourcesAssumption DEF Std, Numbers, FdKinds
<1> DEFINE u == [g \in Numbers |-> IF g \in Std THEN t[f] ELSE t[g]]
<1>2. u \in [Numbers -> FdKinds] /\ OntoStd(t, f) = IF f > 2 THEN Put(u, f, "free") ELSE u
  BY DEF OntoStd
<1>3. \A g \in Numbers : u[g] = IF g \in Std THEN t[f] ELSE t[g]
  OBVIOUS
<1> HIDE DEF u
<1>4. CASE f > 2
  BY <1>1, <1>2, <1>3, <1>4 DEF Put
<1>5. CASE ~(f > 2)
  BY <1>1, <1>2, <1>3, <1>5
<1> QED
  BY <1>4, <1>5

(* A call ends after it has put something onto 0, 1 and 2. *)
LEMMA OntoStdEnds ==
  ASSUME ResInv, NEW t \in [Numbers -> FdKinds], NEW x \in FdKinds, LogAside, rpc \notin {"read", "pwrite"},
         \A g \in Numbers : t[g] = IF g \in Std THEN x ELSE Known(g),
         Leave(t, blocks, [g \in Numbers |-> IF g \in Std THEN x ELSE held[g]], 0), blocks = kept,
         UNCHANGED <<echo, stuck, logVars, file>>, ctty' \in {"tty", "slave", "none"}
  PROVE  ResInv'
<1> DEFINE h == [g \in Numbers |-> IF g \in Std THEN x ELSE held[g]]
<1>1. h \in [Numbers -> FdKinds] /\ \A g \in Numbers : h[g] = IF g \in Std THEN x ELSE held[g]
  BY DEF ResInv, ResTypes
<1>2. Leave(t, blocks, h, 0)
  OBVIOUS
<1> HIDE DEF h
<1>3. log_fd \notin Std /\ (log_fd # -1 => log_fd \in Numbers /\ held[log_fd] = "free")
  BY DEF LogAside, ResInv, ResTypes, Accounted
<1>4. \A g \in Numbers : t[g] = IF g = log_fd THEN "log" ELSE h[g]
  BY <1>1, <1>3 DEF Known
<1>5. log_fd # -1 => h[log_fd] = "free"
  BY <1>1, <1>3
<1>6. blocks = kept + 0 /\ 0 \in Nat /\ file' = Contents /\ UNCHANGED logVars /\ UNCHANGED <<echo, stuck>>
  BY OfPlace
<1> QED
  BY <1>1, <1>2, <1>4, <1>5, <1>6, Ended

(* What forkpty has in hand when it forks. *)
LEMMA AtFork ==
  ASSUME ResInv, rpc = "fork"
  PROVE  /\ InHand = {loc.m, loc.s} /\ blocks = kept /\ kept \in Nat /\ file = Contents /\ LogAside
         /\ loc.m \in Numbers /\ loc.s \in Numbers /\ table[loc.m] = "master" /\ table[loc.s] = "slave"
         /\ loc.m # log_fd /\ loc.s # log_fd /\ held[loc.m] = "free" /\ held[loc.s] = "free"
         /\ table \in [Numbers -> FdKinds] /\ held \in [Numbers -> FdKinds]
         /\ \A g \in Numbers \ {loc.m, loc.s} : table[g] = Known(g)
<1>1. InHand = {loc.m, loc.s} /\ Made = 0
  BY DEF InHand, Made
<1>2. blocks = kept /\ kept \in Nat /\ file = Contents
  BY <1>1, OfPlace
<1>3. /\ table \in [Numbers -> FdKinds] /\ held \in [Numbers -> FdKinds] /\ LogAside
      /\ table[loc.m] = "master" /\ table[loc.s] = "slave"
  BY DEF ResInv, ResTypes, Aside, Ends
<1>4. /\ loc.m \in Numbers /\ loc.s \in Numbers /\ Known(loc.m) = "free" /\ Known(loc.s) = "free"
      /\ \A g \in Numbers \ {loc.m, loc.s} : table[g] = Known(g)
  BY <1>1 DEF ResInv, Accounted
<1> QED
  BY <1>1, <1>2, <1>3, <1>4 DEF Known

(* The parent of forkpty keeps the master, or neither end. *)
LEMMA ForkParent == ASSUME ResInv, forkpty_parent PROVE ResInv'
<1>1. rpc = "fork" /\ UNCHANGED <<termVars, logVars, file>>
  BY DEF forkpty_parent
<1>2. CASE Unwind(blocks, {loc.m, loc.s})
  BY <1>1, <1>2, AtFork, Undone
<1>3. CASE Leave(Drop(table, {loc.s}), blocks, Put(held, loc.m, "master"), 0)
  <2> DEFINE t == Drop(table, {loc.s})
             h == Put(held, loc.m, "master")
  <2>1. /\ t \in [Numbers -> FdKinds] /\ h \in [Numbers -> FdKinds]
        /\ \A g \in Numbers : t[g] = IF g = loc.s THEN "free" ELSE table[g]
        /\ \A g \in Numbers : h[g] = IF g = loc.m THEN "master" ELSE held[g]
    BY <1>1, AtFork DEF Drop, Put, FdKinds
  <2>2. Leave(t, blocks, h, 0)
    BY <1>3
  <2> HIDE DEF t, h
  <2>3. \A g \in Numbers : t[g] = IF g = log_fd THEN "log" ELSE h[g]
    BY <1>1, <2>1, AtFork DEF Known
  <2>4. log_fd # -1 => h[log_fd] = "free"
    <3>1. log_fd # -1 => log_fd \in Numbers /\ held[log_fd] = "free"
      BY DEF ResInv, ResTypes, Accounted
    <3> QED
      BY <1>1, <2>1, <3>1, AtFork
  <2>5. /\ blocks = kept + 0 /\ 0 \in Nat /\ file' = Contents /\ UNCHANGED logVars
        /\ UNCHANGED <<echo, stuck>> /\ ctty' \in {"tty", "slave", "none"}
    BY <1>1, AtFork DEF termVars, ResInv, ResTypes
  <2> QED
    BY <1>1, <2>1, <2>2, <2>3, <2>4, <2>5, Ended
<1> QED
  BY <1>2, <1>3 DEF forkpty_parent

(* The child of forkpty has the slave on 0, 1 and 2 and nowhere else. *)
LEMMA ForkChild == ASSUME ResInv, forkpty_child PROVE ResInv'
<1>1. /\ rpc = "fork" /\ ctty' \in {"slave", "none", ctty} /\ UNCHANGED <<echo, stuck, logVars, file>>
      /\ Leave(OntoStd(Drop(table, {loc.m}), loc.s), blocks,
               [f \in Numbers |-> IF f \in Std THEN "slave" ELSE held[f]], 0)
  BY DEF forkpty_child
<1> DEFINE d == Drop(table, {loc.m})
<1>2. d \in [Numbers -> FdKinds] /\ \A g \in Numbers : d[g] = IF g = loc.m THEN "free" ELSE table[g]
  BY <1>1, AtFork DEF Drop, FdKinds
<1> HIDE DEF d
<1> DEFINE t == OntoStd(d, loc.s)
<1>3. /\ t \in [Numbers -> FdKinds]
      /\ \A g \in Numbers : t[g] = IF g \in Std THEN d[loc.s] ELSE IF g = loc.s THEN "free" ELSE d[g]
  BY <1>1, <1>2, AtFork, OntoStdIs
<1>4. Leave(t, blocks, [g \in Numbers |-> IF g \in Std THEN "slave" ELSE held[g]], 0)
  BY <1>1 DEF d
<1> HIDE DEF t
<1>5. \A g \in Numbers : t[g] = IF g \in Std THEN "slave" ELSE Known(g)
  BY <1>1, <1>2, <1>3, AtFork DEF Known
<1>6. "slave" \in FdKinds /\ ctty' \in {"tty", "slave", "none"}
  BY <1>1 DEF FdKinds, ResInv, ResTypes
<1> QED
  BY <1>1, <1>3, <1>4, <1>5, <1>6, AtFork, OntoStdEnds

(* daemon begins with nothing in hand. *)
LEMMA DaemonCall == ASSUME ResInv, NEW f \in {"daemon", "daemon_noclose"}, daemon(f) PROVE ResInv'
<1>1. f \in Bare \ {"client"} /\ f \notin {"getpass", "scandir", "getifaddrs"} /\ f # "posix_fallocate" /\ f # "forkpty"
  BY DEF Bare
<1>2. /\ Call(f, NoLocals) /\ UNCHANGED <<table, held, blocks, kept, termVars, logVars, file>>
      /\ f = "daemon" => LogAside
  BY DEF daemon
<1> QED
  BY <1>1, <1>2, NoneLocal, Begun

(* At a place at which nothing is made yet, the client knows of all. *)
LEMMA NothingMade ==
  ASSUME ResInv, rpc \in Bare
  PROVE  InHand = {} /\ Made = 0 /\ blocks = kept /\ kept \in Nat /\ file = Contents /\ rpc \notin Inner
<1>1. rpc \notin Inner
  BY DEF Bare, Inner
<1>2. InHand = {} /\ Made = 0
  BY <1>1 DEF InHand, Made, Inner
<1> QED
  BY <1>1, <1>2, OfPlace DEF Inner

(* daemon ends with what it began with, or /dev/null on 0, 1 and 2. *)
LEMMA Daemon == ASSUME ResInv, daemon_fails \/ daemon_child PROVE ResInv'
<1>1. /\ rpc \in {"daemon", "daemon_noclose"} /\ rpc \in Bare /\ ctty' \in {"tty", "slave", "none"}
      /\ UNCHANGED <<echo, stuck, logVars, file>> /\ UNCHANGED logVars /\ UNCHANGED <<echo, stuck>>
  BY DEF daemon_fails, daemon_child, Bare, ResInv, ResTypes
<1>2. InHand = {} /\ blocks = kept /\ kept \in Nat /\ file' = Contents
  BY <1>1, NothingMade
<1>3. CASE Unwind(blocks, {})
  BY <1>1, <1>2, <1>3, Unwound
<1>4. ASSUME NEW f \in Numbers, rpc = "daemon", lowest(table, f),
             Leave(OntoStd(Put(table, f, "null"), f), blocks,
                   [g \in Numbers |-> IF g \in Std THEN "null" ELSE held[g]], 0)
      PROVE  ResInv'
  <2> DEFINE d == Put(table, f, "null")
  <2>1. d \in [Numbers -> FdKinds] /\ \A g \in Numbers : d[g] = IF g = f THEN "null" ELSE table[g]
    BY DEF Put, FdKinds, ResInv, ResTypes
  <2> HIDE DEF d
  <2> DEFINE t == OntoStd(d, f)
  <2>2. /\ t \in [Numbers -> FdKinds]
        /\ \A g \in Numbers : t[g] = IF g \in Std THEN d[f] ELSE IF g = f THEN "free" ELSE d[g]
    BY <2>1, OntoStdIs
  <2>3. Leave(t, blocks, [g \in Numbers |-> IF g \in Std THEN "null" ELSE held[g]], 0)
    BY <1>4 DEF d
  <2> HIDE DEF t
  <2>4. table[f] = "free" /\ \A g \in Numbers : table[g] = Known(g)
    BY <1>2, <1>4 DEF lowest, ResInv, Accounted
  <2>5. \A g \in Numbers : t[g] = IF g \in Std THEN "null" ELSE Known(g)
    BY <2>1, <2>2, <2>4
  <2>6. "null" \in FdKinds /\ LogAside
    BY <1>4 DEF FdKinds, ResInv, Aside
  <2> QED
    BY <1>1, <1>2, <1>4, <2>2, <2>3, <2>5, <2>6, OntoStdEnds
<1>5. CASE daemon_fails
  BY <1>3, <1>5 DEF daemon_fails
<1>6. CASE daemon_child
  BY <1>3, <1>4, <1>6, Zenon DEF daemon_child
<1> QED
  BY <1>5, <1>6

(* getpass begins with nothing in hand. *)
LEMMA GetpassCall == ASSUME ResInv, getpass PROVE ResInv'
<1>1. "getpass" \in Bare \ {"client"} /\ NoLocals.n = 0
  BY NoneLocal DEF Bare
<1>2. Call("getpass", NoLocals) /\ UNCHANGED <<table, held, blocks, kept, termVars, logVars, file>>
  BY DEF getpass
<1> QED
  BY <1>1, <1>2, NoneLocal, Begun

(* getpass opens the terminal, or reads from 0 and writes to 2. *)
LEMMA GetpassOpen == ASSUME ResInv, getpass_open PROVE ResInv'
<1>1. /\ rpc = "getpass" /\ rpc \in Bare /\ rpc' = "prompt" /\ UNCHANGED <<held, blocks, kept, resCalls>>
      /\ UNCHANGED <<termVars, logVars, file>> /\ log_fd' = log_fd /\ loc.n = 0 /\ loc \in Locals
  <2>1. rpc = "getpass" /\ Enter("prompt") /\ UNCHANGED <<held, blocks, kept, termVars, logVars, file>>
    BY Zenon DEF getpass_open
  <2>2. loc.n = 0 /\ rpc \in Bare
    BY <2>1 DEF ResInv, Shown, Bare
  <2> QED
    BY <2>1, <2>2, OfPlace DEF Enter, logVars
<1>2. InHand = {} /\ blocks = kept /\ kept \in Nat
  BY <1>1, NothingMade
<1>3. Made' = 0 /\ blocks' = kept' + Made'
  <2>1. Made' = 0
    BY <1>1 DEF Made
  <2> QED
    BY <1>1, <1>2, <2>1
<1>4. Ends' /\ Aside' /\ Roomy' /\ rpc' \in Inner \ {"read", "pwrite"}
  BY <1>1 DEF Ends, Aside, Roomy, Inner
<1>5. ASSUME NEW f \in Numbers, lowest(table, f), ctty # "none", table' = Put(table, f, ctty),
             loc' = [loc EXCEPT !.m = f, !.s = f]
      PROVE  ResInv'
  <2>1. loc' \in Locals /\ loc'.m = f /\ loc'.s = f /\ loc'.n = 0
    <3>1. f \in Int
      BY StdNumbers
    <3>2. loc \in Locals /\ loc' = [loc EXCEPT !.m = f, !.s = f] /\ loc.n = 0
      BY <1>1, <1>5, Zenon
    <3> QED
      BY <3>1, <3>2, Zenon DEF Locals
  <2>2. InHand' = InHand \cup {f}
    BY <1>1, <1>2, <2>1 DEF InHand, need_close
  <2>3. ctty \in FdKinds \ {"free"}
    BY <1>5 DEF ResInv, ResTypes, FdKinds
  <2>4. Accounted' /\ table' \in [Numbers -> FdKinds]
    BY <1>1, <1>3, <1>5, <2>2, <2>3, OneMoreInHand
  <2> QED
    BY <1>1, <1>4, <2>1, <2>4, Onward
<1>6. ASSUME loc' = [loc EXCEPT !.m = 0, !.s = 2], UNCHANGED table
      PROVE  ResInv'
  <2>1. loc' \in Locals /\ loc'.m = 0 /\ loc'.s = 2 /\ loc'.n = 0 /\ 0 \in Numbers
    <3>1. 0 \in Int /\ 2 \in Int /\ 0 \in Numbers
      BY ResourcesAssumption DEF Numbers
    <3>2. loc \in Locals /\ loc' = [loc EXCEPT !.m = 0, !.s = 2] /\ loc.n = 0
      BY <1>1, <1>6, Zenon
    <3> QED
      BY <3>1, <3>2, Zenon DEF Locals
  <2>2. InHand' = InHand
    BY <1>1, <1>2, <2>1 DEF InHand, need_close
  <2>3. Accounted'
    BY <1>1, <1>3, <1>6, <2>2, SameInHand
  <2>4. table' \in [Numbers -> FdKinds]
    BY <1>6 DEF ResInv, ResTypes
  <2> QED
    BY <1>1, <1>4, <2>1, <2>3, <2>4, Onward
<1> QED
  BY <1>5, <1>6, Zenon DEF getpass_open

(* What getpass has in hand. *)
LEMMA AtGetpass ==
  ASSUME ResInv, rpc \in {"prompt", "echo", "read", "newline"}
  PROVE  /\ InHand = need_close /\ Made = 0 /\ blocks = kept /\ kept \in Nat /\ file = Contents
         /\ loc \in Locals /\ loc.m \in Numbers /\ (rpc \in {"prompt", "echo"} => loc.n = 0)
<1>1. InHand = need_close /\ Made = 0
  BY DEF InHand, Made
<1>2. loc.m \in Numbers /\ (rpc \in {"prompt", "echo"} => loc.n = 0)
  BY DEF ResInv, Shown
<1> QED
  BY <1>1, <1>2, OfPlace

(* getpass closes the terminal on every way out. *)
LEMMA GetpassWrite == ASSUME ResInv, getpass_prompt \/ getpass_newline PROVE ResInv'
<1>1. rpc \in {"prompt", "newline"} /\ UNCHANGED <<termVars, logVars, file>> /\ UNCHANGED <<termVars, logVars>>
  BY DEF getpass_prompt, getpass_newline
<1>2. CASE Unwind(blocks, need_close)
  BY <1>1, <1>2, AtGetpass, Undone
<1>3. ASSUME rpc = "prompt", Enter("echo"), UNCHANGED <<table, held, blocks, kept, loc>>
      PROVE  ResInv'
  <2>1. rpc' = "echo" /\ resCalls' = resCalls /\ loc' = loc /\ log_fd' = log_fd
    BY <1>1, <1>3 DEF Enter, logVars
  <2>2. need_close' = need_close
    BY <2>1 DEF need_close
  <2>3. InHand' = InHand /\ Made' = 0
    BY <1>3, <2>1, <2>2, AtGetpass DEF InHand, Made
  <2>4. Accounted'
    BY <1>3, <2>1, <2>3, AtGetpass, SameInHand
  <2>5. Ends' /\ Aside' /\ Roomy' /\ rpc' \in Inner \ {"read", "pwrite"} /\ table' \in [Numbers -> FdKinds]
    BY <1>3, <2>1 DEF Ends, Aside, Roomy, Inner, ResInv, ResTypes
  <2> QED
    BY <1>1, <1>3, <2>1, <2>4, <2>5, AtGetpass, Onward
<1> QED
  BY <1>2, <1>3 DEF getpass_prompt, getpass_newline

(* A step of getpass in which only the terminal and the locals change. *)
LEMMA GetpassGoesOn ==
  ASSUME ResInv, rpc \in {"echo", "read"}, rpc' \in {"read", "newline"},
         UNCHANGED <<table, held, blocks, kept, ctty, logVars, file, resCalls>>,
         loc' \in Locals, loc'.m = loc.m, loc'.s = loc.s, echo' \in [{"tty", "slave"} -> BOOLEAN],
         \A x \in DOMAIN echo' \ Hidden' : x \in stuck' \/ echo'[x],
         \A x \in Hidden' : x \in DOMAIN echo' /\ (x \in stuck' \/ loc'.cap = 1)
  PROVE  ResInv'
<1>1. log_fd' = log_fd /\ log_ident' = log_ident /\ ident' = ident
  BY DEF logVars
<1>2. ResTypes'
  BY <1>1 DEF ResInv, ResTypes, Inner
<1>3. Accounted'
  <2>1. need_close' = need_close
    BY DEF need_close
  <2>2. InHand' = InHand /\ Made' = 0
    BY <2>1, AtGetpass DEF InHand, Made
  <2> QED
    BY <1>1, <2>2, AtGetpass, SameInHand
<1>4. Shown'
  BY AtGetpass DEF Shown
<1>5. Ends' /\ Aside' /\ Roomy'
  BY DEF Ends, Aside, Roomy
<1>6. Named' /\ Filed'
  BY <1>1, AtGetpass, Zenon DEF ResInv, Named, Filed
<1> QED
  BY <1>2, <1>3, <1>4, <1>5, <1>6 DEF ResInv

(* getpass notes whether the echo was on before it is turned off. *)
LEMMA GetpassEcho == ASSUME ResInv, getpass_echo PROVE ResInv'
<1> DEFINE x == Terminal(table[loc.m])
<1>1. /\ rpc = "echo" /\ rpc' = "read" /\ UNCHANGED <<table, held, blocks, kept, ctty, logVars, file, resCalls>>
      /\ table' = table /\ stuck' = stuck
  BY Zenon DEF getpass_echo, Enter
<1>2. /\ loc \in Locals /\ loc.n = 0 /\ loc.m \in Numbers /\ echo \in [{"tty", "slave"} -> BOOLEAN]
      /\ \A y \in DOMAIN echo : y \in stuck \/ echo[y]
  BY <1>1, AtGetpass, AllShown DEF ResInv, ResTypes
<1>3. ASSUME isatty(loc.m), echo' \in {echo, Put(echo, x, FALSE)},
             loc' = [loc EXCEPT !.n = 1, !.cap = IF echo[x] THEN 1 ELSE 0]
      PROVE  ResInv'
  <2> DEFINE c == IF echo[x] THEN 1 ELSE 0
  <2>1. c \in Nat /\ (echo[x] => c = 1)
    OBVIOUS
  <2>2. loc \in Locals /\ loc' = [loc EXCEPT !.n = 1, !.cap = c] /\ 1 \in Nat
    BY <1>2, <1>3
  <2>3. x \in DOMAIN echo
    BY <1>3 DEF isatty
  <2> HIDE DEF c
  <2>4. loc' \in Locals /\ loc'.m = loc.m /\ loc'.s = loc.s /\ loc'.n = 1 /\ loc'.cap = c
    BY <2>1, <2>2, Zenon DEF Locals
  <2>5. Hidden' = {x}
    BY <1>1, <2>4 DEF Hidden
  <2> HIDE DEF x
  <2>6. /\ echo' \in [{"tty", "slave"} -> BOOLEAN] /\ DOMAIN echo' = DOMAIN echo
        /\ \A y \in DOMAIN echo \ {x} : echo'[y] = echo[y]
    BY <1>2, <1>3, <2>3, Zenon DEF Put
  <2>7. \A y \in DOMAIN echo' \ Hidden' : y \in stuck' \/ echo'[y]
    BY <1>1, <1>2, <2>5, <2>6
  <2>8. \A y \in Hidden' : y \in DOMAIN echo' /\ (y \in stuck' \/ loc'.cap = 1)
    BY <1>1, <1>2, <2>1, <2>3, <2>4, <2>5, <2>6
  <2> QED
    BY <1>1, <2>4, <2>6, <2>7, <2>8, GetpassGoesOn
<1>4. ASSUME UNCHANGED <<echo, loc>>
      PROVE  ResInv'
  <2>1. Hidden' = {}
    BY <1>2, <1>4 DEF Hidden
  <2> QED
    BY <1>1, <1>2, <1>4, <2>1, GetpassGoesOn
<1> QED
  BY <1>3, <1>4, Zenon DEF getpass_echo

(* The echo is as it was, or its restoring failed. *)
LEMMA GetpassRestore == ASSUME ResInv, getpass_restore PROVE ResInv'
<1> DEFINE x == Terminal(table[loc.m])
<1>1. /\ rpc = "read" /\ rpc' = "newline" /\ UNCHANGED <<table, held, blocks, kept, ctty, logVars, file, resCalls>>
      /\ loc' = loc
  BY Zenon DEF getpass_restore, Enter
<1>2. /\ loc \in Locals /\ echo \in [{"tty", "slave"} -> BOOLEAN] /\ Hidden' = {}
      /\ Hidden = IF loc.n = 0 THEN {} ELSE {x}
  BY <1>1, AtGetpass DEF ResInv, ResTypes, Hidden
<1>3. /\ \A y \in DOMAIN echo \ Hidden : y \in stuck \/ echo[y]
      /\ \A y \in Hidden : y \in DOMAIN echo /\ (y \in stuck \/ loc.cap = 1)
  BY DEF ResInv, Shown
<1> HIDE DEF x
<1>4. ASSUME echo' \in [{"tty", "slave"} -> BOOLEAN], \A y \in DOMAIN echo' : y \in stuck' \/ echo'[y]
      PROVE  ResInv'
  BY <1>1, <1>2, <1>4, GetpassGoesOn
<1>5. CASE loc.n = 0 /\ UNCHANGED <<echo, stuck>>
  BY <1>2, <1>3, <1>4, <1>5
<1>6. CASE loc.n # 0 /\ echo' = Put(echo, x, loc.cap = 1) /\ UNCHANGED stuck
  <2>1. /\ x \in DOMAIN echo /\ (x \in stuck \/ loc.cap = 1)
        /\ \A y \in DOMAIN echo \ {x} : y \in stuck \/ echo[y]
    BY <1>2, <1>3, <1>6
  <2>2. (loc.cap = 1) \in BOOLEAN
    OBVIOUS
  <2>3. /\ echo' \in [{"tty", "slave"} -> BOOLEAN] /\ echo'[x] = (loc.cap = 1)
        /\ \A y \in DOMAIN echo \ {x} : echo'[y] = echo[y]
    BY <1>2, <1>6, <2>1, <2>2, Zenon DEF Put
  <2>4. DOMAIN echo' = DOMAIN echo /\ stuck' = stuck
    BY <1>2, <1>6, <2>3
  <2> QED
    BY <1>4, <2>1, <2>3, <2>4, Zenon
<1>7. CASE loc.n # 0 /\ UNCHANGED echo /\ stuck' = stuck \cup {x}
  BY <1>2, <1>3, <1>4, <1>7
<1> QED
  BY <1>5, <1>6, <1>7, Zenon DEF getpass_restore, x

(* What the client knows of between calls. *)
LEMMA AtClient ==
  ASSUME ResInv, rpc = "client"
  PROVE  /\ blocks = kept /\ kept \in Nat /\ file = Contents /\ loc \in Locals
         /\ table \in [Numbers -> FdKinds] /\ held \in [Numbers -> FdKinds]
         /\ \A g \in Numbers : table[g] = Known(g)
         /\ log_fd \in Numbers \cup {-1} /\ (log_fd # -1 => held[log_fd] = "free")
         /\ \A x \in DOMAIN echo : x \in stuck \/ echo[x]
         /\ resCalls \in Nat /\ resCalls + 1 \in Nat
<1>1. rpc \in Bare
  BY DEF Bare
<1>2. blocks = kept /\ kept \in Nat /\ file = Contents /\ loc \in Locals /\ InHand = {}
  BY <1>1, NothingMade, OfPlace
<1>3. \A x \in DOMAIN echo : x \in stuck \/ echo[x]
  BY AllShown
<1>4. /\ table \in [Numbers -> FdKinds] /\ held \in [Numbers -> FdKinds]
      /\ log_fd \in Numbers \cup {-1} /\ resCalls \in Nat
  BY DEF ResInv, ResTypes
<1>5. (\A g \in Numbers : table[g] = Known(g)) /\ (log_fd # -1 => held[log_fd] = "free")
  BY <1>2 DEF ResInv, Accounted
<1> QED
  BY <1>2, <1>3, <1>4, <1>5

(* A step from the client that changes the log or its own descriptors. *)
LEMMA ClientGoesOn ==
  ASSUME ResInv, rpc = "client", rpc' \in {"client", "vsyslog"}, loc' \in Locals, resCalls' \in Nat,
         UNCHANGED <<termVars, file>>, blocks' = kept', kept' \in Nat,
         table' \in [Numbers -> FdKinds], held' \in [Numbers -> FdKinds], log_fd' \in Numbers \cup {-1},
         \A g \in Numbers : table'[g] = Known(g)', log_fd' # -1 => held'[log_fd'] = "free", Named'
  PROVE  ResInv'
<1>1. ctty' = ctty /\ echo' = echo /\ stuck' = stuck /\ file' = file
  BY DEF termVars
<1>2. rpc' \in Bare /\ Aside'
  BY DEF Bare, Aside
<1>3. ResTypes'
  BY <1>1, <1>2 DEF ResInv, ResTypes
<1>4. \A x \in DOMAIN echo' : x \in stuck' \/ echo'[x]
  BY <1>1, AtClient
<1>5. file' = Contents /\ rpc' \notin {"getpass", "scandir", "getifaddrs"} /\ rpc' # "posix_fallocate"
  BY <1>1, AtClient
<1> QED
  BY <1>2, <1>3, <1>4, <1>5, AtBare

(* Without the log's socket there are the client's descriptors. *)
LEMMA ClosedIs ==
  ASSUME ResInv, rpc = "client"
  PROVE  Closed \in [Numbers -> FdKinds] /\ \A g \in Numbers : Closed[g] = held[g]
<1>1. CASE log_fd = -1
  <2>1. Closed = table
    BY <1>1 DEF Closed
  <2> QED
    BY <1>1, <2>1, AtClient, StdNumbers DEF Known
<1>2. CASE log_fd # -1
  <2>1. Closed = Put(table, log_fd, "free") /\ log_fd \in Numbers /\ "free" \in FdKinds
    BY <1>2, AtClient DEF Closed, FdKinds
  <2>2. Closed \in [Numbers -> FdKinds] /\ \A g \in Numbers : Closed[g] = IF g = log_fd THEN "free" ELSE table[g]
    BY <2>1, AtClient DEF Put
  <2> QED
    BY <1>2, <2>2, AtClient DEF Known
<1> QED
  BY <1>1, <1>2

(* What openlog makes of the descriptors. *)
LEMMA Reopened ==
  ASSUME ResInv, rpc = "client", NEW id, Reopen(id), held' = held
  PROVE  /\ log_ident' = id /\ table' \in [Numbers -> FdKinds] /\ log_fd' \in Numbers \cup {-1}
         /\ \A g \in Numbers : table'[g] = Known(g)'
         /\ log_fd' # -1 => held'[log_fd'] = "free"
<1>1. log_ident' = id
  BY DEF Reopen
<1>2. CASE log_fd' = -1 /\ table' = Closed
  BY <1>1, <1>2, ClosedIs, StdNumbers DEF Known
<1>3. ASSUME NEW f \in Numbers, lowest(Closed, f), log_fd' = f, table' = Put(Closed, f, "log")
      PROVE  /\ table' \in [Numbers -> FdKinds] /\ log_fd' \in Numbers \cup {-1}
             /\ \A g \in Numbers : table'[g] = Known(g)'
             /\ log_fd' # -1 => held'[log_fd'] = "free"
  <2>1. held[f] = "free" /\ "log" \in FdKinds
    BY <1>3, ClosedIs DEF lowest, FdKinds
  <2>2. table' \in [Numbers -> FdKinds] /\ \A g \in Numbers : table'[g] = IF g = f THEN "log" ELSE held[g]
    BY <1>3, <2>1, ClosedIs DEF Put
  <2> QED
    BY <1>3, <2>1, <2>2 DEF Known
<1> QED
  BY <1>1, <1>2, <1>3 DEF Reopen

(* openlog closes the old socket, and names the new one. *)
LEMMA OpenLog == ASSUME ResInv, NEW id, openlog(id) PROVE ResInv'
<1>1. /\ rpc = "client" /\ rpc' = "client" /\ loc' = loc /\ resCalls' = resCalls + 1 /\ Reopen(id)
      /\ ident' = (IF log_fd' = -1 THEN "" ELSE id)
      /\ held' = held /\ blocks' = blocks /\ kept' = kept /\ UNCHANGED <<termVars, file>>
  BY Zenon DEF openlog, Once
<1>2. Named'
  BY <1>1, Reopened, Zenon DEF Named
<1> QED
  BY <1>1, <1>2, AtClient, Reopened, ClientGoesOn, Zenon

(* closelog closes the socket. *)
LEMMA CloseLog == ASSUME ResInv, closelog PROVE ResInv'
<1>1. /\ rpc = "client" /\ rpc' = "client" /\ loc' = loc /\ resCalls' = resCalls + 1 /\ table' = Closed
      /\ log_fd' = -1 /\ ident' = "" /\ held' = held /\ blocks' = blocks /\ kept' = kept
      /\ UNCHANGED <<termVars, file>>
  BY Zenon DEF closelog, Once
<1>2. Named' /\ \A g \in Numbers : table'[g] = Known(g)'
  BY <1>1, ClosedIs, StdNumbers, Zenon DEF Named, Known
<1>3. table' \in [Numbers -> FdKinds] /\ log_fd' \in Numbers \cup {-1}
  BY <1>1, ClosedIs, Zenon
<1> QED
  BY <1>1, <1>2, <1>3, AtClient, ClientGoesOn, Zenon

(* vsyslog opens a log that is closed, without a name. *)
LEMMA Vsyslog == ASSUME ResInv, vsyslog PROVE ResInv'
<1>1. /\ Call("vsyslog", NoLocals) /\ held' = held /\ blocks' = blocks /\ kept' = kept /\ ident' = ident
      /\ UNCHANGED <<termVars, file>>
  BY Zenon DEF vsyslog
<1>2. rpc = "client" /\ rpc' = "vsyslog" /\ resCalls' = resCalls + 1 /\ loc' \in Locals
  <2>1. /\ rpc = "client" /\ rpc' = "vsyslog" /\ resCalls' = resCalls + 1
        /\ loc' = [NoLocals EXCEPT !.fun = "vsyslog"]
    BY <1>1 DEF Call
  <2>2. NoLocals \in Locals /\ "vsyslog" \in Bare
    BY NoneLocal DEF Bare
  <2> QED
    BY <2>1, <2>2 DEF Locals
<1>3. CASE log_fd = -1 /\ Reopen("")
  <2>1. Named'
    BY <1>1, <1>2, <1>3, Reopened, Zenon DEF ResInv, Named
  <2> QED
    BY <1>1, <1>2, <1>3, <2>1, AtClient, Reopened, ClientGoesOn, Zenon
<1>4. CASE UNCHANGED <<table, log_fd, log_ident>>
  <2>1. Named' /\ \A g \in Numbers : table'[g] = Known(g)'
    BY <1>1, <1>2, <1>4, AtClient, Zenon DEF ResInv, Named, Known
  <2> QED
    BY <1>1, <1>2, <1>4, <2>1, AtClient, ClientGoesOn
<1> QED
  BY <1>3, <1>4, Zenon DEF vsyslog

(* A message changes nothing. *)
LEMMA Send == ASSUME ResInv, send PROVE ResInv'
<1>1. /\ rpc = "vsyslog" /\ rpc \in Bare /\ Unwind(blocks, {}) /\ UNCHANGED <<termVars, logVars>>
      /\ file' = file
  BY DEF send, Bare
<1> QED
  BY <1>1, NothingMade, Undone

(* The client closes and frees what it knows of. *)
LEMMA CloseAndFree == ASSUME ResInv, close \/ freeifaddrs PROVE ResInv'
<1>1. /\ rpc = "client" /\ rpc' = "client" /\ loc' = loc /\ UNCHANGED <<termVars, file>>
      /\ log_fd' = log_fd /\ log_ident' = log_ident /\ ident' = ident /\ resCalls' \in {resCalls, resCalls + 1}
  BY DEF close, freeifaddrs, Once, logVars
<1>2. Named' /\ resCalls' \in Nat /\ log_fd' \in Numbers \cup {-1} /\ loc' \in Locals
  BY <1>1, AtClient, Zenon DEF ResInv, Named
<1>3. ASSUME NEW f \in Numbers, held[f] # "free", table' = Put(table, f, "free"), held' = Put(held, f, "free"),
             blocks' = blocks, kept' = kept
      PROVE  ResInv'
  <2>1. /\ table' \in [Numbers -> FdKinds] /\ \A g \in Numbers : table'[g] = IF g = f THEN "free" ELSE table[g]
        /\ held' \in [Numbers -> FdKinds] /\ \A g \in Numbers : held'[g] = IF g = f THEN "free" ELSE held[g]
    BY <1>1, <1>3, AtClient DEF Put, FdKinds
  <2>2. f # log_fd
    BY <1>1, <1>3, AtClient, StdNumbers
  <2>3. \A g \in Numbers : table'[g] = Known(g)'
    BY <1>1, <2>1, <2>2, AtClient DEF Known
  <2>4. log_fd' # -1 => held'[log_fd'] = "free"
    BY <1>1, <1>2, <2>1, AtClient
  <2> QED
    BY <1>1, <1>2, <1>3, <2>1, <2>3, <2>4, AtClient, ClientGoesOn
<1>4. ASSUME blocks' = blocks - kept, kept' = 0, UNCHANGED <<table, held>>
      PROVE  ResInv'
  <2>1. blocks' = kept' /\ kept' \in Nat
    BY <1>1, <1>4, AtClient
  <2>2. \A g \in Numbers : table'[g] = Known(g)'
    BY <1>1, <1>4, AtClient DEF Known
  <2> QED
    BY <1>1, <1>2, <1>4, <2>1, <2>2, AtClient, ClientGoesOn
<1> QED
  BY <1>3, <1>4 DEF close, freeifaddrs

(* scandir, getifaddrs and getcwd begin with nothing in hand. *)
LEMMA ListCall == ASSUME ResInv, list_call PROVE ResInv'
<1>1. PICK f \in {"scandir", "getifaddrs", "getcwd"}, k \in 0 .. MaxItems : Call(f, [NoLocals EXCEPT !.left = k])
  BY Zenon DEF list_call
<1>2. k \in Nat
  BY ResourcesAssumption
<1> DEFINE l == [NoLocals EXCEPT !.left = k]
<1>3. l \in Locals /\ Call(f, l) /\ l.n = 0
  BY <1>1, <1>2, NoneLocal DEF Locals
<1>4. /\ f \in Bare \ {"client"} /\ f \notin {"forkpty", "daemon"}
      /\ f # "posix_fallocate"
  BY DEF Bare
<1>5. UNCHANGED <<table, held, blocks, kept, termVars, logVars, file>>
  BY DEF list_call
<1> HIDE DEF l
<1> QED
  BY <1>3, <1>4, <1>5, Begun

(* scandir has a stream and a list, getifaddrs a socket, or nothing. *)
LEMMA ListBegins == ASSUME ResInv, scandir \/ getifaddrs PROVE ResInv'
<1>1. /\ rpc \in {"scandir", "getifaddrs"} /\ rpc \in Bare /\ UNCHANGED <<termVars, logVars, file>>
      /\ log_fd' = log_fd /\ file' = file
  <2>1. rpc \in {"scandir", "getifaddrs"} /\ UNCHANGED <<termVars, logVars, file>>
    <3>1. CASE scandir
      BY <3>1, Zenon DEF scandir
    <3>2. CASE getifaddrs
      BY <3>2, Zenon DEF getifaddrs
    <3> QED
      BY <3>1, <3>2
  <2> QED
    BY <2>1 DEF Bare, logVars
<1>2. InHand = {} /\ blocks = kept /\ kept \in Nat /\ file = Contents /\ loc \in Locals /\ loc.n \in Nat
  BY <1>1, NothingMade, OfPlace
<1>3. CASE Unwind(blocks, {})
  BY <1>1, <1>2, <1>3, Undone
<1>4. ASSUME NEW f \in Numbers, lowest(table, f), NEW x \in {"dir", "socket"}, table' = Put(table, f, x),
             rpc' \in {"readdir", "interface"}, loc' \in Locals, loc'.m = f, blocks' = kept + Made',
             UNCHANGED <<held, kept, resCalls>>, Roomy'
      PROVE  ResInv'
  <2>1. InHand' = InHand \cup {f}
    BY <1>2, <1>4 DEF InHand
  <2>2. x \in FdKinds \ {"free"}
    BY DEF FdKinds
  <2>3. Accounted' /\ table' \in [Numbers -> FdKinds]
    BY <1>1, <1>4, <2>1, <2>2, OneMoreInHand
  <2>4. Ends' /\ Aside' /\ rpc' \in Inner \ {"read", "pwrite"}
    BY <1>4 DEF Ends, Aside, Inner
  <2> QED
    BY <1>1, <1>4, <2>3, <2>4, Onward
<1>5. ASSUME NEW f \in Numbers, rpc = "scandir", lowest(table, f), table' = Put(table, f, "dir"), blocks' = blocks + 2,
             loc' = [loc EXCEPT !.m = f, !.cap = ListCap], Enter("readdir"), UNCHANGED <<held, kept>>
      PROVE  ResInv'
  <2>1. f \in Int /\ ListCap \in Nat /\ ListCap >= 1
    BY StdNumbers, ResourcesAssumption
  <2>2. loc' \in Locals /\ loc'.m = f /\ loc'.cap = ListCap /\ loc'.n = loc.n
    BY <1>2, <1>5, <2>1, Zenon DEF Locals
  <2>3. rpc' = "readdir" /\ resCalls' = resCalls
    BY <1>5 DEF Enter
  <2>4. loc.n = 0
    BY <1>5 DEF ResInv, Roomy
  <2>5. Made' = 2 /\ Roomy'
    BY <2>1, <2>2, <2>3, <2>4 DEF Made, Roomy
  <2> QED
    BY <1>2, <1>4, <1>5, <2>2, <2>3, <2>5
<1>6. ASSUME NEW f \in Numbers, rpc = "getifaddrs", lowest(table, f), table' = Put(table, f, "socket"),
             loc' = [loc EXCEPT !.m = f], Enter("interface"), UNCHANGED <<held, blocks, kept>>
      PROVE  ResInv'
  <2>1. loc' \in Locals /\ loc'.m = f /\ loc'.n = loc.n
    BY <1>2, <1>6, StdNumbers DEF Locals
  <2>2. rpc' = "interface" /\ resCalls' = resCalls
    BY <1>6 DEF Enter
  <2>3. loc.n = 0
    BY <1>6 DEF ResInv, Roomy
  <2>4. Made' = 0 /\ Roomy'
    BY <2>1, <2>2, <2>3 DEF Made, Roomy
  <2> QED
    BY <1>2, <1>4, <1>6, <2>1, <2>2, <2>4
<1>7. CASE scandir
  BY <1>3, <1>5, <1>7, Zenon DEF scandir
<1>8. CASE getifaddrs
  BY <1>3, <1>6, <1>8, Zenon DEF getifaddrs
<1> QED
  BY <1>7, <1>8

(* What scandir and getifaddrs have in hand. *)
LEMMA AtList ==
  ASSUME ResInv, rpc \in {"readdir", "interface"}
  PROVE  /\ InHand = {loc.m} /\ loc.m \in Numbers /\ Made = loc.n + (IF rpc = "readdir" THEN 2 ELSE 0)
         /\ blocks = kept + Made /\ kept \in Nat /\ file = Contents
         /\ loc \in Locals /\ loc.n \in Nat /\ loc.cap \in Nat /\ loc.left \in Nat
         /\ rpc = "readdir" => loc.n <= loc.cap /\ loc.cap >= 1
<1>1. InHand = {loc.m}
  BY DEF InHand
<1>2. loc.n \in Nat /\ loc.cap \in Nat /\ loc.left \in Nat
  BY OfPlace
<1>3. Made = loc.n + (IF rpc = "readdir" THEN 2 ELSE 0)
  BY <1>2 DEF Made
<1>4. loc.m \in Numbers /\ (rpc = "readdir" => loc.n <= loc.cap /\ loc.cap >= 1)
  BY <1>1 DEF ResInv, Accounted, Roomy
<1> QED
  BY <1>1, <1>2, <1>3, <1>4, OfPlace

(* A list grows, or an entry is left out. *)
LEMMA ListGoesOn ==
  ASSUME ResInv, rpc \in {"readdir", "interface"}, UNCHANGED <<table, held, kept, rpc, resCalls>>,
         UNCHANGED <<termVars, logVars, file>>, loc' \in Locals, loc'.m = loc.m,
         NEW d \in Nat, loc'.n = loc.n + d, blocks' = blocks + d,
         rpc = "readdir" => loc'.n <= loc'.cap /\ loc'.cap >= 1
  PROVE  ResInv'
<1>1. rpc' = rpc /\ log_fd' = log_fd /\ table' = table
  BY DEF logVars
<1>2. InHand' = InHand
  BY <1>1, AtList DEF InHand
<1>3. Made' = Made + d
  <2>1. Made' = loc'.n + (IF rpc = "readdir" THEN 2 ELSE 0)
    <3>1. loc'.n \in Nat
      BY AtList
    <3> QED
      BY <1>1, <3>1 DEF Made
  <2> QED
    BY <2>1, AtList
<1>4. blocks' = kept' + Made'
  BY <1>3, AtList
<1>5. Accounted'
  BY <1>1, <1>2, <1>4, SameInHand
<1>6. Ends' /\ Aside' /\ Roomy' /\ rpc' \in Inner \ {"read", "pwrite"}
  BY <1>1 DEF Ends, Aside, Roomy, Inner
<1>7. table' \in [Numbers -> FdKinds]
  BY <1>1 DEF ResInv, ResTypes
<1> QED
  BY <1>1, <1>5, <1>6, <1>7, Onward

(* A list is given to the client. *)
LEMMA ListEnds ==
  ASSUME ResInv, rpc \in {"readdir", "interface"}, NEW n \in Nat, NEW b, b = kept + n,
         Leave(Drop(table, {loc.m}), b, held, n), UNCHANGED <<termVars, logVars, file>>
  PROVE  ResInv'
<1> DEFINE t == Drop(table, {loc.m})
<1>1. table \in [Numbers -> FdKinds] /\ held \in [Numbers -> FdKinds] /\ "free" \in FdKinds
  BY DEF ResInv, ResTypes, FdKinds
<1>2. t \in [Numbers -> FdKinds] /\ \A g \in Numbers : t[g] = IF g = loc.m THEN "free" ELSE table[g]
  BY <1>1 DEF Drop
<1>3. Leave(t, b, held, n)
  OBVIOUS
<1> HIDE DEF t
<1>4. \A g \in Numbers : t[g] = Known(g)
  <2> SUFFICES ASSUME NEW g \in Numbers PROVE t[g] = Known(g)
    OBVIOUS
  <2>1. IF g = loc.m THEN Known(g) = "free" ELSE table[g] = Known(g)
    BY AtList DEF ResInv, Accounted
  <2> QED
    BY <1>2, <2>1
<1>5. \A g \in Numbers : t[g] = IF g = log_fd THEN "log" ELSE held[g]
  BY <1>4 DEF Known
<1>6. log_fd # -1 => held[log_fd] = "free"
  BY DEF ResInv, Accounted
<1>7. /\ file' = Contents /\ UNCHANGED logVars /\ UNCHANGED <<echo, stuck>>
      /\ ctty' \in {"tty", "slave", "none"} /\ rpc # "read"
  BY AtList DEF termVars, ResInv, ResTypes
<1> QED
  BY <1>1, <1>2, <1>3, <1>5, <1>6, <1>7, Ended

(* An entry is stored within the list, left out, or ends scandir. *)
LEMMA ScandirEntry == ASSUME ResInv, scandir_entry PROVE ResInv'
<1>1. /\ rpc = "readdir" /\ loc.left > 0 /\ UNCHANGED <<termVars, logVars, file>> /\ UNCHANGED <<termVars, logVars>>
      /\ file' = file
  BY Zenon DEF scandir_entry
<1>2. CASE scandir_fail
  <2>1. Unwind(blocks - 2 - loc.n, {loc.m}) /\ blocks - 2 - loc.n = kept
    BY <1>1, <1>2, AtList DEF scandir_fail
  <2> QED
    BY <1>1, <2>1, AtList, Undone, Zenon
<1>3. ASSUME UNCHANGED blocks, loc' = [loc EXCEPT !.left = @ - 1], UNCHANGED <<table, held, kept, rpc, resCalls>>
      PROVE  ResInv'
  <2>1. loc.left - 1 \in Nat
    BY <1>1, AtList
  <2>2. loc' \in Locals /\ loc'.m = loc.m /\ loc'.n = loc.n /\ loc'.cap = loc.cap
    BY <1>1, <1>3, <2>1, AtList DEF Locals
  <2>3. 0 \in Nat /\ loc'.n = loc.n + 0 /\ blocks' = blocks + 0
    BY <1>1, <1>3, <2>2, AtList
  <2> QED
    BY <1>1, <1>3, <2>2, <2>3, AtList, ListGoesOn
<1>4. ASSUME blocks' = blocks + 1,
             loc' = [loc EXCEPT !.left = @ - 1, !.n = @ + 1, !.cap = IF loc.n = @ THEN 2 * @ ELSE @],
             UNCHANGED <<table, held, kept, rpc, resCalls>>
      PROVE  ResInv'
  <2> DEFINE c == IF loc.n = loc.cap THEN 2 * loc.cap ELSE loc.cap
             k == loc.n + 1
             l == loc.left - 1
  <2>1. c \in Nat /\ k \in Nat /\ l \in Nat /\ k <= c /\ c >= 1
    BY <1>1, AtList
  <2>2. loc' = [loc EXCEPT !.left = l, !.n = k, !.cap = c] /\ k = loc.n + 1
    BY <1>4, Zenon
  <2>3. loc \in Locals
    BY <1>1, AtList
  <2> HIDE DEF c, k, l
  <2>4. loc' \in Locals /\ loc'.m = loc.m /\ loc'.n = k /\ loc'.cap = c
    BY <2>1, <2>2, <2>3, Zenon DEF Locals
  <2>5. 1 \in Nat /\ loc'.n = loc.n + 1
    BY <2>2, <2>4
  <2> QED
    BY <1>1, <1>4, <2>1, <2>4, <2>5, ListGoesOn
<1> QED
  BY <1>2, <1>3, <1>4, Zenon DEF scandir_entry

(* scandir closes the stream and gives the list to the client. *)
LEMMA ScandirEnd == ASSUME ResInv, scandir_end PROVE ResInv'
<1>1. /\ rpc = "readdir" /\ UNCHANGED <<termVars, logVars, file>>
      /\ Leave(Drop(table, {loc.m}), blocks - 1, held, loc.n + 1)
  BY DEF scandir_end
<1>2. loc.n + 1 \in Nat /\ blocks - 1 = kept + (loc.n + 1)
  BY <1>1, AtList
<1> QED
  BY <1>1, <1>2, ListEnds

(* getifaddrs adds an entry, frees all of them, or returns them. *)
LEMMA Interfaces == ASSUME ResInv, getifaddrs_entry \/ getifaddrs_end PROVE ResInv'
<1>1. /\ rpc = "interface" /\ UNCHANGED <<termVars, logVars, file>> /\ UNCHANGED <<termVars, logVars>> /\ file' = file
  BY Zenon DEF getifaddrs_entry, getifaddrs_end
<1>2. CASE Unwind(free_list, {loc.m})
  <2>1. free_list = kept
    BY <1>1, AtList DEF free_list
  <2> QED
    BY <1>1, <1>2, <2>1, AtList, Undone
<1>3. ASSUME loc.left > 0, NEW members \in Members, blocks' = blocks + 1 + members,
             loc' = [loc EXCEPT !.left = @ - 1, !.n = @ + 1 + members],
             UNCHANGED <<table, held, kept, rpc, resCalls>>
      PROVE  ResInv'
  <2> DEFINE k == loc.n + 1 + members
             l == loc.left - 1
             d == 1 + members
  <2>1. d \in Nat /\ k \in Nat /\ l \in Nat /\ k = loc.n + d /\ blocks' = blocks + d
    BY <1>1, <1>3, AtList, ResourcesAssumption
  <2>2. loc' = [loc EXCEPT !.left = l, !.n = k]
    BY <1>3, Zenon
  <2>3. loc \in Locals
    BY <1>1, AtList
  <2> HIDE DEF k, l, d
  <2>4. loc' \in Locals /\ loc'.m = loc.m /\ loc'.n = k
    BY <2>1, <2>2, <2>3, Zenon DEF Locals
  <2> QED
    BY <1>1, <1>3, <2>1, <2>4, ListGoesOn
<1>4. CASE Leave(Drop(table, {loc.m}), blocks, held, loc.n)
  <2>1. loc.n \in Nat /\ blocks = kept + loc.n
    BY <1>1, AtList
  <2> QED
    BY <1>1, <1>4, <2>1, ListEnds
<1>5. CASE getifaddrs_entry
  BY <1>2, <1>3, <1>5, Zenon DEF getifaddrs_entry
<1>6. CASE getifaddrs_end
  BY <1>4, <1>6 DEF getifaddrs_end
<1> QED
  BY <1>5, <1>6

(* getcwd returns its buffer, doubles it or frees it. *)
LEMMA Getcwd == ASSUME ResInv, getcwd \/ getcwd_try PROVE ResInv'
<1>1. /\ rpc \in {"getcwd", "sys_getcwd"} /\ UNCHANGED <<termVars, logVars, file>> /\ UNCHANGED <<termVars, logVars>>
      /\ log_fd' = log_fd /\ file' = file
  BY DEF getcwd, getcwd_try, logVars
<1>2. InHand = {} /\ Made = IF rpc = "getcwd" THEN 0 ELSE 1
  BY <1>1 DEF InHand, Made
<1>3. blocks = kept + Made /\ kept \in Nat /\ file = Contents /\ loc \in Locals /\ loc.cap \in Nat
  BY <1>1, OfPlace
<1>4. CASE rpc = "getcwd" /\ Unwind(blocks, {})
  <2>1. blocks = kept
    BY <1>2, <1>3, <1>4
  <2> QED
    BY <1>1, <1>2, <1>3, <1>4, <2>1, Undone
<1>5. CASE rpc = "sys_getcwd" /\ Unwind(blocks - 1, {})
  <2>1. blocks - 1 = kept
    BY <1>2, <1>3, <1>5
  <2> QED
    BY <1>1, <1>2, <1>3, <1>5, <2>1, Undone
<1>6. ASSUME rpc' = "sys_getcwd", loc' \in Locals, blocks' = kept + 1, UNCHANGED <<table, held, kept, resCalls>>
      PROVE  ResInv'
  <2>1. InHand' = InHand /\ Made' = 1
    BY <1>2, <1>6 DEF InHand, Made
  <2>2. Accounted'
    BY <1>1, <1>6, <2>1, SameInHand
  <2>3. Ends' /\ Aside' /\ Roomy' /\ rpc' \in Inner \ {"read", "pwrite"} /\ table' \in [Numbers -> FdKinds]
    BY <1>6 DEF Ends, Aside, Roomy, Inner, ResInv, ResTypes
  <2> QED
    BY <1>1, <1>6, <2>2, <2>3, Onward
<1>7. CASE /\ rpc = "getcwd" /\ blocks' = blocks + 1 /\ loc' = [loc EXCEPT !.cap = 1]
           /\ Enter("sys_getcwd") /\ UNCHANGED <<table, held, kept>>
  <2>1. loc' \in Locals /\ blocks' = kept + 1
    BY <1>2, <1>3, <1>7 DEF Locals
  <2> QED
    BY <1>6, <1>7, <2>1 DEF Enter
<1>8. CASE /\ rpc = "sys_getcwd" /\ loc' = [loc EXCEPT !.cap = @ * 2]
           /\ UNCHANGED <<table, held, blocks, kept, rpc, resCalls>>
  <2>1. loc.cap * 2 \in Nat
    BY <1>3
  <2>2. loc' \in Locals /\ blocks' = kept + 1
    BY <1>2, <1>3, <1>8, <2>1 DEF Locals
  <2> QED
    BY <1>6, <1>8, <2>2
<1>9. CASE rpc = "sys_getcwd" /\ Leave(table, blocks, held, 1)
  <2>1. /\ table \in [Numbers -> FdKinds] /\ held \in [Numbers -> FdKinds]
        /\ ctty' \in {"tty", "slave", "none"} /\ UNCHANGED <<echo, stuck>> /\ UNCHANGED logVars
    BY <1>1 DEF termVars, ResInv, ResTypes
  <2>2. /\ \A g \in Numbers : table[g] = IF g = log_fd THEN "log" ELSE held[g]
        /\ log_fd # -1 => held[log_fd] = "free"
    BY <1>2 DEF ResInv, Accounted, Known
  <2>3. blocks = kept + 1 /\ 1 \in Nat /\ file' = Contents /\ rpc # "read"
    BY <1>1, <1>2, <1>3, <1>9
  <2> QED
    BY <1>9, <2>1, <2>2, <2>3, Ended
<1>10. CASE getcwd
  BY <1>4, <1>7, <1>10, Zenon DEF getcwd
<1>11. CASE getcwd_try
  BY <1>5, <1>8, <1>9, <1>11, Zenon DEF getcwd_try
<1> QED
  BY <1>10, <1>11

(* posix_fallocate begins at the offset. *)
LEMMA FallocateCall == ASSUME ResInv, NEW r \in Ranges, posix_fallocate(r[1], r[2]) PROVE ResInv'
<1>1. r[1] \in Nat /\ r[2] \in Nat
  BY ResourcesAssumption
<1> DEFINE o == r[1]
           e == r[1] + r[2]
           l == [NoLocals EXCEPT !.m = o, !.n = o, !.s = e]
<1>2. o \in Nat /\ o \in Int /\ e \in Int /\ o <= o /\ o <= e
  BY <1>1
<1>3. Call("posix_fallocate", l) /\ UNCHANGED <<table, held, blocks, kept, termVars, logVars, file>>
  BY Zenon DEF posix_fallocate
<1> HIDE DEF o, e
<1>4. l \in Locals /\ l.m = o /\ l.n = o /\ l.s = e
  <2>1. NoLocals \in Locals
    BY NoneLocal
  <2> QED
    BY <1>2, <2>1, Zenon DEF Locals
<1>5. "posix_fallocate" \in Bare \ {"client"}
  BY DEF Bare
<1> HIDE DEF l
<1> QED
  BY <1>2, <1>3, <1>4, <1>5, Begun

(* What posix_fallocate has made. *)
LEMMA AtFallocate ==
  ASSUME ResInv, rpc \in {"posix_fallocate", "pwrite"}
  PROVE  /\ InHand = {} /\ Made = 0 /\ blocks = kept /\ kept \in Nat
         /\ loc \in Locals /\ loc.n \in Nat /\ loc.m \in Int /\ loc.s \in Int
         /\ loc.n <= loc.m /\ loc.m <= loc.s
<1>1. InHand = {} /\ Made = 0
  BY DEF InHand, Made
<1>2. loc.n <= loc.m /\ loc.m <= loc.s
  BY DEF ResInv, Filed
<1> QED
  BY <1>1, <1>2, OfPlace

(* Zeroes are written, or are about to be. *)
LEMMA FileGoesOn ==
  ASSUME ResInv, rpc \in {"posix_fallocate", "pwrite"}, rpc' = "pwrite",
         UNCHANGED <<table, held, blocks, kept, resCalls>>, UNCHANGED <<termVars, logVars>>,
         loc' \in Locals, loc'.n <= loc'.m, loc'.m <= loc'.s, FileKept'
  PROVE  ResInv'
<1>1. /\ log_fd' = log_fd /\ log_ident' = log_ident /\ ident' = ident
      /\ ctty' = ctty /\ echo' = echo /\ stuck' = stuck
  BY DEF logVars, termVars
<1>2. ResTypes'
  BY <1>1 DEF ResInv, ResTypes, Inner
<1>3. InHand' = InHand /\ Made' = 0
  BY AtFallocate DEF InHand, Made
<1>4. Accounted'
  BY <1>1, <1>3, AtFallocate, SameInHand
<1>5. Ends' /\ Aside' /\ Roomy'
  BY DEF Ends, Aside, Roomy
<1>6. Named' /\ Filed'
  BY <1>1, Zenon DEF ResInv, Named, Filed
<1>7. Shown'
  <2>1. Hidden' = {}
    BY DEF Hidden
  <2> QED
    BY <1>1, <2>1, AllShown DEF Shown
<1> QED
  BY <1>2, <1>4, <1>5, <1>6, <1>7 DEF ResInv

(* ftruncate keeps what the file has. *)
LEMMA FallocateGrow == ASSUME ResInv, fallocate_grow PROVE ResInv'
<1>1. rpc = "posix_fallocate" /\ UNCHANGED <<termVars, logVars>> /\ file = Contents
  BY OfPlace DEF fallocate_grow
<1>2. CASE Unwind(blocks, {}) /\ UNCHANGED file
  BY <1>1, <1>2, AtFallocate, Undone
<1>3. CASE /\ file' = [k \in DOMAIN file \cup 1 .. loc.s |-> IF k \in DOMAIN file THEN file[k] ELSE "zero"]
           /\ Enter("pwrite") /\ UNCHANGED <<table, held, blocks, kept, loc>>
  <2>1. DOMAIN file' = DOMAIN Contents \cup 1 .. loc.s /\ \A k \in DOMAIN Contents : file'[k] = Contents[k]
    BY <1>1, <1>3
  <2>2. \A k \in DOMAIN Contents : Contents[k] = "data"
    BY DEF Contents
  <2>3. rpc' = "pwrite" /\ resCalls' = resCalls /\ loc' = loc
    BY <1>3 DEF Enter
  <2>4. FileKept'
    BY <2>1, <2>2, <2>3 DEF FileKept
  <2> QED
    BY <1>1, <1>3, <2>3, <2>4, AtFallocate, FileGoesOn
<1> QED
  BY <1>2, <1>3, Zenon DEF fallocate_grow

(* pwrite writes within the range. *)
LEMMA FallocateWrite == ASSUME ResInv, fallocate_write PROVE ResInv'
<1>1. /\ rpc = "pwrite" /\ rpc' = "pwrite" /\ UNCHANGED <<table, held, blocks, kept, resCalls>>
      /\ UNCHANGED <<termVars, logVars>>
  BY Zenon DEF fallocate_write
<1>2. PICK r \in 1 .. loc.s - loc.m :
        /\ file' = [k \in DOMAIN file |-> IF k \in loc.m + 1 .. loc.m + r THEN "zero" ELSE file[k]]
        /\ loc' = [loc EXCEPT !.m = @ + r]
  BY Zenon DEF fallocate_write
<1>3. loc.m + r \in Int /\ loc.n <= loc.m + r /\ loc.m + r <= loc.s /\ loc.n <= loc.m
  BY <1>1, AtFallocate
<1>4. loc' \in Locals /\ loc'.m = loc.m + r /\ loc'.n = loc.n /\ loc'.s = loc.s
  BY <1>1, <1>2, <1>3, AtFallocate DEF Locals
<1>5. /\ DOMAIN file = DOMAIN Contents \cup 1 .. loc.s
      /\ \A k \in DOMAIN Contents \ (loc.n + 1 .. loc.s) : file[k] = "data"
  BY <1>1 DEF ResInv, Filed, FileKept
<1>6. DOMAIN file' = DOMAIN file /\ \A k \in DOMAIN file : k \notin loc.m + 1 .. loc.m + r => file'[k] = file[k]
  BY <1>2
<1>7. loc.m + 1 .. loc.m + r \subseteq loc.n + 1 .. loc.s
  BY <1>1, <1>3, AtFallocate
<1>8. FileKept'
  BY <1>4, <1>5, <1>6, <1>7 DEF FileKept
<1> QED
  BY <1>1, <1>3, <1>4, <1>8, FileGoesOn

(* posix_fallocate ends with nothing in hand. *)
LEMMA FallocateEnd == ASSUME ResInv, fallocate_end PROVE ResInv'
  BY AtFallocate, Undone DEF fallocate_end

(* Any of 0 to 2 may be closed at the beginning, and the log be open. *)
LEMMA ResStarts == ASSUME ResInit PROVE ResInv
<1>1. /\ blocks = 0 /\ kept = 0 /\ ctty = "tty" /\ echo = [x \in {"tty", "slave"} |-> TRUE] /\ stuck = {}
      /\ file = Contents /\ rpc = "client" /\ loc = NoLocals /\ resCalls = 0
  BY Zenon DEF ResInit
<1>2. held \in [Numbers -> FdKinds]
  BY Zenon DEF ResInit, FdKinds
<1>3. /\ table \in [Numbers -> FdKinds] /\ log_fd \in Numbers \cup {-1} /\ Named
      /\ \A g \in Numbers : table[g] = Known(g)
      /\ log_fd # -1 => held[log_fd] = "free"
  <2>1. CASE table = held /\ log_fd = -1 /\ ident = ""
    BY <1>2, <2>1, StdNumbers, Zenon DEF Named, Known
  <2>2. CASE /\ log_fd \in Numbers /\ lowest(held, log_fd) /\ log_ident = ident
             /\ table = Put(held, log_fd, "log")
    <3>1. held[log_fd] = "free" /\ "log" \in FdKinds /\ log_fd # -1
      BY <2>2, StdNumbers DEF lowest, FdKinds
    <3>2. table \in [Numbers -> FdKinds] /\ \A g \in Numbers : table[g] = IF g = log_fd THEN "log" ELSE held[g]
      BY <1>2, <2>2, <3>1 DEF Put
    <3> QED
      BY <2>2, <3>1, <3>2 DEF Named, Known
  <2> QED
    BY <2>1, <2>2, Zenon DEF ResInit
<1>4. ResTypes
  BY <1>1, <1>2, <1>3, NoneLocal DEF ResTypes, Bare
<1>5. InHand = {} /\ Made = 0 /\ Hidden = {}
  BY <1>1 DEF InHand, Made, Hidden
<1>6. Accounted
  BY <1>1, <1>3, <1>5 DEF Accounted
<1>7. Shown
  BY <1>1, <1>5 DEF Shown
<1>8. Ends /\ Aside /\ Roomy /\ Filed
  BY <1>1 DEF Ends, Aside, Roomy, Filed
<1> QED
  BY <1>3, <1>4, <1>6, <1>7, <1>8 DEF ResInv

(* Every step keeps the invariant. *)
LEMMA ResKept == ASSUME ResInv, [ResNext]_resVars PROVE ResInv'
<1>1. CASE UNCHANGED resVars
  <2>1. /\ table' = table /\ held' = held /\ blocks' = blocks /\ kept' = kept /\ ctty' = ctty /\ echo' = echo
        /\ stuck' = stuck /\ log_fd' = log_fd /\ log_ident' = log_ident /\ ident' = ident /\ file' = file
        /\ rpc' = rpc /\ loc' = loc /\ resCalls' = resCalls
    BY <1>1 DEF resVars
  <2>2. need_close' = need_close
    BY <2>1 DEF need_close
  <2>3. InHand' = InHand /\ Made' = Made
    BY <2>1, <2>2 DEF InHand, Made
  <2>4. Accounted'
    BY <2>1, <2>3, OfPlace, SameInHand
  <2>5. Hidden' = Hidden
    BY <2>1 DEF Hidden
  <2>6. Shown'
    BY <2>1, <2>5, Zenon DEF ResInv, Shown
  <2>7. ResTypes'
    BY <2>1 DEF ResInv, ResTypes
  <2>8. Ends' /\ Aside' /\ Roomy'
    BY <2>1 DEF ResInv, Ends, Aside, LogAside, Roomy
  <2>9. Named' /\ Filed'
    BY <2>1, Zenon DEF ResInv, Named, Filed, FileKept
  <2> QED
    BY <2>4, <2>6, <2>7, <2>8, <2>9 DEF ResInv
<1>2. CASE pty_call \/ posix_openpt \/ grantpt \/ ptsname_r \/ do_openpty \/ forkpty_parent \/ forkpty_child
  BY <1>2, PtyCall, Openpt, Grantpt, Ptsname, OpenSlave, ForkParent, ForkChild
<1>3. CASE (\E f \in {"daemon", "daemon_noclose"} : daemon(f)) \/ daemon_fails \/ daemon_child
  BY <1>3, DaemonCall, Daemon
<1>4. CASE getpass \/ getpass_open \/ getpass_prompt \/ getpass_echo \/ getpass_restore \/ getpass_newline
  BY <1>4, GetpassCall, GetpassOpen, GetpassWrite, GetpassEcho, GetpassRestore
<1>5. CASE (\E id \in Idents : openlog(id)) \/ closelog \/ vsyslog \/ send
  BY <1>5, OpenLog, CloseLog, Vsyslog, Send
<1>6. CASE \/ list_call \/ scandir \/ scandir_entry \/ scandir_end
           \/ getifaddrs \/ getifaddrs_entry \/ getifaddrs_end \/ getcwd \/ getcwd_try
  BY <1>6, ListCall, ListBegins, ScandirEntry, ScandirEnd, Interfaces, Getcwd
<1>7. CASE \/ \E r \in Ranges : posix_fallocate(r[1], r[2])
           \/ fallocate_grow \/ fallocate_write \/ fallocate_end
  BY <1>7, FallocateCall, FallocateGrow, FallocateWrite, FallocateEnd
<1>8. CASE close \/ freeifaddrs
  BY <1>8, CloseAndFree
<1> QED
  BY <1>1, <1>2, <1>3, <1>4, <1>5, <1>6, <1>7, <1>8, Zenon DEF ResNext

(* The invariant says what ResourcesExact does. *)
LEMMA ResEnough == ASSUME ResInv PROVE ResourcesExact
<1>1. NothingLeftOver
  BY AtClient DEF NothingLeftOver, Known
<1>2. EchoRestored
  BY AllShown DEF EchoRestored
<1>3. MessagesNamed
  <2> SUFFICES ASSUME rpc = "vsyslog", log_fd # -1 PROVE table[log_fd] = "log" /\ log_ident = ident
    BY DEF MessagesNamed
  <2>1. InHand = {} /\ log_fd \in Numbers
    BY DEF InHand, ResInv, ResTypes
  <2> QED
    BY <2>1 DEF ResInv, Accounted, Known, Named
<1>4. FileKept
  BY DEF ResInv, Filed, FileKept
<1>5. EntriesFit
  BY DEF ResInv, Roomy, EntriesFit
<1> QED
  BY <1>1, <1>2, <1>3, <1>4, <1>5 DEF ResourcesExact

(* The functions of Resources keep nothing that their caller does not know *)
(* of.                                                                     *)
THEOREM ResourcesRight == ResSpec => []ResourcesExact
<1>1. ResInit => ResInv
  BY ResStarts
<1>2. ResInv /\ [ResNext]_resVars => ResInv'
  BY ResKept
<1>3. ResInv => ResourcesExact
  BY ResEnough
<1> QED
  BY <1>1, <1>2, <1>3, PTL DEF ResSpec
=============================================================================
