--------------------------------- MODULE Sort ---------------------------------
(***************************************************************************)
(* qsort, qsort_r and bsearch (src/qsort.c): an array is sorted and then   *)
(* searched for a key.  An element is known by the place it had at first;  *)
(* given has the keys that compar looks at.                                *)
(***************************************************************************)
EXTENDS Integers

CONSTANTS SortKeys, Lengths

ASSUME SortAssumption == SortKeys \subseteq Int /\ Lengths \subseteq Nat

VARIABLES nmemb, given, base,
          i, j,              \* of qsort's loops
          spc,
          key, low, high, found  \* of bsearch

sortVars == <<nmemb, given, base, i, j, spc, key, low, high, found>>

Places == 0 .. nmemb - 1

Init ==
  /\ nmemb \in Lengths
  /\ given \in [Places -> SortKeys]
  /\ base = [k \in Places |-> k]
  /\ i = 0 /\ j = 1 /\ spc = "sort"
  /\ key \in SortKeys /\ low = 0 /\ high = 0 /\ found = 0

Key(k) == given[base[k]]

compar(k, l) == Key(k) - Key(l)

(* Variant: the element kept in tmp is not put back. *)
SwappedHalf == [base EXCEPT ![i] = base[j]]

Swapped == [base EXCEPT ![i] = base[j], ![j] = base[i]]

(* The body of qsort's inner loop. *)
Step ==
  /\ spc = "sort" /\ i < nmemb /\ j < nmemb
  /\ base' = IF compar(i, j) > 0 THEN Swapped ELSE base
  /\ j' = j + 1
  /\ UNCHANGED <<nmemb, given, i, spc, key, low, high, found>>

NextRow ==
  /\ spc = "sort" /\ i < nmemb /\ j >= nmemb
  /\ i' = i + 1 /\ j' = i + 2
  /\ UNCHANGED <<nmemb, given, base, spc, key, low, high, found>>

(* qsort returns, and the client calls bsearch. *)
Bsearch ==
  /\ spc = "sort" /\ i >= nmemb
  /\ spc' = "search" /\ low' = 0 /\ high' = nmemb
  /\ UNCHANGED <<nmemb, given, base, i, j, key, found>>

mid == low + (high - low) \div 2

Probe ==
  LET c == key - Key(mid) IN
  /\ spc = "search" /\ low < high
  /\ high' = IF c < 0 THEN mid ELSE high
  /\ low' = IF c > 0 THEN mid + 1 ELSE low
  /\ IF c = 0 THEN spc' = "found" /\ found' = mid ELSE UNCHANGED <<spc, found>>
  /\ UNCHANGED <<nmemb, given, base, i, j, key>>

NotFound ==
  /\ spc = "search" /\ low >= high
  /\ spc' = "absent"
  /\ UNCHANGED <<nmemb, given, base, i, j, key, low, high, found>>

Next == Step \/ NextRow \/ Bsearch \/ Probe \/ NotFound

Spec == Init /\ [][Next]_sortVars
-----------------------------------------------------------------------------
(* The elements are those qsort was given, each in one place. *)
Permuted ==
  /\ \A k \in Places : base[k] \in Places
  /\ \A k, l \in Places : base[k] = base[l] => k = l

Sorted == \A k, l \in Places : k < l => Key(k) <= Key(l)

(* qsort neither loses nor doubles an element and leaves them in order;    *)
(* bsearch then finds the key exactly if some element has it.              *)
SortExact ==
  /\ Permuted
  /\ spc # "sort" => Sorted
  /\ spc = "found" => found \in Places /\ Key(found) = key
  /\ spc = "absent" => \A k \in Places : Key(k) # key
=============================================================================
