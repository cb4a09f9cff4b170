---------------------------- MODULE EnvWaitsProofs ----------------------------
(***************************************************************************)
(* Two components of the threads of one process.                           *)
(*                                                                         *)
(* getenv, setenv, putenv, unsetenv and clearenv, for any variables,       *)
(* values and number of calls: what getenv returns depends on which string *)
(* an entry points to, and whether that may be freed on who has made it,   *)
(* so the invariant ties the flags of the array to the makers of its       *)
(* strings.                                                                *)
(*                                                                         *)
(* sem_t neither loses nor invents units, and loses no wakeup, for any     *)
(* finite set of threads and any number of calls below INT_MAX; and        *)
(* pthread_cond_wait and _timedwait return with the mutex held, for any    *)
(* waiters and signallers.                                                 *)
(***************************************************************************)
EXTENDS MCWaits, Env, TLAPS

Strings == [name : Names, value : Values, by : {"lib", "client"}, live : BOOLEAN]

NameAt(r) == objs[environ[r]].name

EnvTypeOK ==
  /\ envops \in Nat
  /\ objs \in [DOMAIN objs -> Strings]
  /\ DOMAIN objs \subseteq (0 .. envops) \X Nat
  /\ environ \in Seq(DOMAIN objs)
  /\ environ_owned \in BOOLEAN
  /\ environ_owned => environ_flags \in Seq(BOOLEAN) /\ Len(environ_flags) = Len(environ)
  /\ intended \in [Names -> Values \cup {Unset}]

(* A variable has one entry, and environ points to no freed string. *)
Entries ==
  /\ \A r, t \in 1 .. Len(environ) : NameAt(r) = NameAt(t) => r = t
  /\ \A r \in 1 .. Len(environ) : objs[environ[r]].live

(* What a call may free is the library's: the entries that are flagged,    *)
(* and in an array of the library those of variables that are set.         *)
Owned ==
  environ_owned =>
    \A r \in 1 .. Len(environ) :
       environ_flags[r] \/ NameAt(r) \in SetNames => objs[environ[r]].by = "lib"

(* The entries are what the calls made of the variables. *)
Intended ==
  /\ \A r \in 1 .. Len(environ) : intended[NameAt(r)] = objs[environ[r]].value
  /\ \A n \in Names : (\A r \in 1 .. Len(environ) : NameAt(r) # n) => intended[n] = Unset

EnvInv == EnvTypeOK /\ Entries /\ Owned /\ Intended /\ ClientStringsKept

(* A variable of the program is either set or put. *)
Discipline ==
  SetNames \cap PutNames = {} /\ PutOver \subseteq {FALSE} /\ CopyFails \subseteq {FALSE}
-----------------------------------------------------------------------------
(* find_env_index gives the entry of a variable, 0 if it has none. *)
LEMMA Find ==
  ASSUME EnvTypeOK, Entries, NEW n
  PROVE  \/ find_env_index(n) = 0 /\ \A r \in 1 .. Len(environ) : NameAt(r) # n
         \/ find_env_index(n) \in 1 .. Len(environ) /\ NameAt(find_env_index(n)) = n
<1> DEFINE hits == {r \in 1 .. Len(environ) : objs[environ[r]].name = n}
<1>0. /\ find_env_index(n) = IF hits = {} THEN 0 ELSE CHOOSE r \in hits : \A t \in hits : r <= t
      /\ \A r \in 1 .. Len(environ) : r \in hits <=> NameAt(r) = n
      /\ hits \subseteq 1 .. Len(environ)
  BY DEF find_env_index, NameAt
<1> HIDE DEF hits
<1>1. CASE hits = {}
  BY <1>0, <1>1
<1>2. CASE hits # {}
  <2>1. PICK k \in hits : TRUE
    BY <1>2
  <2>2. ASSUME NEW t \in hits PROVE k <= t
    <3>1. k \in 1 .. Len(environ) /\ t \in 1 .. Len(environ) /\ NameAt(k) = n /\ NameAt(t) = n
      BY <2>1, <1>0
    <3>2. k = t
      BY <3>1 DEF Entries
    <3> QED
      BY <3>1, <3>2
  <2>3. (CHOOSE r \in hits : \A t \in hits : r <= t) \in hits
    BY <2>1, <2>2
  <2> QED
    BY <1>0, <1>2, <2>3, Zenon
<1> QED
  BY <1>1, <1>2

(* The strings that a call makes are new. *)
LEMMA Fresh ==
  ASSUME EnvTypeOK
  PROVE  /\ New \notin DOMAIN objs
         /\ \A r \in Nat : CopyOf(r) \notin DOMAIN objs
         /\ \A r, t \in Nat : CopyOf(r) = CopyOf(t) => r = t
         /\ \A r \in Nat : CopyOf(r)[2] = r /\ (r > 0 => CopyOf(r) # New)
BY DEF EnvTypeOK, New, CopyOf

(* free changes nothing but that the strings are no longer live. *)
LEMMA Freed ==
  ASSUME EnvTypeOK, NEW S
  PROVE  /\ Frees(S) \in [DOMAIN objs -> Strings]
         /\ \A x \in DOMAIN objs :
              /\ Frees(S)[x].name = objs[x].name
              /\ Frees(S)[x].value = objs[x].value
              /\ Frees(S)[x].by = objs[x].by
              /\ Frees(S)[x].live <=> objs[x].live /\ x \notin S
<1>1. \A x \in DOMAIN objs : objs[x] \in Strings
  BY DEF EnvTypeOK
<1> QED
  BY <1>1, Zenon DEF Frees, Strings

(* An entry is a string. *)
LEMMA EntryIs ==
  ASSUME EnvTypeOK, NEW r \in 1 .. Len(environ)
  PROVE  environ[r] \in DOMAIN objs /\ objs[environ[r]] \in Strings
BY DEF EnvTypeOK

(* The invariant gives what getenv must find. *)
LEMMA Gives ==
  ASSUME EnvInv
  PROVE  EnvironmentExact
<1>1. ASSUME NEW n \in Names
      PROVE  getenv(n) = intended[n]
  <2> DEFINE k == find_env_index(n)
  <2>1. EnvTypeOK /\ Entries /\ Intended
    BY DEF EnvInv
  <2>2. \/ k = 0 /\ \A r \in 1 .. Len(environ) : NameAt(r) # n
        \/ k \in 1 .. Len(environ) /\ NameAt(k) = n
    BY <2>1, Find
  <2> HIDE DEF k
  <2>3. CASE k = 0 /\ \A r \in 1 .. Len(environ) : NameAt(r) # n
    BY <2>1, <2>3 DEF getenv, k, Intended
  <2>4. CASE k \in 1 .. Len(environ) /\ NameAt(k) = n
    <3>1. k # 0 /\ intended[n] = objs[environ[k]].value
      BY <2>1, <2>4 DEF Intended
    <3> QED
      BY <3>1 DEF getenv, k
  <2> QED
    BY <2>2, <2>3, <2>4
<1> QED
  BY <1>1 DEF EnvInv, EnvironmentExact, GetenvExact, Entries
-----------------------------------------------------------------------------
(* free of nothing changes no string. *)
LEMMA FreedNone ==
  ASSUME EnvTypeOK
  PROVE  Frees({}) = objs
<1>1. ASSUME NEW x \in DOMAIN objs
      PROVE  [objs[x] EXCEPT !.live = @ /\ x \notin {}] = objs[x]
  <2>1. objs[x] \in Strings
    BY DEF EnvTypeOK
  <2> QED
    BY <2>1 DEF Strings
<1>2. objs = [x \in DOMAIN objs |-> objs[x]]
  BY DEF EnvTypeOK
<1> QED
  BY <1>1, <1>2 DEF Frees

(* A string takes the place of the variable's entry.  The one that was     *)
(* there may have been freed if it was the library's.                      *)
LEMMA Replaced ==
  ASSUME EnvInv, NEW n \in Names, NEW v \in Values, NEW b \in {"lib", "client"},
         NEW idx \in 1 .. Len(environ), NameAt(idx) = n,
         NEW S \in SUBSET {environ[idx]}, S # {} => objs[environ[idx]].by = "lib",
         environ_owned => b = "lib",
         objs' = With(Frees(S), New, String(n, v, b)),
         environ' = [environ EXCEPT ![idx] = New],
         intended' = [intended EXCEPT ![n] = v],
         UNCHANGED <<environ_owned, environ_flags>>, envops' = envops + 1
  PROVE  EnvInv'
<1> DEFINE new == String(n, v, b)
<1> USE DEF EnvInv
<1>1. new \in Strings /\ new.name = n /\ new.value = v /\ new.by = b /\ new.live
  BY DEF String, Strings
<1>2. /\ DOMAIN objs' = DOMAIN objs \cup {New}
      /\ objs'[New] = new
      /\ \A x \in DOMAIN objs : objs'[x] = Frees(S)[x]
      /\ objs' \in [DOMAIN objs' -> Strings]
  BY <1>1, Fresh, Freed DEF With
<1> HIDE DEF new
<1>3. environ \in Seq(DOMAIN objs) /\ Len(environ) \in Nat /\ envops \in Nat
  BY DEF EnvTypeOK
<1>4. /\ environ' \in Seq(DOMAIN objs') /\ Len(environ') = Len(environ)
      /\ environ'[idx] = New
      /\ \A r \in 1 .. Len(environ) : r # idx => environ'[r] = environ[r]
  BY <1>2, <1>3
<1>5. EnvTypeOK'
  <2>1. New \in (0 .. envops + 1) \X Nat
    BY <1>3 DEF New
  <2>2. DOMAIN objs' \subseteq (0 .. envops + 1) \X Nat
    BY <1>2, <1>3, <2>1 DEF EnvTypeOK
  <2>3. intended' \in [Names -> Values \cup {Unset}]
    BY DEF EnvTypeOK
  <2> QED
    BY <1>2, <1>3, <1>4, <2>2, <2>3 DEF EnvTypeOK
<1>6. \A r \in 1 .. Len(environ) : NameAt(r)' = NameAt(r)
  BY <1>1, <1>2, <1>4, Freed, EntryIs DEF NameAt
<1>7. \A r \in 1 .. Len(environ) : r # idx =>
         /\ environ[r] # environ[idx]
         /\ objs'[environ'[r]].value = objs[environ[r]].value
         /\ objs'[environ'[r]].by = objs[environ[r]].by
         /\ objs'[environ'[r]].live
  <2> TAKE r \in 1 .. Len(environ)
  <2> HAVE r # idx
  <2>1. environ[r] # environ[idx]
    BY DEF Entries, NameAt
  <2>2. environ[r] \in DOMAIN objs /\ objs[environ[r]].live
    BY EntryIs DEF Entries
  <2> QED
    BY <1>2, <1>4, <2>1, <2>2, Freed
<1>8. Entries'
  BY <1>1, <1>2, <1>4, <1>6, <1>7 DEF Entries
<1>9. Owned'
  BY <1>1, <1>2, <1>4, <1>6, <1>7 DEF Owned
<1>10. Intended'
  <2>1. \A r \in 1 .. Len(environ) : r # idx => NameAt(r) # n
    BY DEF Entries
  <2>2. \A r \in 1 .. Len(environ) : NameAt(r) \in Names
    BY EntryIs DEF NameAt, Strings
  <2>3. \A m \in Names : intended'[m] = IF m = n THEN v ELSE intended[m]
    BY DEF EnvTypeOK
  <2> QED
    BY <1>1, <1>2, <1>4, <1>6, <1>7, <2>1, <2>2, <2>3 DEF Intended
<1>11. ClientStringsKept'
  BY <1>1, <1>2, Freed, EntryIs DEF ClientStringsKept
<1> QED
  BY <1>5, <1>8, <1>9, <1>10, <1>11

(* What Append gives. *)
LEMMA Appended ==
  ASSUME NEW T, NEW s \in Seq(T), NEW e \in T
  PROVE  /\ Append(s, e) \in Seq(T) /\ Len(Append(s, e)) = Len(s) + 1
         /\ Append(s, e)[Len(s) + 1] = e
OBVIOUS

(* A string is added to an array that is the library's own now: what was   *)
(* not the library's in the old array is a copy in the new one.            *)
LEMMA Added ==
  ASSUME EnvInv, NEW n \in Names, NEW v \in Values, NEW b \in {"lib", "client"},
         NEW flag \in BOOLEAN, flag \/ n \in SetNames => b = "lib",
         \A r \in 1 .. Len(environ) : NameAt(r) # n,
         AddEntry(String(n, v, b), flag),
         intended' = [intended EXCEPT ![n] = v], envops' = envops + 1
  PROVE  EnvInv'
<1>0. PICK len : len = Len(environ)
  BY Zenon
<1> DEFINE new == String(n, v, b)
           moved == [r \in 1 .. len |-> IF Flagged(r) THEN environ[r] ELSE CopyOf(r)]
           copied == {r \in 1 .. len : ~Flagged(r)}
           copy(r) == String(objs[environ[r]].name, objs[environ[r]].value, "lib")
<1> USE <1>0 DEF EnvInv
<1>1. new \in Strings /\ new.name = n /\ new.value = v /\ new.by = b /\ new.live
  BY DEF String, Strings
<1>2. \A r \in 1 .. len : /\ copy(r) \in Strings
                          /\ copy(r).name = NameAt(r)
                          /\ copy(r).value = objs[environ[r]].value
                          /\ copy(r).by = "lib" /\ copy(r).live
  BY EntryIs DEF String, Strings, NameAt
<1>3. environ \in Seq(DOMAIN objs) /\ len \in Nat /\ envops \in Nat
  BY DEF EnvTypeOK
<1>4. /\ DOMAIN objs' = DOMAIN objs \cup {CopyOf(r) : r \in copied} \cup {New}
      /\ \A x \in DOMAIN objs : objs'[x] = objs[x]
      /\ objs'[New] = new
      /\ \A r \in copied : objs'[CopyOf(r)] = copy(r)
  <2>1. objs' = [x \in DOMAIN objs \cup {CopyOf(r) : r \in copied} \cup {New} |->
                   CASE x \in DOMAIN objs -> objs[x]
                     [] x = New -> new
                     [] OTHER -> copy(x[2])]
    BY DEF AddEntry
  <2> HIDE DEF copy, new
  <2>2. New \notin DOMAIN objs
    BY Fresh
  <2>3. \A r \in copied : /\ CopyOf(r) \notin DOMAIN objs
                          /\ CopyOf(r) # New /\ CopyOf(r)[2] = r
    BY <1>3, Fresh
  <2> HIDE DEF copied
  <2>4. DOMAIN objs' = DOMAIN objs \cup {CopyOf(r) : r \in copied} \cup {New}
    BY <2>1
  <2>5. \A x \in DOMAIN objs : objs'[x] = objs[x]
    BY <2>1, <2>2
  <2>6. objs'[New] = new
    BY <2>1, <2>2
  <2>7. \A r \in copied : objs'[CopyOf(r)] = copy(r)
    BY <2>1, <2>3
  <2> QED
    BY <2>4, <2>5, <2>6, <2>7
<1>5. objs' \in [DOMAIN objs' -> Strings]
  <2>1. objs' = [x \in DOMAIN objs' |-> objs'[x]]
    BY DEF AddEntry
  <2>2. \A x \in DOMAIN objs : objs[x] \in Strings
    BY DEF EnvTypeOK
  <2> HIDE DEF new, copy
  <2>3. ASSUME NEW x \in DOMAIN objs' PROVE objs'[x] \in Strings
    BY <1>1, <1>2, <1>4, <2>2
  <2> QED
    BY <2>1, <2>3
<1> HIDE DEF new, copy
<1>6. moved \in Seq(DOMAIN objs') /\ Len(moved) = len
  <2>1. \A r \in 1 .. len : moved[r] \in DOMAIN objs'
    BY <1>3, <1>4, EntryIs
  <2> QED
    BY <1>3, <2>1
<1>7. environ' = Append(moved, New)
  BY DEF AddEntry
<1>8. /\ environ' \in Seq(DOMAIN objs') /\ Len(environ') = len + 1
      /\ environ'[len + 1] = New
      /\ \A r \in 1 .. len : environ'[r] = IF Flagged(r) THEN environ[r] ELSE CopyOf(r)
  BY <1>3, <1>4, <1>6, <1>7
<1>9. \A r \in 1 .. len : /\ NameAt(r)' = NameAt(r)
                          /\ objs'[environ'[r]].value = objs[environ[r]].value
                          /\ objs'[environ'[r]].live
                          /\ objs'[environ'[r]].by = "lib"
  <2> TAKE r \in 1 .. len
  <2>1. CASE Flagged(r)
    <3>1. environ'[r] = environ[r] /\ environ[r] \in DOMAIN objs
      BY <1>8, <2>1, EntryIs
    <3>2. objs[environ[r]].live /\ objs[environ[r]].by = "lib"
      BY <2>1 DEF Entries, Owned, Flagged
    <3> QED
      BY <1>4, <3>1, <3>2 DEF NameAt
  <2>2. CASE ~Flagged(r)
    BY <1>2, <1>4, <1>8, <2>2 DEF NameAt
  <2> QED
    BY <2>1, <2>2
<1>10. /\ NameAt(len + 1)' = n /\ objs'[environ'[len + 1]] = new
       /\ \A r \in 1 .. len + 1 : r \in 1 .. len \/ r = len + 1
  BY <1>1, <1>3, <1>4, <1>8 DEF NameAt
<1>11. /\ environ_owned' = TRUE
       /\ environ_flags' = Append([r \in 1 .. len |-> TRUE], flag)
  BY DEF AddEntry
<1>12. /\ environ_flags' \in Seq(BOOLEAN) /\ Len(environ_flags') = len + 1
       /\ environ_flags'[len + 1] = flag
  <2> DEFINE flags == [r \in 1 .. len |-> TRUE]
  <2>1. flags \in Seq(BOOLEAN) /\ Len(flags) = len
    BY <1>3
  <2>2. environ_flags' = Append(flags, flag)
    BY <1>11
  <2> HIDE DEF flags
  <2>3. /\ Append(flags, flag) \in Seq(BOOLEAN) /\ Len(Append(flags, flag)) = Len(flags) + 1
        /\ Append(flags, flag)[Len(flags) + 1] = flag
    BY <2>1, Appended
  <2> QED
    BY <2>1, <2>2, <2>3, Zenon
<1>13. EnvTypeOK'
  <2>1. New \in (0 .. envops + 1) \X Nat /\ \A r \in copied : CopyOf(r) \in (0 .. envops + 1) \X Nat
    BY <1>3 DEF New, CopyOf
  <2>2. DOMAIN objs' \subseteq (0 .. envops + 1) \X Nat
    BY <1>3, <1>4, <2>1 DEF EnvTypeOK
  <2>3. intended' \in [Names -> Values \cup {Unset}]
    BY DEF EnvTypeOK
  <2> QED
    BY <1>3, <1>5, <1>8, <1>11, <1>12, <2>2, <2>3 DEF EnvTypeOK
<1> HIDE DEF copied, moved
<1>14. Entries'
  <2>1. \A r \in 1 .. len + 1 : objs'[environ'[r]].live
    BY <1>1, <1>9, <1>10
  <2>2. ASSUME NEW r \in 1 .. len + 1, NEW t \in 1 .. len + 1, NameAt(r)' = NameAt(t)'
        PROVE  r = t
    <3>1. \A q, s \in 1 .. len : NameAt(q) = NameAt(s) => q = s
      BY DEF Entries
    <3>2. \A q \in 1 .. len : NameAt(q)' = NameAt(q) /\ NameAt(q) # n
      BY <1>9
    <3>3. CASE r \in 1 .. len /\ t \in 1 .. len
      <4>1. NameAt(r) = NameAt(t)
        BY <2>2, <3>2, <3>3, Zenon
      <4> QED
        BY <3>1, <3>3, <4>1, Zenon
    <3>4. CASE r \in 1 .. len /\ t = len + 1
      BY <1>10, <2>2, <3>2, <3>4, Zenon
    <3>5. CASE t \in 1 .. len /\ r = len + 1
      BY <1>10, <2>2, <3>2, <3>5, Zenon
    <3> QED
      BY <1>10, <3>3, <3>4, <3>5
  <2> QED
    BY <1>8, <2>1, <2>2, Zenon DEF Entries
<1>15. Owned'
  BY <1>1, <1>3, <1>8, <1>9, <1>10, <1>12 DEF Owned
<1>16. Intended'
  <2>1. \A r \in 1 .. len : NameAt(r) \in Names
    BY EntryIs DEF NameAt, Strings
  <2>2. \A m \in Names : intended'[m] = IF m = n THEN v ELSE intended[m]
    BY DEF EnvTypeOK
  <2>3. \A r \in 1 .. len + 1 : intended'[NameAt(r)'] = objs'[environ'[r]].value
    BY <1>1, <1>9, <1>10, <2>1, <2>2 DEF Intended
  <2>4. ASSUME NEW m \in Names, \A r \in 1 .. len + 1 : NameAt(r)' # m
        PROVE  intended'[m] = Unset
    <3>1. m # n
      BY <1>3, <1>10, <2>4
    <3>2. \A r \in 1 .. len : NameAt(r) # m
      BY <1>3, <1>9, <2>4
    <3> QED
      BY <2>2, <3>1, <3>2 DEF Intended
  <2> QED
    BY <1>8, <2>3, <2>4 DEF Intended
<1>17. ClientStringsKept'
  BY <1>1, <1>2, <1>4 DEF ClientStringsKept, copied
<1> QED
  BY <1>13, <1>14, <1>15, <1>16, <1>17

(* What \o gives. *)
LEMMA Concatenated ==
  ASSUME NEW T, NEW p \in Seq(T), NEW q \in Seq(T)
  PROVE  /\ p \o q \in Seq(T) /\ Len(p \o q) = Len(p) + Len(q)
         /\ \A r \in 1 .. Len(p) + Len(q) : (p \o q)[r] = IF r <= Len(p) THEN p[r] ELSE q[r - Len(p)]
OBVIOUS

(* A sequence without one of its elements: those after it move down. *)
LEMMA WithoutIs ==
  ASSUME NEW T, NEW s \in Seq(T), NEW idx \in 1 .. Len(s)
  PROVE  /\ Without(s, idx) \in Seq(T)
         /\ Len(Without(s, idx)) = Len(s) - 1
         /\ \A r \in 1 .. Len(s) - 1 : Without(s, idx)[r] = IF r < idx THEN s[r] ELSE s[r + 1]
<1> DEFINE p == SubSeq(s, 1, idx - 1)
           q == SubSeq(s, idx + 1, Len(s))
<1>1. p \in Seq(T) /\ Len(p) = idx - 1 /\ \A r \in 1 .. idx - 1 : p[r] = s[r]
  OBVIOUS
<1>2. q \in Seq(T) /\ Len(q) = Len(s) - idx /\ \A r \in 1 .. Len(s) - idx : q[r] = s[idx + r]
  OBVIOUS
<1> HIDE DEF p, q
<1>3. /\ p \o q \in Seq(T) /\ Len(p \o q) = Len(p) + Len(q)
      /\ \A r \in 1 .. Len(p) + Len(q) : (p \o q)[r] = IF r <= Len(p) THEN p[r] ELSE q[r - Len(p)]
  BY <1>1, <1>2, Concatenated, Zenon
<1>4. Without(s, idx) = p \o q
  BY DEF Without, p, q
<1> QED
  <2>1. Len(s) \in Nat /\ idx \in 1 .. Len(s)
    OBVIOUS
  <2>2. ASSUME NEW r \in 1 .. Len(s) - 1
        PROVE  (p \o q)[r] = IF r < idx THEN s[r] ELSE s[r + 1]
    <3>1. CASE r < idx
      BY <1>1, <1>2, <1>3, <2>1, <3>1
    <3>2. CASE ~(r < idx)
      <4>1. r - (idx - 1) \in 1 .. Len(s) - idx /\ idx + (r - (idx - 1)) = r + 1
        BY <2>1, <3>2
      <4>2. (p \o q)[r] = q[r - (idx - 1)]
        BY <1>1, <1>2, <1>3, <2>1, <3>2
      <4> QED
        BY <1>2, <3>2, <4>1, <4>2
    <3> QED
      BY <3>1, <3>2, Zenon
  <2>3. Without(s, idx) \in Seq(T) /\ Len(Without(s, idx)) = Len(s) - 1
    BY <1>1, <1>2, <1>3, <1>4, <2>1
  <2> QED
    BY <1>4, <2>2, <2>3, Zenon

(* The variable's entry is taken out, and freed if it is flagged. *)
LEMMA Removed ==
  ASSUME EnvInv, NEW n \in Names, NEW idx \in 1 .. Len(environ), NameAt(idx) = n,
         NEW S \in SUBSET {environ[idx]}, S # {} => objs[environ[idx]].by = "lib",
         objs' = Frees(S), environ' = Without(environ, idx),
         environ_flags' = IF environ_owned THEN ShiftFlags(idx) ELSE environ_flags,
         intended' = [intended EXCEPT ![n] = Unset],
         UNCHANGED environ_owned, envops' = envops + 1
  PROVE  EnvInv'
<1>0. PICK len : len = Len(environ)
  OBVIOUS
<1> USE <1>0 DEF EnvInv
<1> DEFINE was(r) == IF r < idx THEN r ELSE r + 1
<1>1. environ \in Seq(DOMAIN objs) /\ len \in Nat /\ idx \in 1 .. len /\ envops \in Nat
  BY DEF EnvTypeOK
<1>2. DOMAIN objs' = DOMAIN objs /\ objs' \in [DOMAIN objs -> Strings]
  BY Freed
<1>3. /\ environ' \in Seq(DOMAIN objs') /\ Len(environ') = len - 1
      /\ \A r \in 1 .. len - 1 : environ'[r] = environ[was(r)]
  <2>1. \A r \in 1 .. len - 1 : Without(environ, idx)[r] = IF r < idx THEN environ[r] ELSE environ[r + 1]
    BY <1>0, <1>1, WithoutIs, Zenon
  <2>2. Without(environ, idx) \in Seq(DOMAIN objs) /\ Len(Without(environ, idx)) = len - 1
    BY <1>1, WithoutIs
  <2> QED
    BY <1>2, <2>1, <2>2
<1>4. /\ \A r \in 1 .. len - 1 : was(r) \in 1 .. len /\ was(r) # idx
      /\ \A r, t \in 1 .. len - 1 : was(r) = was(t) => r = t
      /\ \A k \in 1 .. len : k # idx => \E r \in 1 .. len - 1 : was(r) = k
  <2>1. ASSUME NEW k \in 1 .. len, k # idx
        PROVE  \E r \in 1 .. len - 1 : was(r) = k
    <3>1. CASE k < idx
      <4> WITNESS k \in 1 .. len - 1
      <4> QED
        BY <3>1
    <3>2. CASE k > idx
      <4>1. k - 1 \in 1 .. len - 1
        BY <1>1, <3>2
      <4> WITNESS k - 1 \in 1 .. len - 1
      <4> QED
        BY <1>1, <3>2
    <3> QED
      BY <1>1, <2>1, <3>1, <3>2
  <2> QED
    BY <1>1, <2>1
<1>5. environ_owned => /\ environ_flags' \in Seq(BOOLEAN) /\ Len(environ_flags') = len - 1
                       /\ \A r \in 1 .. len - 1 : environ_flags'[r] = environ_flags[was(r)]
  <2> HAVE environ_owned
  <2>1. environ_flags \in Seq(BOOLEAN) /\ Len(environ_flags) = len
    BY DEF EnvTypeOK
  <2>2. environ_flags' = Without(environ_flags, idx)
    BY DEF ShiftFlags
  <2>3. /\ Without(environ_flags, idx) \in Seq(BOOLEAN)
        /\ Len(Without(environ_flags, idx)) = len - 1
        /\ \A r \in 1 .. len - 1 :
              Without(environ_flags, idx)[r] = IF r < idx THEN environ_flags[r] ELSE environ_flags[r + 1]
    BY <1>1, <2>1, WithoutIs
  <2> QED
    BY <2>2, <2>3
<1>6. ASSUME NEW k \in 1 .. len, k # idx
      PROVE  /\ objs'[environ[k]].name = NameAt(k) /\ NameAt(k) # n
             /\ objs'[environ[k]].value = objs[environ[k]].value
             /\ objs'[environ[k]].by = objs[environ[k]].by
             /\ objs'[environ[k]].live
  <2>1. NameAt(k) # n /\ environ[k] # environ[idx]
    BY <1>6 DEF Entries, NameAt
  <2>2. environ[k] \in DOMAIN objs /\ objs[environ[k]].live
    BY EntryIs DEF Entries
  <2> QED
    BY <2>1, <2>2, Freed DEF NameAt
<1> HIDE DEF was
<1>7. ASSUME NEW r \in 1 .. len - 1 PROVE NameAt(r)' = NameAt(was(r))
  <2>1. environ'[r] = environ[was(r)] /\ was(r) \in 1 .. len /\ was(r) # idx
    BY <1>3, <1>4
  <2>2. objs'[environ[was(r)]].name = NameAt(was(r))
    BY <1>6, <2>1
  <2> QED
    BY <2>1, <2>2 DEF NameAt
<1>8. EnvTypeOK'
  <2>1. DOMAIN objs' \subseteq (0 .. envops + 1) \X Nat
    BY <1>1, <1>2 DEF EnvTypeOK
  <2>2. intended' \in [Names -> Values \cup {Unset}]
    BY DEF EnvTypeOK
  <2>3. environ_owned' => environ_flags' \in Seq(BOOLEAN) /\ Len(environ_flags') = Len(environ')
    BY <1>3, <1>5
  <2> QED
    BY <1>1, <1>2, <1>3, <2>1, <2>2, <2>3 DEF EnvTypeOK
<1>9. Entries'
  <2>1. \A r \in 1 .. len - 1 : objs'[environ'[r]].live
    BY <1>3, <1>4, <1>6, Zenon
  <2>2. ASSUME NEW r \in 1 .. len - 1, NEW t \in 1 .. len - 1, NameAt(r)' = NameAt(t)'
        PROVE  r = t
    <3>1. \A q, s \in 1 .. len : NameAt(q) = NameAt(s) => q = s
      BY DEF Entries
    <3>2. /\ was(r) \in 1 .. len /\ was(t) \in 1 .. len
          /\ was(r) = was(t) => r = t
      BY <1>4
    <3>3. NameAt(was(r)) = NameAt(was(t))
      BY <1>7, <2>2, Zenon
    <3> QED
      BY <3>1, <3>2, <3>3, Zenon
  <2> QED
    BY <1>3, <2>1, <2>2, Zenon DEF Entries
<1>10. Owned'
  <2>1. SUFFICES ASSUME environ_owned, NEW r \in 1 .. len - 1,
                        environ_flags'[r] \/ NameAt(r)' \in SetNames
                 PROVE  objs'[environ'[r]].by = "lib"
    BY <1>3 DEF Owned
  <2>2. environ_flags[was(r)] \/ NameAt(was(r)) \in SetNames
    BY <1>5, <1>7, <2>1, Zenon
  <2>3. was(r) \in 1 .. len /\ was(r) # idx
    BY <1>4
  <2>4. objs[environ[was(r)]].by = "lib"
    BY <2>1, <2>2, <2>3 DEF Owned
  <2> QED
    BY <1>3, <1>6, <2>3, <2>4
<1>11. Intended'
  <2>1. \A r \in 1 .. len : NameAt(r) \in Names
    BY EntryIs DEF NameAt, Strings
  <2>2. \A m \in Names : intended'[m] = IF m = n THEN Unset ELSE intended[m]
    BY DEF EnvTypeOK
  <2>3. \A r \in 1 .. len - 1 : intended'[NameAt(r)'] = objs'[environ'[r]].value
    <3> TAKE r \in 1 .. len - 1
    <3>1. was(r) \in 1 .. len /\ was(r) # idx
      BY <1>4
    <3>2. /\ NameAt(r)' = NameAt(was(r)) /\ NameAt(was(r)) # n
          /\ objs'[environ'[r]].value = objs[environ[was(r)]].value
      BY <1>3, <1>6, <1>7, <3>1
    <3>3. intended[NameAt(was(r))] = objs[environ[was(r)]].value /\ NameAt(was(r)) \in Names
      BY <2>1, <3>1 DEF Intended
    <3> QED
      BY <2>2, <3>2, <3>3
  <2>4. ASSUME NEW m \in Names, \A r \in 1 .. len - 1 : NameAt(r)' # m
        PROVE  intended'[m] = Unset
    <3>1. CASE m = n
      BY <2>2, <3>1
    <3>2. CASE m # n
      <4>1. \A k \in 1 .. len : NameAt(k) # m
        BY <1>4, <1>7, <2>4, <3>2
      <4> QED
        BY <2>2, <3>2, <4>1 DEF Intended
    <3> QED
      BY <3>1, <3>2
  <2> QED
    BY <1>3, <2>3, <2>4 DEF Intended
<1>12. ClientStringsKept'
  BY <1>2, Freed, EntryIs DEF ClientStringsKept
<1> QED
  BY <1>8, <1>9, <1>10, <1>11, <1>12

(* clearenv keeps the invariant. *)
LEMMA Emptied ==
  ASSUME EnvInv, Clearenv, envops' = envops + 1
  PROVE  EnvInv'
<1> USE DEF EnvInv
<1>1. /\ objs' \in [DOMAIN objs' -> Strings] /\ DOMAIN objs' = DOMAIN objs
      /\ environ' = <<>> /\ environ_flags' = <<>> /\ environ_owned' = environ_owned
      /\ intended' = [n \in Names |-> Unset]
  BY Freed DEF Clearenv
<1>2. EnvTypeOK'
  BY <1>1 DEF EnvTypeOK
<1>3. ASSUME NEW x \in DOMAIN objs, objs[x].by = "client"
      PROVE  x \notin Cleared
  BY <1>3 DEF Cleared, Flagged, Owned
<1>4. ClientStringsKept'
  BY <1>1, <1>3, Freed DEF ClientStringsKept, Clearenv
<1>5. Entries' /\ Owned' /\ Intended'
  BY <1>1 DEF Entries, Owned, Intended
<1> QED
  BY <1>2, <1>4, <1>5

(* The strings, the array and what it means are as they were. *)
LEMMA Same ==
  ASSUME EnvInv, UNCHANGED <<objs, environ, environ_owned, environ_flags, intended>>,
         envops' \in {envops, envops + 1}
  PROVE  EnvInv'
<1>1. EnvTypeOK'
  BY DEF EnvInv, EnvTypeOK
<1> QED
  BY <1>1 DEF EnvInv, Entries, Owned, Intended, ClientStringsKept, NameAt

(* A copy fails, before the array is the library's: nothing was moved yet. *)
LEMMA Refused ==
  ASSUME EnvInv, Discipline, NEW r \in 1 .. Len(environ), AddFails(r),
         UNCHANGED intended, envops' = envops + 1
  PROVE  EnvInv'
<1>1. ~environ_owned
  BY Zenon DEF AddFails, Discipline
<1>2. {environ[t] : t \in {k \in 1 .. r - 1 : Flagged(k)}} = {}
  BY <1>1 DEF Flagged
<1>3. objs' = objs
  BY <1>2, FreedNone, Zenon DEF AddFails, EnvInv
<1> QED
  BY <1>3, Same DEF AddFails

(* setenv keeps the invariant. *)
LEMMA SetenvKeeps ==
  ASSUME EnvInv, Discipline, NEW n \in SetNames, NEW v \in Values, NEW o \in BOOLEAN,
         Setenv(n, v, o), envops' = envops + 1
  PROVE  EnvInv'
<1> DEFINE idx == find_env_index(n)
<1>1. \/ idx = 0 /\ \A r \in 1 .. Len(environ) : NameAt(r) # n
      \/ idx \in 1 .. Len(environ) /\ NameAt(idx) = n
  BY Find DEF EnvInv
<1>2. n \in Names
  BY DEF Names
<1>3. \/ UNCHANGED <<objs, environ, environ_owned, environ_flags, intended>>
      \/ /\ idx > 0 /\ Replace(idx, String(n, v, "lib"))
         /\ intended' = [intended EXCEPT ![n] = v]
         /\ UNCHANGED <<environ_owned, environ_flags>>
      \/ /\ idx = 0 /\ AddEntry(String(n, v, "lib"), TRUE)
         /\ intended' = [intended EXCEPT ![n] = v]
      \/ \E r \in 1 .. Len(environ) : AddFails(r) /\ UNCHANGED intended
  BY Zenon DEF Setenv
<1> HIDE DEF idx
<1>4. CASE UNCHANGED <<objs, environ, environ_owned, environ_flags, intended>>
  BY <1>4, Same
<1>5. CASE /\ idx > 0 /\ Replace(idx, String(n, v, "lib"))
           /\ intended' = [intended EXCEPT ![n] = v]
           /\ UNCHANGED <<environ_owned, environ_flags>>
  <2>1. idx \in 1 .. Len(environ) /\ NameAt(idx) = n
    BY <1>1, <1>5
  <2>2. environ_owned => objs[environ[idx]].by = "lib"
    BY <2>1 DEF EnvInv, Owned
  <2> DEFINE S == IF environ_owned THEN {environ[idx]} ELSE {}
  <2>3. S \in SUBSET {environ[idx]} /\ (S # {} => objs[environ[idx]].by = "lib")
    BY <2>2
  <2>4. /\ objs' = With(Frees(S), New, String(n, v, "lib"))
        /\ environ' = [environ EXCEPT ![idx] = New]
    BY <1>5, FreedNone DEF Replace, EnvInv
  <2> HIDE DEF S
  <2> QED
    BY <1>2, <1>5, <2>1, <2>3, <2>4, Replaced, Zenon
<1>6. CASE /\ idx = 0 /\ AddEntry(String(n, v, "lib"), TRUE)
           /\ intended' = [intended EXCEPT ![n] = v]
  <2>1. \A r \in 1 .. Len(environ) : NameAt(r) # n
    BY <1>1, <1>6
  <2>2. (TRUE \/ n \in SetNames => "lib" = "lib") /\ TRUE \in BOOLEAN
    OBVIOUS
  <2> QED
    BY <1>2, <1>6, <2>1, <2>2, Added, Zenon
<1>7. CASE \E r \in 1 .. Len(environ) : AddFails(r) /\ UNCHANGED intended
  BY <1>7, Refused
<1> QED
  BY <1>3, <1>4, <1>5, <1>6, <1>7, Zenon

(* putenv keeps the invariant. *)
LEMMA PutenvKeeps ==
  ASSUME EnvInv, Discipline, NEW n \in PutNames, NEW v \in Values,
         Putenv(n, v), envops' = envops + 1
  PROVE  EnvInv'
<1> DEFINE idx == find_env_index(n)
<1>1. \/ idx = 0 /\ \A r \in 1 .. Len(environ) : NameAt(r) # n
      \/ idx \in 1 .. Len(environ) /\ NameAt(idx) = n
  BY Find DEF EnvInv
<1>2. n \in Names /\ n \notin SetNames
  BY DEF Names, Discipline
<1>3. \/ /\ idx > 0 /\ ~environ_owned
         /\ objs' = With(objs, New, String(n, v, "client"))
         /\ environ' = [environ EXCEPT ![idx] = New]
         /\ intended' = [intended EXCEPT ![n] = v]
         /\ UNCHANGED <<environ_owned, environ_flags>>
      \/ /\ idx = 0 /\ AddEntry(String(n, v, "client"), FALSE)
         /\ intended' = [intended EXCEPT ![n] = v]
      \/ \E r \in 1 .. Len(environ) : AddFails(r) /\ UNCHANGED intended
  BY Zenon DEF Putenv, Discipline
<1> HIDE DEF idx
<1>4. CASE /\ idx > 0 /\ ~environ_owned
           /\ objs' = With(objs, New, String(n, v, "client"))
           /\ environ' = [environ EXCEPT ![idx] = New]
           /\ intended' = [intended EXCEPT ![n] = v]
           /\ UNCHANGED <<environ_owned, environ_flags>>
  <2>1. idx \in 1 .. Len(environ) /\ NameAt(idx) = n
    BY <1>1, <1>4
  <2> DEFINE S == {}
  <2>2. objs' = With(Frees(S), New, String(n, v, "client"))
    BY <1>4, FreedNone DEF EnvInv
  <2>3. S \in SUBSET {environ[idx]} /\ (S # {} => objs[environ[idx]].by = "lib")
    OBVIOUS
  <2> HIDE DEF S
  <2> QED
    BY <1>2, <1>4, <2>1, <2>2, <2>3, Replaced, Zenon
<1>5. CASE /\ idx = 0 /\ AddEntry(String(n, v, "client"), FALSE)
           /\ intended' = [intended EXCEPT ![n] = v]
  <2>1. \A r \in 1 .. Len(environ) : NameAt(r) # n
    BY <1>1, <1>5
  <2>2. (FALSE \/ n \in SetNames => "client" = "lib") /\ FALSE \in BOOLEAN
    BY <1>2
  <2> QED
    BY <1>2, <1>5, <2>1, <2>2, Added, Zenon
<1>6. CASE \E r \in 1 .. Len(environ) : AddFails(r) /\ UNCHANGED intended
  BY <1>6, Refused
<1> QED
  BY <1>3, <1>4, <1>5, <1>6, Zenon

(* unsetenv keeps the invariant. *)
LEMMA UnsetenvKeeps ==
  ASSUME EnvInv, NEW n \in Names, Unsetenv(n), envops' = envops + 1
  PROVE  EnvInv'
<1> DEFINE idx == find_env_index(n)
<1>1. \/ idx = 0 /\ \A r \in 1 .. Len(environ) : NameAt(r) # n
      \/ idx \in 1 .. Len(environ) /\ NameAt(idx) = n
  BY Find DEF EnvInv
<1>2. /\ intended' = [intended EXCEPT ![n] = Unset]
      /\ environ_owned' = environ_owned
      /\ idx = 0 => UNCHANGED <<objs, environ, environ_flags>>
      /\ idx # 0 => /\ objs' = IF Flagged(idx) THEN Frees({environ[idx]}) ELSE objs
                    /\ environ' = Without(environ, idx)
                    /\ environ_flags' = IF environ_owned THEN ShiftFlags(idx) ELSE environ_flags
  BY DEF Unsetenv
<1> HIDE DEF idx
<1>3. CASE idx = 0 /\ \A r \in 1 .. Len(environ) : NameAt(r) # n
  <2>1. intended \in [Names -> Values \cup {Unset}] /\ intended[n] = Unset
    BY <1>3 DEF EnvInv, Intended, EnvTypeOK
  <2>2. intended' = intended
    BY <1>2, <2>1
  <2> QED
    BY <1>2, <1>3, <2>2, Same
<1>4. CASE idx \in 1 .. Len(environ) /\ NameAt(idx) = n
  <2>1. Flagged(idx) => objs[environ[idx]].by = "lib"
    BY <1>4 DEF EnvInv, Owned, Flagged
  <2> DEFINE S == IF Flagged(idx) THEN {environ[idx]} ELSE {}
  <2>2. S \in SUBSET {environ[idx]} /\ (S # {} => objs[environ[idx]].by = "lib")
    BY <2>1
  <2>3. idx # 0 /\ objs' = Frees(S)
    BY <1>2, <1>4, FreedNone DEF EnvInv
  <2> HIDE DEF S
  <2> QED
    BY <1>2, <1>4, <2>2, <2>3, Removed, Zenon
<1> QED
  BY <1>1, <1>3, <1>4

(* The environment that the host passes on. *)
LEMMA EnvStarts ==
  EnvInit => EnvInv
<1> SUFFICES ASSUME EnvInit PROVE EnvInv
  OBVIOUS
<1>1. PICK size \in {0, 1}, h \in Names, v \in Values :
        /\ environ = [r \in 1 .. size |-> <<0, r>>]
        /\ objs = [x \in {<<0, r>> : r \in 1 .. size} |-> String(h, v, "client")]
        /\ intended = [n \in Names |-> IF size = 1 /\ n = h THEN v ELSE Unset]
  BY DEF EnvInit
<1>2. environ_owned = FALSE /\ envops = 0
  BY DEF EnvInit
<1>3. /\ String(h, v, "client") \in Strings /\ String(h, v, "client").live
      /\ String(h, v, "client").name = h /\ String(h, v, "client").value = v
  BY DEF String, Strings
<1>4. Len(environ) = size /\ \A r \in 1 .. size : environ[r] = <<0, r>>
  BY <1>1
<1>5. /\ DOMAIN objs = {<<0, r>> : r \in 1 .. size}
      /\ \A x \in DOMAIN objs : objs[x] = String(h, v, "client")
  BY <1>1
<1>6. EnvTypeOK
  <2>1. objs \in [DOMAIN objs -> Strings]
    BY <1>1, <1>3
  <2>2. DOMAIN objs \subseteq (0 .. 0) \X Nat
    BY <1>5
  <2>3. environ \in Seq(DOMAIN objs)
    BY <1>1, <1>5
  <2> QED
    BY <1>1, <1>2, <2>1, <2>2, <2>3, Zenon DEF EnvTypeOK
<1>7. ASSUME NEW r \in 1 .. size
      PROVE  r = 1 /\ size = 1 /\ objs[environ[r]] = String(h, v, "client")
  <2>1. r = 1 /\ size = 1
    OBVIOUS
  <2>2. environ[r] \in DOMAIN objs
    BY <1>4, <1>5, Zenon
  <2> QED
    BY <1>5, <2>1, <2>2
<1>8. Entries /\ Owned /\ ClientStringsKept
  <2>1. Entries
    BY <1>3, <1>4, <1>7 DEF Entries
  <2>2. Owned
    BY <1>2 DEF Owned, Flagged
  <2>3. ClientStringsKept
    BY <1>3, <1>5 DEF ClientStringsKept
  <2> QED
    BY <2>1, <2>2, <2>3
<1>9. Intended
  <2>1. \A r \in 1 .. size : NameAt(r) = h /\ objs[environ[r]].value = v
    BY <1>3, <1>7 DEF NameAt
  <2>2. \A n \in Names : intended[n] = IF size = 1 /\ n = h THEN v ELSE Unset
    BY <1>1
  <2>3. size = 1 => 1 \in 1 .. size
    OBVIOUS
  <2>4. \A r \in 1 .. size : intended[NameAt(r)] = objs[environ[r]].value
    BY <1>7, <2>1, <2>2
  <2>5. ASSUME NEW n \in Names, \A r \in 1 .. size : NameAt(r) # n
        PROVE  intended[n] = Unset
    <3>1. ~(size = 1 /\ n = h)
      BY <2>1, <2>3, <2>5
    <3> QED
      BY <2>2, <3>1
  <2> QED
    BY <1>4, <2>4, <2>5 DEF Intended
<1> QED
  BY <1>6, <1>8, <1>9 DEF EnvInv

(* src/env.c: in a program that sets a variable or puts it, and puts it    *)
(* again only before the array is the library's, and in which no copy      *)
(* fails once it is, getenv always finds what the last call made of the    *)
(* variable, environ points to no freed string, and no string of the       *)
(* client is ever freed.                                                   *)
THEOREM EnvironmentRight ==
  ASSUME Discipline
  PROVE  EnvSpec => []EnvironmentExact
<1>1. EnvInit => EnvInv
  BY EnvStarts
<1>2. EnvInv /\ [EnvNext]_envVars => EnvInv'
  <2> SUFFICES ASSUME EnvInv, [EnvNext]_envVars PROVE EnvInv'
    OBVIOUS
  <2>1. CASE EnvNext
    BY <2>1, SetenvKeeps, PutenvKeeps, UnsetenvKeeps, Emptied DEF EnvNext
  <2>2. CASE UNCHANGED envVars
    BY <2>2, Same DEF envVars
  <2> QED
    BY <2>1, <2>2
<1>3. EnvInv => EnvironmentExact
  BY Gives
<1> QED
  BY <1>1, <1>2, <1>3, PTL DEF EnvSpec
-----------------------------------------------------------------------------
INSTANCE FiniteSetTheorems

(* The counter stays below INT_MAX since every post is a call. *)
PostsAreCalls == posted <= calls

IInv == TypeOK /\ Conservation /\ PostsAreCalls /\ UnitsAttended
-----------------------------------------------------------------------------
USE ThreadsAssumption, IntAssumption

(* Finitely many threads are on their way to a unit, *)
LEMMA ActiveFinite == IsFiniteSet(Active) /\ Cardinality(Active) \in Nat
<1>1. Active \in SUBSET Threads
  BY DEF Active
<1> QED BY <1>1, FS_Subset, FS_CardinalityType

(* also after a step. *)
LEMMA ActiveFinitePrime == IsFiniteSet(Active') /\ Cardinality(Active') \in Nat
<1>1. Active' \in SUBSET Threads
  BY DEF Active
<1> QED BY <1>1, FS_Subset, FS_CardinalityType

(* A unit more, or none, and an active thread more. *)
LEMMA Joins ==
  ASSUME TypeOK, UnitsAttended, NEW t \in Threads, t \notin Active,
         Active' = Active \cup {t}, count' \in Int, count' <= count + 1,
         \A u \in Threads : pc'[u] = "asleep" => pc[u] = "asleep"
  PROVE  UnitsAttended'
<1>1. Cardinality(Active') = Cardinality(Active) + 1
  BY ActiveFinite, FS_AddElement, Zenon
<1>2. count \in Int
  BY DEF TypeOK
<1> QED BY <1>1, <1>2, ActiveFinite DEF UnitsAttended

(* A unit less and an active thread less. *)
LEMMA Takes ==
  ASSUME TypeOK, UnitsAttended, NEW t \in Threads, t \in Active,
         Active' = Active \ {t}, count' = count - 1,
         \A u \in Threads : pc'[u] = "asleep" => pc[u] = "asleep"
  PROVE  UnitsAttended'
<1>1. Cardinality(Active') = Cardinality(Active) - 1
  BY ActiveFinite, FS_RemoveElement, Zenon
<1>2. count \in Int
  BY DEF TypeOK
<1> QED BY <1>1, <1>2, ActiveFinite DEF UnitsAttended

(* No unit is there to be attended to. *)
LEMMA NoUnits ==
  ASSUME TypeOK, count' = count, count <= 0
  PROVE  UnitsAttended'
<1>1. count \in Int
  BY DEF TypeOK
<1> QED BY <1>1, ActiveFinitePrime DEF UnitsAttended

(* A step that changes neither the units nor the active threads. *)
LEMMA Keeps ==
  ASSUME UnitsAttended, Active' = Active, count' = count,
         \A u \in Threads : pc'[u] = "asleep" => pc[u] = "asleep"
  PROVE  UnitsAttended'
BY DEF UnitsAttended
-----------------------------------------------------------------------------
(* A semaphore that sem_init has set up. *)
LEMMA InitIInv == Init => IInv
<1> SUFFICES ASSUME Init PROVE IInv
  OBVIOUS
<1>1. TypeOK
  BY DEF Init, TypeOK, Labels
<1>2. UnitsAttended
  BY DEF Init, UnitsAttended
<1> QED BY <1>1, <1>2 DEF Init, IInv, Conservation, PostsAreCalls

(* The counter alone: what each step does to it, with the types. *)
LEMMA StepCounts ==
  ASSUME IInv, [Next]_vars
  PROVE  TypeOK' /\ Conservation' /\ PostsAreCalls'
<1> USE DEF IInv
<1>1. CASE UNCHANGED vars
  BY <1>1 DEF vars, TypeOK, Labels, Conservation, PostsAreCalls
<1>2. ASSUME NEW t \in Threads, Post(t) PROVE TypeOK' /\ Conservation' /\ PostsAreCalls'
  <2>1. count < IntMax
    BY <1>2 DEF Post, Begin, TypeOK, Labels, Conservation, PostsAreCalls
  <2>2. count' = count + 1
    BY <1>2, <2>1 DEF Post, Increment, TypeOK
  <2>3. TypeOK'
    BY <1>2, <2>1, <2>2 DEF Post, Begin, Goto, TypeOK, Labels
  <2> QED BY <1>2, <2>2, <2>3 DEF Post, Begin, TypeOK, Labels, Conservation, PostsAreCalls
<1>3. ASSUME NEW t \in Threads, Exchange(t) PROVE TypeOK' /\ Conservation' /\ PostsAreCalls'
  BY <1>3 DEF Exchange, Goto, TypeOK, Labels, Conservation, PostsAreCalls
<1>4. ASSUME NEW t \in Threads, NEW o \in {"wait", "try", "timed"}, NEW passed \in BOOLEAN,
             Call(t, o, passed)
      PROVE  TypeOK' /\ Conservation' /\ PostsAreCalls'
  <2>1. TypeOK'
    BY <1>4 DEF Call, Begin, Goto, TypeOK, Labels
  <2> QED BY <1>4, <2>1 DEF Call, Begin, TypeOK, Labels, Conservation, PostsAreCalls
<1>5. ASSUME NEW t \in Threads, Load(t) \/ ExchangeFails(t)
      PROVE  TypeOK' /\ Conservation' /\ PostsAreCalls'
  <2>1. Failed(t) \in {"block", "idle", "clock"}
    BY DEF Failed, TypeOK
  <2>2. TypeOK'
    BY <1>5, <2>1 DEF Load, ExchangeFails, Goto, TypeOK, Labels
  <2> QED BY <1>5, <2>2, Zenon DEF Load, ExchangeFails, TypeOK, Labels, Conservation, PostsAreCalls
<1>6. ASSUME NEW t \in Threads, Clock(t) \/ Block(t) \/ Interrupt(t) \/ Timeout(t) \/ Wake(t) \/ Expire(t)
      PROVE  TypeOK' /\ Conservation' /\ PostsAreCalls'
  <2>1. TypeOK'
    BY <1>6, Zenon DEF Clock, Block, Interrupt, Timeout, Wake, Expire, Goto, TypeOK, Labels
  <2> QED BY <1>6, <2>1, Zenon DEF Clock, Block, Interrupt, Timeout, Wake, Expire, TypeOK, Labels, Conservation, PostsAreCalls
<1> QED BY <1>1, <1>2, <1>3, <1>4, <1>5, <1>6 DEF Next, Progress

(* No step leaves a unit without a thread to attend to it. *)
LEMMA StepAttends ==
  ASSUME IInv, [Next]_vars
  PROVE  UnitsAttended'
<1>0. TypeOK /\ UnitsAttended /\ TypeOK' /\ count \in Int /\ count' \in Int
  BY StepCounts DEF IInv, TypeOK
<1>1. CASE UNCHANGED vars
  BY <1>0, <1>1, Keeps DEF vars, Active
<1>2. ASSUME NEW t \in Threads, Post(t) PROVE UnitsAttended'
  <2>1. pc[t] = "idle" /\ pc' = [pc EXCEPT ![t] = "wake"] /\ pc \in [Threads -> Labels]
    BY <1>0, <1>2 DEF Post, Begin, Goto, TypeOK
  <2>2. count' <= count + 1
    BY <1>0, <1>2 DEF Post, Increment
  <2>3. t \notin Active /\ Active' = Active \cup {t}
    BY <2>1 DEF Active
  <2>4. \A u \in Threads : pc'[u] = "asleep" => pc[u] = "asleep"
    BY <2>1
  <2> QED BY <1>0, <2>2, <2>3, <2>4, Joins, Zenon
<1>3. ASSUME NEW t \in Threads, Exchange(t) PROVE UnitsAttended'
  <2>1. /\ pc[t] = "cas" /\ pc' = [pc EXCEPT ![t] = "idle"] /\ pc \in [Threads -> Labels]
        /\ count' = count - 1
    BY <1>0, <1>3 DEF Exchange, Goto, TypeOK
  <2>2. t \in Active /\ Active' = Active \ {t}
    BY <2>1 DEF Active
  <2>3. \A u \in Threads : pc'[u] = "asleep" => pc[u] = "asleep"
    BY <2>1
  <2> QED BY <1>0, <2>1, <2>2, <2>3, Takes, Zenon
<1>4. ASSUME NEW t \in Threads, NEW o, NEW passed, Call(t, o, passed) PROVE UnitsAttended'
  <2>1. /\ pc[t] = "idle" /\ pc' = [pc EXCEPT ![t] = "load"] /\ pc \in [Threads -> Labels]
        /\ count' = count
    BY <1>0, <1>4 DEF Call, Begin, Goto, TypeOK
  <2>2. t \notin Active /\ Active' = Active \cup {t}
    BY <2>1 DEF Active
  <2>3. \A u \in Threads : pc'[u] = "asleep" => pc[u] = "asleep"
    BY <2>1
  <2>4. count' <= count + 1
    BY <1>0, <2>1
  <2> QED BY <1>0, <2>2, <2>3, <2>4, Joins, Zenon
<1>5. ASSUME NEW t \in Threads, Load(t) \/ ExchangeFails(t) PROVE UnitsAttended'
  <2>1. pc \in [Threads -> Labels] /\ count' = count /\ pc[t] \in {"load", "cas"}
    BY <1>0, <1>5 DEF Load, ExchangeFails, TypeOK
  <2>2. CASE count <= 0
    BY <1>0, <2>1, <2>2, NoUnits
  <2>3. CASE count > 0
    <3>1. pc' = [pc EXCEPT ![t] = "cas"] \/ pc' = [pc EXCEPT ![t] = "block"]
      BY <1>5, <2>3 DEF Load, ExchangeFails, Goto, Failed
    <3>2. Active' = Active
      BY <2>1, <3>1 DEF Active
    <3>3. \A u \in Threads : pc'[u] = "asleep" => pc[u] = "asleep"
      BY <2>1, <3>1
    <3> QED BY <1>0, <2>1, <3>2, <3>3, Keeps
  <2> QED BY <1>0, <2>2, <2>3
<1>6. ASSUME NEW t \in Threads, Clock(t) PROVE UnitsAttended'
  <2>1. pc \in [Threads -> Labels] /\ count' = count /\ pc[t] = "clock"
    BY <1>0, <1>6 DEF Clock, TypeOK
  <2>2. CASE pc' = [pc EXCEPT ![t] = "idle"]
    <3>1. Active' = Active /\ \A u \in Threads : pc'[u] = "asleep" => pc[u] = "asleep"
      BY <2>1, <2>2 DEF Active
    <3> QED BY <1>0, <2>1, <3>1, Keeps
  <2>3. CASE pc' = [pc EXCEPT ![t] = "block"]
    <3>1. t \notin Active /\ Active' = Active \cup {t}
      BY <2>1, <2>3 DEF Active
    <3>2. \A u \in Threads : pc'[u] = "asleep" => pc[u] = "asleep"
      BY <2>1, <2>3
    <3> QED BY <1>0, <2>1, <3>1, <3>2, Joins
  <2> QED BY <1>6, <2>2, <2>3, Zenon DEF Clock, Goto
<1>7. ASSUME NEW t \in Threads, Block(t) PROVE UnitsAttended'
  <2>1. pc \in [Threads -> Labels] /\ count' = count /\ pc[t] = "block"
    BY <1>0, <1>7 DEF Block, TypeOK
  <2>2. CASE count = 0
    BY <1>0, <2>1, <2>2, NoUnits
  <2>3. CASE count # 0
    <3>1. pc' = [pc EXCEPT ![t] = "load"]
      BY <1>7, <2>3 DEF Block, Goto
    <3>2. Active' = Active /\ \A u \in Threads : pc'[u] = "asleep" => pc[u] = "asleep"
      BY <2>1, <3>1 DEF Active
    <3> QED BY <1>0, <2>1, <3>2, Keeps
  <2> QED BY <2>2, <2>3
<1>8. ASSUME NEW t \in Threads, Interrupt(t) PROVE UnitsAttended'
  <2>1. /\ pc[t] = "asleep" /\ pc' = [pc EXCEPT ![t] = "load"] /\ pc \in [Threads -> Labels]
        /\ count' = count
    BY <1>0, <1>8 DEF Interrupt, Goto, TypeOK
  <2>2. t \notin Active /\ Active' = Active \cup {t}
    BY <2>1 DEF Active
  <2>3. \A u \in Threads : pc'[u] = "asleep" => pc[u] = "asleep"
    BY <2>1
  <2>4. count' <= count + 1
    BY <1>0, <2>1
  <2> QED BY <1>0, <2>2, <2>3, <2>4, Joins, Zenon
<1>9. ASSUME NEW t \in Threads, Wake(t) PROVE UnitsAttended'
  <2>1. pc \in [Threads -> Labels] /\ count' = count /\ pc[t] = "wake"
    BY <1>0, <1>9 DEF Wake, TypeOK
  <2>2. ASSUME NEW s \in Threads, pc[s] = "asleep",
               pc' = [pc EXCEPT ![s] = "load", ![t] = "idle"]
        PROVE  UnitsAttended'
    <3>1. t \in Active /\ s \notin Active /\ Active' = (Active \ {t}) \cup {s}
      BY <2>1, <2>2 DEF Active
    <3>2. Cardinality(Active \ {t}) = Cardinality(Active) - 1 /\ IsFiniteSet(Active \ {t})
      BY <3>1, ActiveFinite, FS_RemoveElement
    <3>3. Cardinality(Active') = Cardinality(Active \ {t}) + 1
      BY <3>1, <3>2, FS_AddElement, Zenon
    <3>4. count <= Cardinality(Active)
      BY <1>0, <2>2 DEF UnitsAttended
    <3> QED BY <2>1, <3>2, <3>3, <3>4, ActiveFinite DEF UnitsAttended
  <2>3. CASE (\A s \in Threads : pc[s] # "asleep") /\ pc' = [pc EXCEPT ![t] = "idle"]
    BY <2>1, <2>3 DEF UnitsAttended
  <2> QED BY <1>9, <2>2, <2>3 DEF Wake, Goto
<1>10. ASSUME NEW t \in Threads, Expire(t) PROVE UnitsAttended'
  BY <1>0, <1>10, Keeps DEF Expire, Active
<1> QED BY <1>1, <1>2, <1>3, <1>4, <1>5, <1>6, <1>7, <1>8, <1>9, <1>10, Zenon DEF Next, Progress, Timeout
-----------------------------------------------------------------------------
(* The invariant of sem_wait, sem_trywait, sem_timedwait and sem_post. *)
THEOREM Inductive == Spec => []IInv
<1>1. IInv /\ [Next]_vars => IInv'
  BY StepCounts, StepAttends DEF IInv
<1> QED BY InitIInv, <1>1, PTL DEF Spec

(* Units are neither lost nor invented by the semaphore's operations. *)
THEOREM UnitsConserved == Spec => []Conservation
<1>1. IInv => Conservation
  BY DEF IInv
<1> QED BY Inductive, <1>1, PTL

(* No sem_post is lost on a sleeper of sem_wait or sem_timedwait. *)
THEOREM NoPostLost == Spec => []UnitsAttended
<1>1. IInv => UnitsAttended
  BY DEF IInv
<1> QED BY Inductive, <1>1, PTL

-----------------------------------------------------------------------------
(* Condition variables.  Who is at one of these places has the mutex.      *)
Inside == {"test", "leave", "load", "unlock", "give", "inside", "wake_inside", "release"}
Users == Takers \cup Timed \cup Givers

CondInv ==
  /\ condPc = [t \in Users |-> condPc[t]]
  /\ holder \in Users \cup {NoThread}
  /\ \A t \in Users : condPc[t] \in Inside => holder = t

(* A step of t alone that leaves the mutex as it is: t moves between two   *)
(* places inside or two places outside.  Others may be moved to "loop".    *)
LEMMA SameHolder ==
  ASSUME CondInv, NEW t \in Users, holder' = holder, condPc' = [u \in Users |-> condPc'[u]],
         condPc'[t] \in Inside => condPc[t] \in Inside,
         \A u \in Users \ {t} : condPc'[u] \in {condPc[u], "loop"}
  PROVE  CondInv'
<1>1. \A u \in Users : condPc'[u] \in Inside => condPc[u] \in Inside
  BY DEF Inside
<1> QED BY <1>1 DEF CondInv

(* One thread moves. *)
LEMMA GotoMoves ==
  ASSUME CondInv, NEW t \in Users, NEW l, Cond!Goto(t, l)
  PROVE  /\ condPc' = [u \in Users |-> condPc'[u]] /\ condPc'[t] = l
         /\ \A u \in Users \ {t} : condPc'[u] = condPc[u]
BY DEF CondInv, Cond!Goto

(* pthread_mutex_lock, inside pthread_cond_wait too. *)
LEMMA LockingKeeps ==
  ASSUME CondInv, NEW t \in Users, NEW l, NEW m, Cond!Locking(t, l, m)
  PROVE  CondInv'
<1>1. holder = NoThread /\ holder' = t /\ Cond!Goto(t, m)
  BY DEF Cond!Locking
<1>2. \A u \in Users : condPc[u] \notin Inside
  BY <1>1, UsersAssumption, Zenon DEF CondInv, Users
<1> QED BY <1>1, <1>2, GotoMoves DEF CondInv

(* pthread_mutex_unlock. *)
LEMMA UnlockingKeeps ==
  ASSUME CondInv, NEW t \in Users, NEW l \in Inside, NEW m, m \notin Inside, condPc[t] = l,
         holder' = NoThread, Cond!Goto(t, m)
  PROVE  CondInv'
<1>1. holder = t
  BY DEF CondInv
<1>2. \A u \in Users \ {t} : condPc[u] \notin Inside
  BY <1>1 DEF CondInv
<1> QED BY <1>2, GotoMoves DEF CondInv

(* Every step of waiters and signallers keeps the invariant. *)
LEMMA CondStep == ASSUME CondInv, [Cond!Next]_(Cond!vars) PROVE CondInv'
<1>1. CASE UNCHANGED Cond!vars
  BY <1>1 DEF CondInv, Cond!vars
<1>2. ASSUME NEW t \in Users, Cond!Enter(t) \/ Cond!Relock(t) \/ Cond!RelockExpired(t) \/ Cond!Give(t)
      PROVE  CondInv'
  BY <1>2, LockingKeeps DEF Cond!Enter, Cond!Relock, Cond!RelockExpired, Cond!Give
<1>3. ASSUME NEW t \in Users, Cond!Leave(t) \/ Cond!WaitUnlock(t) \/ Cond!Release(t)
      PROVE  CondInv'
  <2>1. PICK l \in {"leave", "unlock", "release"}, m \in {"done", "loop"} :
          condPc[t] = l /\ holder' = NoThread /\ Cond!Goto(t, m)
    BY <1>3 DEF Cond!Leave, Cond!WaitUnlock, Cond!Release, Cond!Unlocking
  <2> QED BY <2>1, UnlockingKeeps DEF Inside
<1>4. ASSUME NEW t \in Users, Cond!AddToken(t) PROVE CondInv'
  <2>1. CASE holder' = holder /\ Cond!Goto(t, "inside")
    BY <1>4, <2>1, GotoMoves, SameHolder DEF Cond!AddToken, Inside
  <2>2. CASE holder' = NoThread /\ Cond!Goto(t, "outside")
    BY <1>4, <2>2, UnlockingKeeps DEF Cond!AddToken, Inside
  <2> QED BY <1>4, <2>1, <2>2, Zenon DEF Cond!AddToken
<1>5. ASSUME NEW t \in Users, Cond!Test(t) \/ Cond!LoadSeq(t) \/ Cond!AdvanceInside(t)
      PROVE  CondInv'
  <2>1. holder' = holder /\ condPc[t] \in Inside /\ \E l : Cond!Goto(t, l)
    BY <1>5 DEF Cond!Test, Cond!LoadSeq, Cond!AdvanceInside, Cond!Advance, Inside
  <2> QED BY <2>1, GotoMoves, SameHolder, Zenon
<1>6. ASSUME NEW t \in Users,
             \/ Cond!Compare(t) \/ Cond!Clock(t) \/ Cond!FutexWait(t) \/ Cond!Interrupt(t)
             \/ Cond!Timeout(t) \/ Cond!AdvanceOutside(t)
      PROVE  CondInv'
  <2>1. PICK l \in {"relock", "clock", "wait", "expired", "asleep", "loop", "wake_outside"} :
          holder' = holder /\ Cond!Goto(t, l)
    BY <1>6 DEF Cond!Compare, Cond!Clock, Cond!FutexWait, Cond!Interrupt, Cond!Timeout,
                Cond!AdvanceOutside, Cond!Advance
  <2>2. l \notin Inside
    BY DEF Inside
  <2> QED BY <2>1, <2>2, GotoMoves, SameHolder, Zenon
<1>7. ASSUME NEW t \in Users, Cond!Signal(t) \/ Cond!Broadcast(t) PROVE CondInv'
  <2>1. PICK n : Cond!Wake(t, n)
    BY <1>7 DEF Cond!Signal, Cond!Broadcast
  <2> DEFINE l == IF condPc[t] = "wake_inside" THEN "release" ELSE "done"
             woken == Cond!Move(condPc, Cond!Woken(waitq, n), "loop")
  <2>2. holder' = holder /\ condPc' = [woken EXCEPT ![t] = l]
    BY <2>1 DEF Cond!Wake
  <2>3. woken = [u \in Users |-> woken[u]] /\ \A u \in Users : woken[u] \in {condPc[u], "loop"}
    BY DEF CondInv, Cond!Move
  <2>4. l \in Inside => condPc[t] \in Inside
    BY DEF Inside
  <2> HIDE DEF l, woken
  <2>5. /\ condPc' = [u \in Users |-> condPc'[u]] /\ condPc'[t] = l
        /\ \A u \in Users \ {t} : condPc'[u] = woken[u]
    BY <2>2, <2>3
  <2> QED BY <2>2, <2>3, <2>4, <2>5, SameHolder
<1>8. ASSUME NEW t \in Timed, Cond!Expire(t) PROVE CondInv'
  BY <1>8 DEF Cond!Expire, CondInv
<1> QED
  BY <1>1, <1>2, <1>3, <1>4, <1>5, <1>6, <1>7, <1>8, Zenon
  DEF Cond!Next, Cond!Progress, Cond!Waiting, Users

(* A thread that comes back from pthread_cond_wait or _timedwait has the   *)
(* mutex, whatever the signallers do and whether they signal with or       *)
(* without the mutex.                                                      *)
THEOREM WaitsReturnLocked == Cond!Spec => []ReturnsLocked
<1>1. Cond!Init => CondInv
  BY DEF Cond!Init, CondInv, Users, Inside
<1>2. CondInv /\ [Cond!Next]_(Cond!vars) => CondInv'
  BY CondStep
<1>3. CondInv => ReturnsLocked
  BY Zenon DEF CondInv, ReturnsLocked, Cond!ReturnsLocked, Cond!Waiting, Inside, Users
<1> QED BY <1>1, <1>2, <1>3, PTL DEF Cond!Spec
=============================================================================
