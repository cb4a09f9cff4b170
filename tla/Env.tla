---------------------------------- MODULE Env ----------------------------------
(***************************************************************************)
(* The environment (src/env.c).  Strings are objects, so that two equal    *)
(* strings are told apart and a freed one stays known as freed: <<k, i>>   *)
(* is the copy that call k made of entry i, and <<k, 0>> the string that   *)
(* it was called for.  environ is the sequence of those it points to.  The *)
(* library frees the strings it has allocated, which environ_flags marks   *)
(* once the array is its own (environ_owned); those given to putenv belong *)
(* to the client.                                                          *)
(***************************************************************************)
EXTENDS Integers, Sequences

CONSTANTS SetNames, PutNames, \* variables that clients set, and put
          Values, Unset,      \* values, and that of a variable that is not there
          PutOver,            \* values of environ_owned for which clients put over a variable
          CopyFails,          \* values of environ_owned for which a strdup may fail
          MaxEnvOps           \* bound: calls made

VARIABLES
  objs,         \* [name, value, by, live] of every string there ever was
  environ, environ_owned, environ_flags,
  intended,     \* what the calls that succeeded have made of the variables
  envops

envVars == <<objs, environ, environ_owned, environ_flags, intended, envops>>

Names == SetNames \cup PutNames

String(n, v, b) == [name |-> n, value |-> v, by |-> b, live |-> TRUE]

(* env_init: the array and the strings of the host. *)
EnvInit ==
  /\ \E count \in {0, 1}, h \in Names, v \in Values :
        /\ environ = [i \in 1 .. count |-> <<0, i>>]
        /\ objs = [x \in {<<0, i>> : i \in 1 .. count} |-> String(h, v, "client")]
        /\ intended = [n \in Names |-> IF count = 1 /\ n = h THEN v ELSE Unset]
  /\ environ_owned = FALSE /\ environ_flags = <<>>
  /\ envops = 0

(* The first entry of a name, 0 if there is none. *)
find_env_index(n) ==
  LET found == {i \in 1 .. Len(environ) : objs[environ[i]].name = n}
  IN IF found = {} THEN 0 ELSE CHOOSE i \in found : \A j \in found : i <= j

getenv(n) == LET i == find_env_index(n) IN IF i = 0 THEN Unset ELSE objs[environ[i]].value

(* The strings after free of those in S, and with the new string o. *)
Frees(S) == [x \in DOMAIN objs |-> [objs[x] EXCEPT !.live = @ /\ x \notin S]]
With(strings, x, o) == [y \in DOMAIN strings \cup {x} |-> IF y = x THEN o ELSE strings[y]]

New == <<envops + 1, 0>>
CopyOf(i) == <<envops + 1, i>>

Flagged(i) == environ_owned /\ environ_flags[i]
-----------------------------------------------------------------------------
(* A malloc that fails leaves everything as it was, and is a stuttering    *)
(* step.  An array that is one longer: entries that are the library's      *)
(* already are moved, the others are copied, and the string o is the last. *)
AddEntry(o, flag) ==
  LET copied == {i \in 1 .. Len(environ) : ~Flagged(i)} IN
  /\ objs' = [x \in DOMAIN objs \cup {CopyOf(i) : i \in copied} \cup {New} |->
                CASE x \in DOMAIN objs -> objs[x]
                  [] x = New -> o
                  [] OTHER -> String(objs[environ[x[2]]].name, objs[environ[x[2]]].value, "lib")]
  /\ environ' = Append([i \in 1 .. Len(environ) |-> IF Flagged(i) THEN environ[i] ELSE CopyOf(i)], New)
  /\ environ_owned' = TRUE
  /\ environ_flags' = Append([i \in 1 .. Len(environ) |-> TRUE], flag)

(* A strdup fails at entry i: what is in the new array so far is freed,    *)
(* the entries that were only moved to it too.                             *)
AddFails(i) ==
  /\ environ_owned \in CopyFails /\ ~Flagged(i)
  /\ objs' = Frees({environ[j] : j \in {k \in 1 .. i - 1 : Flagged(k)}})
  /\ UNCHANGED <<environ, environ_owned, environ_flags>>

(* Variant: the last entry is replaced. *)
ReplaceLast(idx, o) ==
  /\ objs' = With(objs, New, o)
  /\ environ' = [environ EXCEPT ![Len(environ)] = New]

Replace(idx, o) ==
  /\ objs' = With(IF environ_owned THEN Frees({environ[idx]}) ELSE objs, New, o)
  /\ environ' = [environ EXCEPT ![idx] = New]

Setenv(n, v, overwrite) ==
  LET idx == find_env_index(n) IN
  \/ /\ idx > 0 /\ ~overwrite
     /\ UNCHANGED <<objs, environ, environ_owned, environ_flags, intended>>
  \/ /\ idx > 0 /\ overwrite
     /\ Replace(idx, String(n, v, "lib"))
     /\ intended' = [intended EXCEPT ![n] = v]
     /\ UNCHANGED <<environ_owned, environ_flags>>
  \/ /\ idx = 0
     /\ AddEntry(String(n, v, "lib"), TRUE)
     /\ intended' = [intended EXCEPT ![n] = v]
  \/ /\ idx = 0
     /\ \E i \in 1 .. Len(environ) : AddFails(i)
     /\ UNCHANGED intended

Putenv(n, v) ==
  LET idx == find_env_index(n) IN
  \/ /\ idx > 0 /\ environ_owned \in PutOver
     /\ objs' = With(objs, New, String(n, v, "client"))
     /\ environ' = [environ EXCEPT ![idx] = New]
     /\ intended' = [intended EXCEPT ![n] = v]
     /\ UNCHANGED <<environ_owned, environ_flags>>
  \/ /\ idx = 0
     /\ AddEntry(String(n, v, "client"), FALSE)
     /\ intended' = [intended EXCEPT ![n] = v]
  \/ /\ idx = 0
     /\ \E i \in 1 .. Len(environ) : AddFails(i)
     /\ UNCHANGED intended

Without(s, idx) == SubSeq(s, 1, idx - 1) \o SubSeq(s, idx + 1, Len(s))

ShiftFlags(idx) == Without(environ_flags, idx)

Unsetenv(n) ==
  LET idx == find_env_index(n) IN
  /\ intended' = [intended EXCEPT ![n] = Unset]
  /\ IF idx = 0 THEN UNCHANGED <<objs, environ, environ_flags>>
     ELSE /\ objs' = IF Flagged(idx) THEN Frees({environ[idx]}) ELSE objs
          /\ environ' = Without(environ, idx)
          /\ environ_flags' = IF environ_owned THEN ShiftFlags(idx) ELSE environ_flags
  /\ UNCHANGED environ_owned

(* Variant: every string is freed. *)
ClearedAll == {environ[i] : i \in 1 .. Len(environ)}

Cleared == {environ[i] : i \in {j \in 1 .. Len(environ) : Flagged(j)}}

Clearenv ==
  /\ objs' = Frees(Cleared)
  /\ environ' = <<>> /\ environ_flags' = <<>>
  /\ intended' = [n \in Names |-> Unset]
  /\ UNCHANGED environ_owned

EnvNext ==
  /\ envops < MaxEnvOps /\ envops' = envops + 1
  /\ \/ \E n \in SetNames, v \in Values, o \in BOOLEAN : Setenv(n, v, o)
     \/ \E n \in PutNames, v \in Values : Putenv(n, v)
     \/ \E n \in Names : Unsetenv(n)
     \/ Clearenv

EnvSpec == EnvInit /\ [][EnvNext]_envVars
-----------------------------------------------------------------------------
(* getenv finds what the last successful setenv, putenv, unsetenv or       *)
(* clearenv made of the variable, and environ points to no freed string.   *)
GetenvExact ==
  /\ \A n \in Names : getenv(n) = intended[n]
  /\ \A i \in 1 .. Len(environ) : objs[environ[i]].live

(* A string given to putenv, or by the host, is never freed.               *)
ClientStringsKept == \A x \in DOMAIN objs : objs[x].by = "client" => objs[x].live

(* Both. *)
EnvironmentExact == GetenvExact /\ ClientStringsKept
=============================================================================
