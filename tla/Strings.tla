-------------------------------- MODULE Strings --------------------------------
(***************************************************************************)
(* Strings in memory: string.c, string_extra.c, memory_ops.c, and their    *)
(* wide versions in wchar.c and wmem.c, which have the same loops.         *)
(*                                                                         *)
(* Memory is a sequence of bytes, a pointer is a place in it, and NULL is  *)
(* 0.  A call is one step: each works on memory that no other thread uses. *)
(* The clients meet the functions' terms: strings end, and a destination   *)
(* is large enough and is not part of the source unless the function says  *)
(* that it may.                                                            *)
(***************************************************************************)
EXTENDS Integers, Sequences, SequencesExt, FiniteSetsExt

CONSTANTS Bytes,      \* the values of bytes, 0 among them
          Memories    \* the memory before the calls

VARIABLES before, mem,
          op,         \* the call: its name and arguments; <<>> before it
          ret,        \* what it returned
          save,       \* the context of strtok_r, strsep and wcstok
          toks        \* the tokens so far, as pairs of places

strVars == <<before, mem, op, ret, save, toks>>

NUL == 0
NULL == 0
Delim == 44

(* A string ends at the first NUL from p on; n bounds the search. *)
strnlen(m, p, n) == Min({n} \cup {k \in 0 .. Len(m) - p : m[p + k] = NUL})
vstrlen(m, p) == Min({k \in 0 .. Len(m) - p : m[p + k] = NUL})
wcslen(m, p) == vstrlen(m, p)

Str(m, p) == SubSeq(m, p, p + vstrlen(m, p) - 1)

(* Bytes are copied one by one, in the order of the offsets. *)
Copied(m, d, s, offsets) ==
  FoldLeft(LAMBDA cur, i : [cur EXCEPT ![d + i] = cur[s + i]], m, offsets)
Upward(n) == [i \in 1 .. n |-> i - 1]

vmemset(m, p, c, n) == [i \in DOMAIN m |-> IF i \in p .. p + n - 1 THEN c ELSE m[i]]
wmemset(m, p, c, n) == vmemset(m, p, c, n)

vmemcpy(m, d, s, n) == Copied(m, d, s, Upward(n))
wmemcpy(m, d, s, n) == vmemcpy(m, d, s, n)

vmemmove(m, d, s, n) ==
  CASE d = s \/ n = 0 -> m
    [] n > 0 /\ d < s -> Copied(m, d, s, Upward(n))
    [] n > 0 /\ d > s -> Copied(m, d, s, Reverse(Upward(n)))
wmemmove(m, d, s, n) == vmemmove(m, d, s, n)

(* Each of the following gives the memory and the result. *)
vstrcpy(m, d, s) ==
  LET k == vstrlen(m, s) IN <<vmemset(vmemcpy(m, d, s, k), d + k, NUL, 1), d>>
wcscpy(m, d, s) == vstrcpy(m, d, s)
stpcpy(m, d, s) == <<vstrcpy(m, d, s)[1], d + vstrlen(m, s)>>

strncpy(m, d, s, n) ==
  LET k == strnlen(m, s, n) IN <<vmemset(vmemcpy(m, d, s, k), d + k, NUL, n - k), d>>
wcsncpy(m, d, s, n) == strncpy(m, d, s, n)
stpncpy(m, d, s, n) == <<strncpy(m, d, s, n)[1], d + n>>

strncat(m, d, s, n) ==
  LET e == d + vstrlen(m, d)
      k == strnlen(m, s, n)
  IN <<vmemset(vmemcpy(m, e, s, k), e + k, NUL, 1), d>>
strcat(m, d, s) == strncat(m, d, s, vstrlen(m, s))

strlcpy(m, d, s, size) ==
  LET len == vstrlen(m, s)
      copy == IF len >= size THEN size - 1 ELSE len
  IN <<IF size = 0 THEN m ELSE vmemset(vmemcpy(m, d, s, copy), d + copy, NUL, 1), len>>
strxfrm(m, d, s, n) == strlcpy(m, d, s, n)
wcsxfrm(m, d, s, n) == strlcpy(m, d, s, n)

strlcat(m, d, s, size) ==
  LET dlen == vstrlen(m, d)
      slen == vstrlen(m, s)
      copy == IF slen >= size - dlen THEN size - dlen - 1 ELSE slen
  IN <<IF dlen >= size THEN m ELSE vmemset(vmemcpy(m, d + dlen, s, copy), d + dlen + copy, NUL, 1),
       dlen + slen>>

memccpy(m, d, s, c, n) ==
  LET k == Min({n + 1} \cup {i \in 1 .. n : m[s + i - 1] = c})
  IN IF k > n THEN <<vmemcpy(m, d, s, n), NULL>> ELSE <<vmemcpy(m, d, s, k), d + k>>
mempcpy(m, d, s, n) == <<vmemcpy(m, d, s, n), d + n>>
-----------------------------------------------------------------------------

Lowest(P) == IF P = {} THEN NULL ELSE Min(P)
Highest(P) == IF P = {} THEN NULL ELSE Max(P)

(* As a char, a byte from 128 on is negative. *)
Signed(b) == IF b >= 128 THEN b - 256 ELSE b

memchr(m, p, c, n) == Lowest({q \in p .. p + n - 1 : m[q] = c})
wmemchr(m, p, c, n) == memchr(m, p, c, n)
memrchr(m, p, c, n) == Highest({q \in p .. p + n - 1 : m[q] = c})
strchr(m, p, c) == Lowest({q \in p .. p + vstrlen(m, p) : m[q] = c})
wcschr(m, p, c) == strchr(m, p, c)

(* *s is a char here, and c was made unsigned. *)
strrchr(m, p, c) == Highest({q \in p .. p + vstrlen(m, p) : Signed(m[q]) = c})
wcsrchr(m, p, c) == Highest({q \in p .. p + vstrlen(m, p) : m[q] = c})

(* The bytes are compared up to the first difference or a common NUL. *)
vstrncmp(m, p, q, n) ==
  LET k == Min({n} \cup {i \in 0 .. Len(m) - Max({p, q}) : m[p + i] # m[q + i] \/ m[p + i] = NUL})
  IN IF k = n THEN 0 ELSE m[p + k] - m[q + k]
wcsncmp(m, p, q, n) == vstrncmp(m, p, q, n)
strcmp(m, p, q) == vstrncmp(m, p, q, Len(m))
strcoll(m, p, q) == strcmp(m, p, q)
wcscmp(m, p, q) == wcsncmp(m, p, q, Len(m))
wcscoll(m, p, q) == wcscmp(m, p, q)
vmemcmp(m, p, q, n) ==
  LET k == Min({n} \cup {i \in 0 .. n - 1 : m[p + i] # m[q + i]})
  IN IF k = n THEN 0 ELSE m[p + k] - m[q + k]

strstr(m, h, n) ==
  IF m[n] = NUL THEN h
  ELSE Lowest({q \in h .. h + vstrlen(m, h) - 1 : m[q] = m[n] /\ vstrncmp(m, q, n, vstrlen(m, n)) = 0})
wcsstr(m, h, n) ==
  IF m[n] = NUL THEN h
  ELSE Lowest({q \in h .. h + wcslen(m, h) - 1 : m[q] = m[n] /\ wcsncmp(m, q, n, wcslen(m, n)) = 0})

memmem(m, h, hlen, n, nlen) ==
  CASE nlen = 0 -> h
    [] nlen > 0 /\ hlen < nlen -> NULL
    [] OTHER -> Lowest({q \in h .. h + hlen - nlen : m[q] = m[n] /\ vmemcmp(m, q, n, nlen) = 0})

strspn(m, p, accept) == Min({k \in 0 .. vstrlen(m, p) : m[p + k] = NUL \/ m[p + k] \notin Range(Str(m, accept))})
strcspn(m, p, reject) == Min({k \in 0 .. vstrlen(m, p) : m[p + k] = NUL \/ m[p + k] \in Range(Str(m, reject))})
strpbrk(m, p, accept) == Lowest({q \in p .. p + vstrlen(m, p) - 1 : m[q] \in Range(Str(m, accept))})
-----------------------------------------------------------------------------

Init == /\ before \in Memories /\ mem = before
        /\ op = <<>> /\ ret = NULL /\ save = 1 /\ toks = <<>>

Call(name, args, result) ==
  /\ op' = <<name>> \o args
  /\ mem' = result[1] /\ ret' = result[2]
  /\ UNCHANGED <<before, save, toks>>

IsString(p) == \E q \in p .. Len(mem) : mem[q] = NUL
Fits(p, n) == p + n - 1 <= Len(mem)
Apart(d, n, s, k) == d + n <= s \/ s + k <= d

(* Calls that take a number of bytes, or of wide characters. *)
MoveCall ==
  /\ op = <<>>
  /\ \E d, s \in DOMAIN mem, n \in 0 .. Len(mem), c \in Bytes :
       /\ Fits(d, n) /\ Fits(s, n)
       /\ \/ \E m \in {vmemmove(mem, d, s, n), wmemmove(mem, d, s, n)} : Call("memmove", <<d, s, n>>, <<m, d>>)
          \/ d = s /\ \E m \in {vmemset(mem, d, c, n), wmemset(mem, d, c, n)} : Call("memset", <<d, s, n, c>>, <<m, d>>)
          \/ /\ Apart(d, n, s, n)
             /\ \/ Call("memcpy", <<d, s, n>>, <<wmemcpy(mem, d, s, n), d>>)
                \/ Call("memcpy", <<d, s, n>>, mempcpy(mem, d, s, n))
                \/ Call("memccpy", <<d, s, n, c>>, memccpy(mem, d, s, c, n))

(* Calls that copy a string into a buffer of a given size. *)
CopyCall ==
  /\ op = <<>>
  /\ \E d, s \in DOMAIN mem, n \in 0 .. Len(mem) :
       /\ IsString(s) /\ Fits(d, n) /\ Apart(d, n, s, wcslen(mem, s) + 1)
       /\ \/ \E r \in {strlcpy(mem, d, s, n), strxfrm(mem, d, s, n), wcsxfrm(mem, d, s, n)} :
               Call("strlcpy", <<d, s, n>>, r)
          \/ \E r \in {strncpy(mem, d, s, n), wcsncpy(mem, d, s, n)} : Call("strncpy", <<d, s, n>>, r)
          \/ Call("stpncpy", <<d, s, n>>, stpncpy(mem, d, s, n))
          \/ /\ n > vstrlen(mem, s)
             /\ \/ \E r \in {vstrcpy(mem, d, s), wcscpy(mem, d, s)} : Call("strcpy", <<d, s, n>>, r)
                \/ Call("stpcpy", <<d, s, n>>, stpcpy(mem, d, s))

(* Calls that append to the string in a buffer. *)
AppendCall ==
  /\ op = <<>>
  /\ \E d, s \in DOMAIN mem, n \in 0 .. Len(mem) :
       /\ IsString(s) /\ IsString(d) /\ Fits(d, n)
       /\ Apart(d, Max({n, vstrlen(mem, d) + 1}), s, vstrlen(mem, s) + 1)
       /\ \/ Call("strlcat", <<d, s, n>>, strlcat(mem, d, s, n))
          \/ /\ n > vstrlen(mem, d) + vstrlen(mem, s)
             /\ Call("strcat", <<d, s, n>>, strcat(mem, d, s))
          \/ /\ n > vstrlen(mem, d)
             /\ Call("strncat", <<d, s, n>>, strncat(mem, d, s, n - vstrlen(mem, d) - 1))

(* Calls that look for a character. *)
FindCall ==
  /\ op = <<>>
  /\ \E p \in DOMAIN mem, c \in Bytes :
       LET n == vstrlen(mem, p) + 1
       IN /\ IsString(p)
          /\ \/ \E q \in {strchr(mem, p, c), wcschr(mem, p, c), memchr(mem, p, c, n), wmemchr(mem, p, c, n)} :
                  Call("strchr", <<p, c>>, <<mem, q>>)
             \/ \E q \in {wcsrchr(mem, p, c), memrchr(mem, p, c, n)} : Call("memrchr", <<p, c>>, <<mem, q>>)
             \/ Call("strrchr", <<p, c>>, <<mem, strrchr(mem, p, c)>>)

(* Calls that compare two strings, or look for one in the other. *)
SearchCall ==
  /\ op = <<>>
  /\ \E p, q \in DOMAIN mem :
       /\ IsString(p) /\ IsString(q)
       /\ \/ \E r \in {strstr(mem, p, q), wcsstr(mem, p, q), memmem(mem, p, vstrlen(mem, p), q, vstrlen(mem, q))} :
               Call("strstr", <<p, q>>, <<mem, r>>)
          \/ \E r \in {strcoll(mem, p, q), wcscoll(mem, p, q)} : Call("strcmp", <<p, q>>, <<mem, r>>)
          \/ Call("strpbrk", <<p, q>>, <<mem, strpbrk(mem, p, q)>>)
          \/ Call("strspn", <<p, q>>, <<mem, strspn(mem, p, q)>>)
          \/ Call("strcspn", <<p, q>>, <<mem, strcspn(mem, p, q)>>)
-----------------------------------------------------------------------------

(* The memory, the token and the new context; a context of NULL is at the  *)
(* end.                                                                    *)
strtok_r(s) ==
  LET start == s + Min({k \in 0 .. vstrlen(mem, s) : mem[s + k] # Delim})
      stop == start + Min({k \in 0 .. vstrlen(mem, start) : mem[start + k] \in {Delim, NUL}})
  IN CASE s = NULL -> <<mem, NULL, NULL>>
       [] s # NULL /\ mem[start] = NUL -> <<mem, NULL, NULL>>
       [] OTHER -> <<[mem EXCEPT ![stop] = NUL], start, IF mem[stop] = NUL THEN NULL ELSE stop + 1>>
wcstok(s) == strtok_r(s)
strtok(s) == strtok_r(s)

strsep(s) ==
  LET stop == s + Min({k \in 0 .. vstrlen(mem, s) : mem[s + k] \in {Delim, NUL}})
  IN CASE s = NULL -> <<mem, NULL, NULL>>
       [] s # NULL /\ mem[stop] = NUL -> <<mem, s, NULL>>
       [] OTHER -> <<[mem EXCEPT ![stop] = NUL], s, stop + 1>>

(* A client takes tokens until there are none, and may try again. *)
TokenCall ==
  \E name \in {"strtok", "strtok_r", "wcstok", "strsep"} :
    LET r == CASE name = "strtok" -> strtok(save)
               [] name = "strtok_r" -> strtok_r(save)
               [] name = "wcstok" -> wcstok(save)
               [] name = "strsep" -> strsep(save)
    IN /\ op \in {<<>>, <<name>>} /\ IsString(1)
       /\ op' = <<name>>
       /\ mem' = r[1] /\ ret' = r[2] /\ save' = r[3]
       /\ toks' = IF r[2] = NULL THEN toks ELSE Append(toks, r[2])
       /\ UNCHANGED before

Next == MoveCall \/ CopyCall \/ AppendCall \/ FindCall \/ SearchCall \/ TokenCall
-----------------------------------------------------------------------------

Unchanged(P) == \A i \in DOMAIN mem \ P : mem[i] = before[i]

(* What a call that edits memory leaves there: no more than the given      *)
(* bytes change; memmove keeps the source's bytes even if they overlap; a  *)
(* bounded copy is the longest that fits, with its terminator, and the     *)
(* result tells whether something was cut off.                             *)
EditExact(name, d, s, n) ==
  LET str == Str(before, s)
      dst == Str(before, d)
      cut(t) == SubSeq(t, 1, Min({n - 1, Len(t)}))
  IN /\ Unchanged(d .. d + n - 1)
     /\ name \in {"memmove", "memcpy"} =>
          \A i \in 0 .. n - 1 : mem[d + i] = before[s + i]
     /\ name = "memset" => \A i \in 0 .. n - 1 : mem[d + i] = op[5]
     /\ name = "memccpy" =>
          /\ \A i \in 0 .. (IF ret = NULL THEN n ELSE ret - d) - 1 : mem[d + i] = before[s + i]
          /\ ret = NULL <=> op[5] \notin {before[s + i] : i \in 0 .. n - 1}
     /\ name \in {"strcpy", "stpcpy", "strlcpy"} /\ n > 0 => Str(mem, d) = cut(str)
     /\ name = "strlcpy" => (ret < n <=> n > 0 /\ Str(mem, d) = str)
     /\ name = "stpcpy" => mem[ret] = NUL /\ ret = d + Len(str)
     /\ name \in {"strncpy", "stpncpy"} =>
          \A i \in 0 .. n - 1 : mem[d + i] = IF i < Len(str) THEN str[i + 1] ELSE NUL
     /\ name = "strlcat" => /\ Str(mem, d) = IF Len(dst) < n THEN cut(dst \o str) ELSE dst
                            /\ ret = Len(dst \o str)
     /\ name \in {"strcat", "strncat"} => Str(mem, d) = cut(dst \o str)

(* Where a string occurs in another one. *)
Occurrences(h, n) == {q \in h .. h + Len(Str(mem, h)) : IsPrefix(Str(mem, n), SubSeq(mem, q, h + Len(Str(mem, h)) - 1))}

(* What a search finds, in terms of the strings.  strrchr misses bytes     *)
(* from 128 on.                                                            *)
SearchExact(name, p, x) ==
  LET str == Str(mem, p)
      places == {q \in p .. p + Len(str) : mem[q] = x}
  IN /\ mem = before
     /\ name = "strstr" => ret = Lowest(Occurrences(p, x))
     /\ name = "strcmp" => (ret = 0 <=> str = Str(mem, x))
     /\ name = "strspn" => \A i \in 1 .. Len(str) : (\A j \in 1 .. i : str[j] \in Range(Str(mem, x))) <=> i <= ret
     /\ name = "strcspn" => \A i \in 1 .. Len(str) : (\A j \in 1 .. i : str[j] \notin Range(Str(mem, x))) <=> i <= ret
     /\ name = "strpbrk" => ret = IF strcspn(mem, p, x) = Len(str) THEN NULL ELSE p + strcspn(mem, p, x)
     /\ name = "strchr" => ret = Lowest(places)
     /\ name = "memrchr" \/ (name = "strrchr" /\ x < 128) => ret = Highest(places)

(* The tokens, once there are no more: for strtok the runs of characters   *)
(* that are not delimiters, for strsep what is between two delimiters.     *)
TokensExact(name) ==
  LET e == 1 + vstrlen(before, 1)
      edge(q) == q = e \/ before[q] = Delim
      starts == {q \in 1 .. e : (q = 1 \/ before[q - 1] = Delim) /\ (name = "strsep" \/ ~edge(q))}
      stop(q) == Min({x \in q .. e : edge(x)})
  IN ret = NULL =>
       /\ toks = SetToSortSeq(starts, <)
       /\ \A q \in starts : Str(mem, q) = SubSeq(before, q, stop(q) - 1)
       /\ Unchanged({q \in 1 .. e : before[q] = Delim})

(* The functions of string.c, string_extra.c, memory_ops.c and wchar.c do  *)
(* what EditExact, SearchExact and TokensExact say.                        *)
StringsExact ==
  op # <<>> =>
    CASE Len(op) = 1 -> TokensExact(op[1])
      [] Len(op) = 3 -> SearchExact(op[1], op[2], op[3])
      [] OTHER -> EditExact(op[1], op[2], op[3], op[4])
=============================================================================
