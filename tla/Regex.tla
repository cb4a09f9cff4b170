--------------------------------- MODULE Regex ---------------------------------
(***************************************************************************)
(* regcomp and regexec (src/regex.c).  A pattern is a sequence of tokens:  *)
(* an escape, a bracket expression and a repetition {m,n} are one token    *)
(* each, since the code handles them as units.  regcomp copies what a      *)
(* repetition asks for, multiplies alternatives out, and numbers groups;   *)
(* regexec tries the alternatives in turn, each one at every position, by  *)
(* backtracking.  Positions in the text count from 0.                      *)
(***************************************************************************)
EXTENDS Integers, Sequences, FiniteSets, SequencesExt

CONSTANTS Patterns,  \* sequences of tokens
          Texts,     \* sequences of characters
          Junk       \* what memory that was never set may hold

VARIABLES pattern, text, junk,
          alts,     \* the alternatives regcomp has made
          nsub,     \* re_nsub
          a, idx,   \* the alternative and the position tried next
          len,      \* the length an anchored attempt goes on from
          caps,     \* the groups, from position to position, or -1
          rpc, match

regexVars == <<pattern, text, junk, alts, nsub, a, idx, len, caps, rpc, match>>

(* A token tells what it is: "char" with its character, "dot", "class" and *)
(* "notclass" with a set, "ref" with a number, "range" with its limits     *)
(* (n = -1 for {m,}), or one of the marks ( ) | * + ? ^ $                  *)
Char(c) == [t |-> "char", c |-> c]
Mark(m) == [t |-> m]

From(p, i) == SubSeq(p, i, Len(p))
-----------------------------------------------------------------------------
(* The nesting before token i of p, and the end of the item that starts at *)
(* i: a group with all it contains, or one token.                          *)
Depth(p, i) ==
  Cardinality({j \in 1 .. i - 1 : p[j].t = "("}) - Cardinality({j \in 1 .. i - 1 : p[j].t = ")"})

ItemEnd(p, i) ==
  IF p[i].t # "(" THEN i
  ELSE CHOOSE j \in i .. Len(p) :
         /\ p[j].t = ")" /\ Depth(p, j + 1) = Depth(p, i)
         /\ \A k \in i .. j - 1 : Depth(p, k + 1) > Depth(p, i)

Copies(s, n) == FlattenSeq([k \in 1 .. n |-> s])

Repeated(item, r) ==
  IF r.n = -1 THEN Copies(item, r.m + 1) \o <<Mark("*")>>
  ELSE IF r.n >= r.m THEN Copies(item, r.m) \o Copies(item \o <<Mark("?")>>, r.n - r.m)
  ELSE item

(* A group is copied as it is: repetitions inside it are not expanded. *)
RECURSIVE expand_ranges(_)
expand_ranges(p) ==
  IF p = <<>> THEN <<>>
  ELSE LET e == ItemEnd(p, 1)
           item == SubSeq(p, 1, e)
       IN IF e < Len(p) /\ p[e + 1].t = "range"
          THEN Repeated(item, p[e + 1]) \o expand_ranges(From(p, e + 2))
          ELSE item \o expand_ranges(From(p, e + 1))

Bars(p) == {i \in 1 .. Len(p) : p[i].t = "|" /\ Depth(p, i) = 0}

(* A pattern without a top-level bar is multiplied out from the left. *)
RECURSIVE expand_alts(_)
expand_alts(p) ==
  IF Bars(p) # {}
  THEN LET i == CHOOSE i \in Bars(p) : \A j \in Bars(p) : i <= j
       IN expand_alts(SubSeq(p, 1, i - 1)) \o expand_alts(From(p, i + 1))
  ELSE IF p = <<>> THEN << <<>> >>
  ELSE LET e == ItemEnd(p, 1)
           Firsts == IF e = 1 THEN << <<p[1]>> >>
                     ELSE LET s == expand_alts(SubSeq(p, 2, e - 1))
                          IN [k \in 1 .. Len(s) |-> <<Mark("(")>> \o s[k] \o <<Mark(")")>>]
           Rests == expand_alts(From(p, e + 1))
       IN FlattenSeq([k \in 1 .. Len(Firsts) |-> [l \in 1 .. Len(Rests) |-> Firsts[k] \o Rests[l]]])

Opens(p, i) == Cardinality({j \in 1 .. i : p[j].t = "("})

(* Parentheses get the number of their group.  A repetition that is left   *)
(* over is read as characters, which are none of the text's.               *)
compile_single(p) ==
  [i \in 1 .. Len(p) |->
     CASE p[i].t = "(" -> [t |-> "open", n |-> Opens(p, i)]
       [] p[i].t = ")" -> [t |-> "close",
                           n |-> Opens(p, CHOOSE j \in 1 .. i : p[j].t = "(" /\ ItemEnd(p, j) = i)]
       [] p[i].t = "range" -> Char("{")
       [] OTHER -> p[i]]
-----------------------------------------------------------------------------
(* The character of a quantifier that follows a group, where regcomp does  *)
(* not expect one, was never set: it is junk.                              *)
matchone(tok, c) ==
  CASE tok.t = "dot" -> c # "newline"
    [] tok.t = "class" -> c \in tok.set
    [] tok.t = "notclass" -> c \notin tok.set
    [] tok.t = "char" -> tok.c = c
    [] OTHER -> junk = c

(* What a matcher returns: whether it matched, and what it has left in     *)
(* *ml and in the groups, which it does not reset when it fails.           *)
Fails(ml, cs) == [ok |-> FALSE, len |-> ml, caps |-> cs]

(* How many characters from position k on match tok. *)
Run(tok, k) == CHOOSE n \in 0 .. Len(text) - k :
  /\ \A i \in 1 .. n : matchone(tok, text[k + i])
  /\ n = Len(text) - k \/ ~matchone(tok, text[k + n + 1])

RECURSIVE Walk(_, _, _, _, _)
RECURSIVE Backtrack(_, _, _, _, _, _)

matchpattern(p, k, ml, cs) == Walk(p, k, ml, ml, cs)

(* The rest p is tried after n characters, then after fewer, down to min. *)
Backtrack(p, k, ml, cs, min, n) ==
  LET r == matchpattern(p, k + n, ml, cs) IN
  IF r.ok THEN r
  ELSE IF n = min THEN Fails(r.len - 1, r.caps)
  ELSE Backtrack(p, k, r.len - 1, r.caps, min, n - 1)

matchstar(p, k, ml, cs) ==
  LET n == Run(p[1], k)
      r == Backtrack(From(p, 3), k, ml + n, cs, 0, n)
  IN IF r.ok THEN r ELSE Fails(ml, r.caps)

(* Variant: matchplus does without a character. *)
matchplus_none(p, k, ml, cs) == matchstar(p, k, ml, cs)

matchplus(p, k, ml, cs) ==
  LET n == Run(p[1], k) IN
  IF n = 0 THEN Fails(ml, cs) ELSE Backtrack(From(p, 3), k, ml + n, cs, 1, n)

(* The empty match is tried first. *)
matchquestion(p, k, ml, cs) ==
  LET r == matchpattern(From(p, 3), k, ml, cs)
      s == matchpattern(From(p, 3), k + 1, r.len, r.caps)
  IN IF r.ok \/ Run(p[1], k) = 0 THEN r
     ELSE IF s.ok THEN [s EXCEPT !.len = @ + 1] ELSE s

Group(cs, n, i, k) == IF nsub = 0 THEN cs ELSE [cs EXCEPT ![n][i] = k]

(* The loop of matchpattern.  The length it began with, pre, is restored   *)
(* by the failures of the loop but not by those of a quantifier.           *)
Walk(p, k, pre, ml, cs) ==
  IF p = <<>> THEN [ok |-> TRUE, len |-> ml, caps |-> cs]
  ELSE LET tok == p[1]
           rest == Tail(p)
           quantifier == IF rest = <<>> THEN "none" ELSE rest[1].t
           If(c, n) == IF c THEN Walk(rest, k + n, pre, ml + n, cs) ELSE Fails(pre, cs)
       IN
  CASE tok.t = "open" -> Walk(rest, k, pre, ml, Group(cs, tok.n, 1, k))
    [] tok.t = "close" -> Walk(rest, k, pre, ml, Group(cs, tok.n, 2, k))
    [] tok.t = "ref" ->
         LET s == SubSeq(text, cs[tok.n][1] + 1, cs[tok.n][2])
         IN If(cs[tok.n][1] >= 0 /\ cs[tok.n][2] >= 0 /\ IsPrefix(s, From(text, k + 1)), Len(s))
    [] tok.t = "^" -> If(k = 0, 0)
    [] tok.t = "$" -> If(k = Len(text), 0)
    [] OTHER ->
         CASE quantifier = "?" -> matchquestion(p, k, ml, cs)
           [] quantifier = "*" -> matchstar(p, k, ml, cs)
           [] quantifier = "+" -> matchplus(p, k, ml, cs)
           [] OTHER -> If(k < Len(text) /\ matchone(tok, text[k + 1]), 1)
-----------------------------------------------------------------------------
NoMatch == [found |-> FALSE, so |-> -1, eo |-> -1, caps |-> <<>>]

Init ==
  /\ pattern \in Patterns /\ text \in Texts /\ junk \in Junk
  /\ alts = <<>> /\ nsub = 0
  /\ a = 1 /\ idx = 0 /\ len = 0 /\ caps = <<>>
  /\ rpc = "comp" /\ match = NoMatch

(* re_nsub is the number of groups of the last alternative. *)
regcomp ==
  /\ rpc = "comp"
  /\ LET s == expand_alts(expand_ranges(pattern)) IN
     /\ alts' = [k \in 1 .. Len(s) |-> compile_single(s[k])]
     /\ nsub' = Opens(s[Len(s)], Len(s[Len(s)]))
  /\ rpc' = "exec"
  /\ UNCHANGED <<pattern, text, junk, a, idx, len, caps, match>>

(* No memory: what was allocated is freed again. *)
RegcompFails ==
  /\ rpc = "comp"
  /\ rpc' = "failed"
  /\ UNCHANGED <<pattern, text, junk, alts, nsub, a, idx, len, caps, match>>

NoGroups == [n \in 1 .. nsub |-> <<-1, -1>>]

regexec ==
  /\ rpc = "exec"
  /\ caps' = NoGroups /\ a' = 1 /\ idx' = 0 /\ len' = 0
  /\ rpc' = "try"
  /\ UNCHANGED <<pattern, text, junk, alts, nsub, match>>

Anchored == alts[a] # <<>> /\ alts[a][1].t = "^"

(* One call of matchpattern; an anchored alternative is tried once, and    *)
(* with the groups and the length as the last attempt has left them.       *)
Attempt ==
  IF Anchored THEN matchpattern(Tail(alts[a]), 0, len, caps)
  ELSE matchpattern(alts[a], idx, 0, NoGroups)

Try ==
  LET r == Attempt IN
  /\ rpc = "try" /\ a <= Len(alts)
  /\ caps' = r.caps /\ len' = IF Anchored THEN r.len ELSE len
  /\ IF r.ok
     THEN /\ match' = [found |-> TRUE, so |-> idx, eo |-> idx + r.len, caps |-> r.caps]
          /\ rpc' = "done"
          /\ UNCHANGED <<a, idx>>
     ELSE /\ IF ~Anchored /\ idx < Len(text) THEN idx' = idx + 1 /\ a' = a ELSE idx' = 0 /\ a' = a + 1
          /\ UNCHANGED <<match, rpc>>
  /\ UNCHANGED <<pattern, text, junk, alts, nsub>>

GiveUp ==
  /\ rpc = "try" /\ a > Len(alts)
  /\ rpc' = "done"
  /\ UNCHANGED <<pattern, text, junk, alts, nsub, a, idx, len, caps, match>>

regfree ==
  /\ rpc = "done"
  /\ alts' = <<>> /\ rpc' = "freed"
  /\ UNCHANGED <<pattern, text, junk, nsub, a, idx, len, caps, match>>

Next == regcomp \/ RegcompFails \/ regexec \/ Try \/ GiveUp \/ regfree

Spec == Init /\ [][Next]_regexVars
-----------------------------------------------------------------------------
(* What a pattern means, without expansion and backtracking: the sets of   *)
(* places, with the groups on the way, that a match from the places in S   *)
(* can end at.  g groups have been opened before p.                        *)
RECURSIVE Ends(_, _, _)
RECURSIVE Times(_, _, _, _)

Once(item, g, S) ==
  LET tok == item[1]
      Step(st, n) == [st EXCEPT !.at = @ + n]
  IN CASE tok.t = "(" ->
            UNION {{[e EXCEPT !.caps[g + 1] = <<st.at, e.at>>] :
                      e \in Ends(SubSeq(item, 2, Len(item) - 1), g + 1, {st})} : st \in S}
       [] tok.t = "^" -> {st \in S : st.at = 0}
       [] tok.t = "$" -> {st \in S : st.at = Len(text)}
       [] tok.t = "ref" ->
            LET n(st) == st.caps[tok.n][2] - st.caps[tok.n][1] IN
            {Step(st, n(st)) : st \in
               {x \in S : IsPrefix(SubSeq(text, x.caps[tok.n][1] + 1, x.caps[tok.n][2]),
                                   From(text, x.at + 1))}}
       [] OTHER -> {Step(st, 1) : st \in {x \in S : x.at < Len(text) /\ matchone(tok, text[x.at + 1])}}

Times(item, g, n, S) == IF n = 0 THEN S ELSE Times(item, g, n - 1, Once(item, g, S))

Counts(q) ==
  CASE q.t = "*" -> 0 .. Len(text)
    [] q.t = "+" -> 1 .. Len(text) + 1
    [] q.t = "?" -> 0 .. 1
    [] q.t = "range" -> q.m .. (IF q.n = -1 THEN q.m + Len(text) ELSE q.n)
    [] OTHER -> {1}

Ends(p, g, S) ==
  IF Bars(p) # {}
  THEN LET i == CHOOSE i \in Bars(p) : TRUE
       IN Ends(SubSeq(p, 1, i - 1), g, S) \cup Ends(From(p, i + 1), g + Opens(p, i), S)
  ELSE IF p = <<>> THEN S
  ELSE LET e == ItemEnd(p, 1)
           q == IF e < Len(p) THEN p[e + 1] ELSE Mark("none")
           rest == From(p, IF Counts(q) = {1} /\ q.t # "range" THEN e + 1 ELSE e + 2)
       IN Ends(rest, g + Opens(p, e), UNION {Times(SubSeq(p, 1, e), g, n, S) : n \in Counts(q)})

Meaning(k) == Ends(pattern, 0, {[at |-> k, caps |-> [n \in 1 .. 9 |-> <<-1, -1>>]]})

Plain == \A i \in 1 .. Len(pattern) :
  /\ pattern[i].t # "|"
  /\ pattern[i].t = ")" /\ i < Len(pattern) => pattern[i + 1].t # "range"

(* regexec finds a match exactly if there is one, and what it reports is   *)
(* one.  Without alternatives it is the leftmost, and the groups are those *)
(* of the match, whatever attempts have failed before.                     *)
RegexExact == rpc = "done" =>
  IF match.found
  THEN /\ \E e \in Meaning(match.so) :
            /\ e.at = match.eo
            /\ Plain => \A n \in 1 .. nsub : e.caps[n] = match.caps[n]
       /\ Plain => \A k \in 0 .. match.so - 1 : Meaning(k) = {}
  ELSE \A k \in 0 .. Len(text) : Meaning(k) = {}
=============================================================================
