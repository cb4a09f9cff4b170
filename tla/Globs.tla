-------------------------------- MODULE Globs --------------------------------
(***************************************************************************)
(* Patterns and names of files: fnmatch.c, glob.c, wordexp.c, realpath.c,  *)
(* path.c.                                                                 *)
(*                                                                         *)
(* The initial state chooses a function and its arguments, and one step    *)
(* computes the result.  A text is a sequence of characters.  In a tree    *)
(* every path is a sequence of names; dirs are the ones that can be        *)
(* opened, and order is the order in which readdir gives the entries.      *)
(***************************************************************************)
EXTENDS Integers, Sequences, SequencesExt, FiniteSetsExt

CONSTANTS Patterns, Strings,   \* of fnmatch
          Segments,            \* of the patterns of glob: each is a pattern
          CommandLines, ScarceLines,  \* of wordexp; the latter also without memory
          Homes, WordCap,      \* HOME, and the first size of a word's buffer
          Tree, Dirs,          \* paths, and those that are directories
          Paths, Cwds          \* of realpath, dirname and basename

VARIABLES call, flags, arg1, arg2,
          junk,                \* what is in memory behind the pattern
          noMemory,            \* the number of the allocation that fails, or 0
          result

globVars == <<call, flags, arg1, arg2, junk, noMemory, result>>

NUL == "NUL"
Ascii == [c \in {" ", "!", "\"", "'", "*", "-", ".", "/", "?", "[", "\\", "]", "^", "a", "b", "c", "~", NUL} |->
            CASE c = " " -> 32 [] c = "\"" -> 34 [] c = "'" -> 39 [] c = "~" -> 126
              [] c = "!" -> 33 [] c = "*" -> 42 [] c = "-" -> 45 [] c = "." -> 46 [] c = "/" -> 47
              [] c = "?" -> 63 [] c = "[" -> 91 [] c = "\\" -> 92 [] c = "]" -> 93 [] c = "^" -> 94
              [] c = "a" -> 97 [] c = "b" -> 98 [] c = "c" -> 99 [] OTHER -> 0]
-----------------------------------------------------------------------------

(* One character of a range, which may be escaped: it and what follows. *)
RangeChar(m, p, noescape) ==
  IF m[p] = "\\" /\ ~noescape /\ m[p + 1] # NUL THEN <<m[p + 1], p + 2>> ELSE <<m[p], p + 1>>

RECURSIVE RangeLoop(_, _, _, _, _)
RangeLoop(m, p, c, noescape, ok) ==
  IF m[p] \in {NUL, "]"} THEN <<ok, IF m[p] = "]" THEN p + 1 ELSE p>>
  ELSE LET s == RangeChar(m, p, noescape)
           e == RangeChar(m, s[2] + 1, noescape)
       IN IF m[s[2]] = "-" /\ m[s[2] + 1] \notin {NUL, "]"}
          THEN RangeLoop(m, e[2], c, noescape, ok \/ (Ascii[s[1]] <= Ascii[c] /\ Ascii[c] <= Ascii[e[1]]))
          ELSE RangeLoop(m, s[2], c, noescape, ok \/ s[1] = c)

(* Whether c is in the range at p, and the index behind it. *)
match_range(m, p, c, noescape) ==
  LET neg == m[p] \in {"!", "^"}
      r == RangeLoop(m, IF neg THEN p + 1 ELSE p, c, noescape, FALSE)
  IN <<r[1] # neg, r[2]>>

(* m is the pattern, its NUL and what follows in memory; t the string and  *)
(* its NUL.  A backslash at the end makes the loop read behind the NUL.    *)
RECURSIVE do_match(_, _, _, _, _)
do_match(m, p, t, s, noescape) ==
  CASE m[p] = NUL -> t[s] = NUL
    [] m[p] = "?" -> t[s] # NUL /\ do_match(m, p + 1, t, s + 1, noescape)
    [] m[p] = "*" ->
         LET q == CHOOSE i \in p + 1 .. Len(m) : m[i] # "*" /\ \A j \in p + 1 .. i - 1 : m[j] = "*"
         IN m[q] = NUL \/ \E i \in s .. Len(t) - 1 : do_match(m, q, t, i, noescape)
    [] m[p] = "[" ->
         t[s] # NUL /\ LET r == match_range(m, p + 1, t[s], noescape)
                       IN r[1] /\ do_match(m, r[2], t, s + 1, noescape)
    [] m[p] = "\\" /\ ~noescape ->
         t[s] = (IF m[p + 1] = NUL THEN "\\" ELSE m[p + 1]) /\ do_match(m, p + 2, t, s + 1, noescape)
    [] OTHER -> t[s] = m[p] /\ do_match(m, p + 1, t, s + 1, noescape)

fnmatch(pattern, string, noescape) ==
  do_match(pattern \o <<NUL>> \o junk \o <<NUL, NUL>>, 1, Append(string, NUL), 1, noescape)
-----------------------------------------------------------------------------

Entries(dir) == SetToSortSeq({n \in {Last(p) : p \in Tree \ {<<>>}} : Append(dir, n) \in Tree},
                             LAMBDA x, y : Ascii[x] > Ascii[y])

(* The matches so far, the allocations made, and whether one failed. *)
Fails(g) == g.allocs + 1 = noMemory

(* handle_dir and expand: a directory that cannot be opened has no match.  *)
(* join_path allocates a path, add_match the array and a copy of the path; *)
(* the first failure ends the expansion.                                   *)
RECURSIVE expand(_, _, _)
expand(dir, segs, g) ==
  LET Visit(h, n) ==
        LET next == Append(dir, n)
            joined == [h EXCEPT !.allocs = @ + 1]
        IN IF h.nospace \/ ~fnmatch(Head(segs), <<n>>, flags) THEN h
           ELSE IF Fails(h) THEN [h EXCEPT !.nospace = TRUE]
           ELSE IF Len(segs) > 1 THEN expand(next, Tail(segs), joined)
           ELSE IF noMemory \in joined.allocs + 1 .. joined.allocs + 2 THEN [joined EXCEPT !.nospace = TRUE]
           ELSE [joined EXCEPT !.allocs = @ + 2, !.paths = Append(@, next)]
  IN IF dir \notin Dirs THEN g ELSE FoldLeft(Visit, g, Entries(dir))

(* strcmp of two paths whose names are single characters: a slash comes    *)
(* before every name, and the end before a slash.                          *)
Before(x, y) ==
  \/ IsStrictPrefix(x, y)
  \/ \E i \in DOMAIN x \cap DOMAIN y : Ascii[x[i]] < Ascii[y[i]] /\ \A j \in 1 .. i - 1 : x[j] = y[j]

glob(segs, allocs) ==
  LET g == expand(<<>>, segs, [paths |-> <<>>, allocs |-> allocs, nospace |-> FALSE])
  IN CASE g.nospace -> <<"GLOB_NOSPACE", g.paths, g.allocs>>
       [] ~g.nospace /\ g.paths = <<>> -> <<"GLOB_NOMATCH", g.paths, g.allocs>>
       [] OTHER -> <<"0", SortSeq(g.paths, Before), g.allocs>>
-----------------------------------------------------------------------------
(* wordexp.  A word under way: its text, whether it is given to glob, the  *)
(* open quote or "", the size of the buffer and the allocations made.      *)

Wild == {"*", "?", "["}

Put(w, t) ==
  LET cap == CHOOSE c \in {w.cap * 2 ^ k : k \in 0 .. 4} :
               c > Len(w.text) + Len(t) /\ (c = w.cap \/ c \div 2 <= Len(w.text) + Len(t))
  IN CASE w.nospace -> w
       [] ~w.nospace /\ cap > w.cap /\ Fails(w) -> [w EXCEPT !.nospace = TRUE]
       [] OTHER -> [w EXCEPT !.text = @ \o t, !.cap = cap, !.allocs = IF cap > w.cap THEN @ + 1 ELSE @]

(* The word at the start of s, and what is behind it. *)
RECURSIVE Parsed(_, _)
Parsed(s, w) ==
  LET c == Head(s)
      rest == Tail(s)
  IN IF s = <<>> \/ w.nospace \/ w.syntax \/ (w.q = "" /\ s[1] = " ") THEN <<s, w>>
     ELSE IF c = "\\" /\ w.q # "'" THEN
       IF rest = <<>> THEN <<rest, [w EXCEPT !.syntax = TRUE]>>
       ELSE Parsed(Tail(rest), [Put(w, <<rest[1]>>) EXCEPT !.glob = @ /\ (w.q # "" \/ rest[1] \notin Wild)])
     ELSE IF w.q = "" /\ c \in {"'", "\""} THEN Parsed(rest, [w EXCEPT !.q = c])
     ELSE IF c = w.q THEN Parsed(rest, [w EXCEPT !.q = ""])
     ELSE IF w.q = "" /\ c = "~" /\ w.text = <<>> THEN Parsed(rest, Put(w, arg2))
     ELSE Parsed(rest, [Put(w, <<c>>) EXCEPT !.glob = @ \/ (w.q = "" /\ c \in Wild)])

parse_word(s, allocs) ==
  LET w == [text |-> <<>>, glob |-> TRUE, q |-> "", cap |-> WordCap, allocs |-> allocs + 1,
            nospace |-> allocs + 1 = noMemory, syntax |-> FALSE]
      r == Parsed(s, w)
  IN <<r[1], [r[2] EXCEPT !.syntax = @ \/ (r[2].q # "" /\ ~r[2].nospace)]>>

(* The segments into which expand divides a pattern. *)
RECURSIVE Split(_)
Split(t) ==
  IF t # <<>> /\ t[1] = "/" THEN Split(Tail(t))
  ELSE LET k == SelectInSeq(t, LAMBDA c : c = "/")
       IN CASE k = 0 -> <<t>>
            [] k = Len(t) /\ k > 0 -> <<Front(t)>>
            [] OTHER -> <<SubSeq(t, 1, k - 1)>> \o Split(SubSeq(t, k + 1, Len(t)))

PathText(path) == [i \in 1 .. 2 * Len(path) - 1 |-> IF i % 2 = 1 THEN path[(i + 1) \div 2] ELSE "/"]

(* The list so far.  A word needs a larger array, which realloc always     *)
(* moves, and a copy.  Without memory for the copy the new array is freed  *)
(* while the list goes on using the old one.                               *)
add_word(g, t) ==
  CASE g.ret # "0" -> g
    [] g.ret = "0" /\ g.allocs + 1 = noMemory -> [g EXCEPT !.ret = "WRDE_NOSPACE"]
    [] g.ret = "0" /\ g.allocs + 2 = noMemory -> [g EXCEPT !.ret = "WRDE_NOSPACE", !.dangling = g.words # <<>>]
    [] OTHER -> [g EXCEPT !.allocs = @ + 2, !.words = Append(@, t)]

do_glob_expand(g, w) ==
  IF ~w.glob THEN add_word([g EXCEPT !.allocs = w.allocs], w.text)
  ELSE LET r == glob(Split(w.text), w.allocs)
           h == [g EXCEPT !.allocs = r[3]]
       IN CASE r[1] = "GLOB_NOMATCH" -> add_word(h, w.text)
            [] r[1] = "0" -> FoldLeft(LAMBDA acc, path : add_word(acc, PathText(path)), h, r[2])
            [] OTHER -> [h EXCEPT !.ret = "WRDE_NOSPACE", !.lost = r[2]]   \* without globfree

wordfree(g) == [g EXCEPT !.words = <<>>]

RECURSIVE wordexp(_, _)
wordexp(s, g) ==
  IF s = <<>> \/ g.ret # "0" THEN IF g.ret = "0" THEN g ELSE wordfree(g)
  ELSE IF s[1] = " " THEN wordexp(Tail(s), g)
  ELSE LET r == parse_word(s, g.allocs)
       IN CASE r[2].nospace -> wordfree([g EXCEPT !.ret = "WRDE_NOSPACE"])
            [] ~r[2].nospace /\ r[2].syntax -> wordfree([g EXCEPT !.ret = "WRDE_SYNTAX"])
            [] OTHER -> wordexp(r[1], do_glob_expand(g, r[2]))

NoWords == [ret |-> "0", words |-> <<>>, allocs |-> 0, dangling |-> FALSE, lost |-> <<>>]
-----------------------------------------------------------------------------

(* The path without "." and ".." segments, in a buffer of characters. *)
RECURSIVE DropName(_)
DropName(out) == IF Len(out) > 1 /\ Last(out) # "/" THEN DropName(Front(out)) ELSE out

Parent(out) == LET o == DropName(out) IN IF Len(o) > 1 THEN Front(o) ELSE o

RECURSIVE Resolve(_, _)
Resolve(full, out) ==
  LET start == CHOOSE i \in 1 .. Len(full) + 1 :
                 (i = Len(full) + 1 \/ full[i] # "/") /\ \A j \in 1 .. i - 1 : full[j] = "/"
      end == CHOOSE i \in start .. Len(full) + 1 :
               (i = Len(full) + 1 \/ full[i] = "/") /\ \A j \in start .. i - 1 : full[j] # "/"
      seg == SubSeq(full, start, end - 1)
      rest == SubSeq(full, end, Len(full))
  IN CASE seg = <<>> -> out
       [] seg = <<".">> -> Resolve(rest, out)
       [] seg = <<".", ".">> -> Resolve(rest, IF Len(out) > 1 THEN Parent(out) ELSE out)
       [] OTHER -> Resolve(rest, (IF Len(out) > 1 THEN Append(out, "/") ELSE out) \o seg)

realpath(path, cwd) ==
  LET full == IF path # <<>> /\ path[1] = "/" THEN path
              ELSE cwd \o (IF Len(cwd) > 1 /\ Last(cwd) # "/" THEN <<"/">> ELSE <<>>) \o path
      out == Resolve(full, <<"/">>)
  IN IF Len(out) > 1 /\ Last(out) = "/" THEN Front(out) ELSE out

(* A path without the slashes, or without the name, at its end. *)
Trim(p, slashes) ==
  SubSeq(p, 1, Max({0} \cup {i \in DOMAIN p : (p[i] = "/") # slashes}))

basename(path) ==
  LET end == Trim(path, TRUE)
  IN CASE path = <<>> -> <<".">>
       [] path # <<>> /\ end = <<>> -> <<"/">>
       [] OTHER -> SubSeq(end, Len(Trim(end, FALSE)) + 1, Len(end))

(* A name in the root directory is taken for one in the working directory. *)
dirname(path) ==
  LET end == Trim(path, TRUE)
      dir == Trim(Trim(end, FALSE), TRUE)
  IN CASE path # <<>> /\ end = <<>> -> <<"/">>
       [] path = <<>> \/ (end # <<>> /\ dir = <<>>) -> <<".">>
       [] OTHER -> dir
-----------------------------------------------------------------------------

Init ==
  /\ call \in {"fnmatch", "glob", "wordexp", "realpath", "path"}
  /\ CASE call = "fnmatch" -> arg1 \in Patterns /\ arg2 \in Strings /\ noMemory = 0
                              /\ junk \in IF Len(arg1) > 0 /\ arg1[Len(arg1)] = "\\" THEN {<<>>, <<"a">>} ELSE {<<>>}
       [] call = "glob" -> /\ arg1 \in UNION {[1 .. n -> Segments] : n \in 1 .. 2} /\ arg2 = <<>>
                           /\ junk = <<>> /\ noMemory \in 0 .. 4
       [] call = "wordexp" -> /\ arg1 \in CommandLines /\ arg2 \in Homes /\ junk \in {<<>>, <<"a">>}
                              /\ (junk = <<>> \/ "\\" \in Range(arg1))
                              /\ noMemory \in (IF arg1 \in ScarceLines THEN 0 .. 12 ELSE {0})
       [] OTHER -> /\ arg1 \in Paths /\ arg2 \in (IF call = "path" THEN {<<"/">>} ELSE Cwds)
                   /\ junk = <<>> /\ noMemory = 0
  /\ flags \in (IF call \in {"wordexp", "realpath", "path"} THEN {FALSE} ELSE BOOLEAN)
  /\ result = "none"

Next ==
  /\ result = "none"
  /\ result' = CASE call = "fnmatch" -> <<fnmatch(arg1, arg2, flags)>>
                 [] call = "glob" -> glob(arg1, 0)
                 [] call = "wordexp" -> <<wordexp(arg1, NoWords)>>
                 [] call = "path" -> <<dirname(arg1), basename(arg1)>>
                 [] OTHER -> realpath(arg1, arg2)
  /\ UNCHANGED <<call, flags, arg1, arg2, junk, noMemory>>
-----------------------------------------------------------------------------
(* The reference: a pattern is a sequence of items, each a set of          *)
(* characters or a star.                                                   *)

Chars == DOMAIN Ascii \ {NUL}
Star == {NUL}

RECURSIVE Items(_, _)
Items(p, noescape) ==
  IF p = <<>> THEN <<>>
  ELSE CASE p[1] = "?" -> <<Chars>> \o Items(Tail(p), noescape)
         [] p[1] = "*" -> <<Star>> \o Items(Tail(p), noescape)
         [] p[1] = "[" ->
              LET m == p \o <<NUL, NUL, NUL>>
                  set == {c \in Chars : match_range(m, 2, c, noescape)[1]}
                  end == match_range(m, 2, "a", noescape)[2]
              IN <<set>> \o Items(SubSeq(p, end, Len(p)), noescape)
         [] p[1] = "\\" /\ ~noescape /\ Len(p) > 1 -> <<{p[2]}>> \o Items(SubSeq(p, 3, Len(p)), noescape)
         [] OTHER -> <<{p[1]}>> \o Items(Tail(p), noescape)

(* The set of indices of items that the string up to here can lead to. *)
Skipped(items, I) ==
  I \cup {j \in 2 .. Len(items) + 1 : \E i \in I : i < j /\ \A k \in i .. j - 1 : items[k] = Star}

InLanguage(items, s) ==
  Len(items) + 1 \in
    FoldLeft(LAMBDA I, c : Skipped(items, {i \in I : i <= Len(items) /\ items[i] = Star}
                                     \cup {i + 1 : i \in {k \in I : k <= Len(items) /\ c \in items[k]}}),
             Skipped(items, {1}), s)

(* A backslash at the end: not a pattern. *)
RECURSIVE Ended(_)
Ended(p) == p = <<>> \/ (p[1] # "\\" /\ Ended(Tail(p))) \/ (p[1] = "\\" /\ Len(p) > 1 /\ Ended(SubSeq(p, 3, Len(p))))

(* fnmatch succeeds exactly on the strings that the items of the pattern   *)
(* describe, whatever the backtracking does; patterns with a backslash at  *)
(* the end are left out.                                                   *)
MatchExact ==
  call = "fnmatch" /\ result # "none" /\ (flags \/ Ended(arg1)) =>
    result[1] = InLanguage(Items(arg1, flags), arg2)

(* glob gives every path of the tree whose names match, once, sorted; if   *)
(* memory ran out, it says so and what it gives are such paths.            *)
GlobExact ==
  call = "glob" /\ result # "none" =>
    LET all == {p \in Tree : Len(p) = Len(arg1) /\ \A i \in DOMAIN p : InLanguage(Items(arg1[i], flags), <<p[i]>>)}
    IN /\ Range(result[2]) \subseteq all /\ IsInjective(result[2])
       /\ result[1] # "GLOB_NOSPACE" => Range(result[2]) = all /\ (result[1] = "0") = (all # {})
       /\ result[1] = "0" => \A i \in 1 .. Len(result[2]) - 1 : Before(result[2][i], result[2][i + 1])
       /\ noMemory = 0 => result[1] # "GLOB_NOSPACE"

(* The reference of wordexp: the words of a line, each character with the  *)
(* way it was written.  A mode that is left at the end is a syntax error.  *)
Opened(st) == IF st.open THEN st ELSE [st EXCEPT !.open = TRUE, !.words = Append(@, <<>>)]
Added(st, c, how, mode) ==
  [Opened(st) EXCEPT !.mode = mode, !.words = [@ EXCEPT ![Len(@)] = Append(@, <<c, how>>)]]

Tokens(s) ==
  FoldLeft(LAMBDA st, c :
             CASE st.mode = "escape" -> Added(st, c, "escaped", "")
               [] st.mode = "quoted escape" -> Added(st, c, "quoted", "\"")
               [] st.mode \in {"'", "\""} ->
                    (CASE c = st.mode -> [st EXCEPT !.mode = ""]
                       [] c = "\\" /\ st.mode = "\"" -> [st EXCEPT !.mode = "quoted escape"]
                       [] OTHER -> Added(st, c, "quoted", st.mode))
               [] OTHER ->
                    CASE c = " " -> [st EXCEPT !.open = FALSE]
                      [] c = "\\" -> [Opened(st) EXCEPT !.mode = "escape"]
                      [] c \in {"'", "\""} -> [Opened(st) EXCEPT !.mode = c]
                      [] OTHER -> Added(st, c, "plain", ""),
           [mode |-> "", open |-> FALSE, words |-> <<>>], s)

Ways(w) == {x[2] : x \in {y \in Range(w) : y[1] \in Wild}}

(* The words that quoting leaves no doubt about: no wildcard in quotes, no *)
(* escaped next to plain ones, one tilde, one slash at a time.             *)
Clear(w) ==
  /\ Ways(w) \in {{}, {"escaped"}, {"plain"}}
  /\ \A i \in DOMAIN w : w[i][1] # "\\" /\ (w[i][1] = "/" => 1 < i /\ i < Len(w) /\ w[i + 1][1] # "/")
  /\ Len(w) > 1 => {w[1], w[2]} # {<<"~", "plain">>}

Meaning(w) ==
  LET chars == [i \in DOMAIN w |-> w[i][1]]
      text == IF w # <<>> /\ w[1] = <<"~", "plain">> THEN arg2 \o Tail(chars) ELSE chars
      segs == Split(text)
      found == {p \in Tree : Len(p) = Len(segs) /\ \A i \in DOMAIN p : InLanguage(Items(segs[i], FALSE), <<p[i]>>)}
  IN IF Ways(w) # {"plain"} \/ found = {} THEN <<text>>
     ELSE LET paths == SetToSortSeq(found, Before) IN [i \in DOMAIN paths |-> PathText(paths[i])]

(* wordexp gives the words of the line in order, without their quotes, the *)
(* tilde and the plain wildcards expanded, and a pattern that matches      *)
(* nothing as it is.  It refuses a line exactly if a quote is open or a    *)
(* backslash is last.  A failing call gives no words; the list of a line   *)
(* of one name survives a failing allocation, whichever it is.             *)
WordsExact ==
  call = "wordexp" /\ result # "none" =>
    \E t \in {Tokens(arg1)}, r \in {result[1]} :
      /\ r.ret = "0" /\ (\A i \in DOMAIN t.words : Clear(t.words[i])) =>
           r.words = FlattenSeq([i \in DOMAIN t.words |-> Meaning(t.words[i])])
      /\ r.ret # "0" => r.words = <<>>
      /\ noMemory = 0 => r.ret = IF t.mode = "" THEN "0" ELSE "WRDE_SYNTAX"
      /\ noMemory = 0 \/ (Len(t.words) = 1 /\ Ways(t.words[1]) = {}) => ~r.dangling /\ r.lost = <<>>

(* The segments of a path, and the directory they lead to. *)
SegmentsOf(s) ==
  SelectSeq(FoldLeft(LAMBDA acc, c : IF c = "/" THEN Append(acc, <<>>)
                                     ELSE [acc EXCEPT ![Len(acc)] = Append(@, c)], << <<>> >>, s),
            LAMBDA x : x \notin {<<>>, <<".">>})

Walked(segs) == FoldLeft(LAMBDA d, x : IF x # <<".", ".">> THEN Append(d, x) ELSE IF d = <<>> THEN d ELSE Front(d), <<>>, segs)

(* realpath gives an absolute path without empty, "." and ".." segments    *)
(* and without a slash at the end, that leads where the given one leads    *)
(* from the working directory.                                             *)
RealpathExact ==
  call = "realpath" /\ result # "none" =>
    LET given == IF arg1 # <<>> /\ arg1[1] = "/" THEN SegmentsOf(arg1) ELSE SegmentsOf(arg2) \o SegmentsOf(arg1)
        out == SegmentsOf(result)
    IN /\ result[1] = "/" /\ (Len(result) > 1 => Last(result) # "/")
       /\ out = Walked(given) /\ <<".", ".">> \notin Range(out)
       /\ Len(result) = FoldLeft(LAMBDA n, x : n + Len(x) + 1, 0, out) + (IF out = <<>> THEN 1 ELSE 0)

(* dirname and basename split a path: the second is one name, the two lead *)
(* where the path leads, and the first is absolute if the path is (except  *)
(* for a name in the root directory, where the code gives ".").            *)
SplitExact ==
  call = "path" /\ result # "none" =>
    LET dir == result[1]
        base == result[2]
    IN /\ base # <<>> /\ (base = <<"/">> \/ "/" \notin Range(base))
       /\ SegmentsOf(dir) \o SegmentsOf(base) = SegmentsOf(arg1)
       /\ dir = <<"/">> \/ Last(dir) # "/"
       /\ arg1 # <<>> => (dir[1] = "/") = (arg1[1] = "/" /\ dir # <<".">>)

(* The five. *)
NamesExact == MatchExact /\ GlobExact /\ WordsExact /\ RealpathExact /\ SplitExact
=============================================================================
