----------------------------- MODULE MCAlgorithms -----------------------------
(***************************************************************************)
(* Sorting, searching, regular expressions, option parsing, numbers from   *)
(* strings, formatted text, strings, character sets and the calendar for   *)
(* TLC.  The initial state chooses one of them, and only its variables     *)
(* change.                                                                 *)
(***************************************************************************)
EXTENDS Sort, Sequences, FiniteSets

CONSTANTS Parts,     \* the algorithms that are run
          Patterns, Texts, Junk,
          Flags, Taking, Others, LongFlags, LongTaking, LongOptional, OtherNames,
          Apis, Clustering, MaxArgs,
          Keys, MaxNodes, MaxCalls,
          HashKeys, Data, Hashes, Sizes, MaxHashOps,
          Width, IntWidth, StackSize, NumberTexts, Bases,
          CharWidth, ShortWidth, BufSize, LineSize, WideSize, Stale, FormatJobs,
          Bytes, Memories,
          Charsets, CodePoints, MaxText, MaxRoom, NoText, VisFlags, VisBytes, VisLength,
          Starts, DaySteps, MaxTicks, Zones, Formats, Rooms, Inputs

VARIABLES part,
          pattern, text, junk, alts, nsub, a, idx, len, caps, rpc, match,
          api, args, optind, next, log,
          root, nodes, live, want, tret, tcalls,
          hash, table, items, dict, hret, hops,
          digits, radix, wideOK, noMemory, got,
          call, fpc, fmt, place, ap, dst, size, fpos, fout, pieces, off, file, blocks,
          line, at, stored, fret,
          before, mem, op, ret, save, toks,
          conv, from, to, cps, tail, input, pos, out, err, utf8,
          vflags, plain, spelled, fits, fed, state, back,
          now, date, ticks, tzoff, job

regexVars == <<pattern, text, junk, alts, nsub, a, idx, len, caps, rpc, match>>
optVars == <<api, args, optind, next, log>>
treeVars == <<root, nodes, live, want, tret, tcalls>>
hashVars == <<hash, table, items, dict, hret, hops>>
numVars == <<digits, radix, wideOK, noMemory, got>>
fmtVars == <<call, fpc, fmt, place, ap, dst, size, fpos, fout, pieces, off, file, blocks,
             line, at, stored, fret>>
strVars == <<before, mem, op, ret, save, toks>>
codecVars == <<conv, from, to, cps, tail, input, pos, out, err, utf8>>
visVars == <<vflags, plain, spelled, fits, fed, state, back>>
calVars == <<now, date, ticks, tzoff, job>>
searchVars == <<sortVars, regexVars, optVars, treeVars, hashVars>>
textVars == <<numVars, fmtVars, strVars, codecVars, visVars, calVars>>

R == INSTANCE Regex
O == INSTANCE Getopt
T == INSTANCE Search
N == INSTANCE Formats WITH text <- digits, base <- radix, job <- call, pc <- fpc, p <- place,
                           pos <- fpos, out <- fout, s <- at, ret <- fret
S == INSTANCE Strings
C == INSTANCE Codecs WITH api <- conv, junk <- tail, Junk <- NoText
K == INSTANCE Calendar

Char(c)      == [t |-> "char", c |-> c]
Dot          == [t |-> "dot"]
Class(s)     == [t |-> "class", set |-> s]
NotClass(s)  == [t |-> "notclass", set |-> s]
Mark(m)      == [t |-> m]
BackRef(n)   == [t |-> "ref", n |-> n]
Repeat(m, n) == [t |-> "range", m |-> m, n |-> n]

Quantifiers == {Mark("*"), Mark("+"), Mark("?")}
Ranges == {Repeat(1, 2), Repeat(2, -1)}

Words(Q) == {<<>>} \cup {<<x>> : x \in {Char("a"), Dot}}
                   \cup {<<x, q>> : x \in {Char("a"), Dot}, q \in Q}

Grouped(p) == <<Mark("(")>> \o p \o <<Mark(")")>>
Either(p, q) == p \o <<Mark("|")>> \o q

(* Two items in a row or as alternatives; a group between two items;       *)
(* alternatives in a group; with back references, anchors, classes and a   *)
(* group that is repeated a fixed number of times.  Left out are patterns  *)
(* where a quantified item after a plain one fails and another attempt     *)
(* succeeds: the length of the match is then wrong (see the README).       *)
SmallPatterns ==
  LET W == Words(Quantifiers \cup Ranges)
      Q == Words(Quantifiers)
      Back == {<<>>, <<BackRef(1)>>}
  IN {x \o y : x, y \in W} \cup {Either(x, y) : x, y \in W}
     \cup {x \o Grouped(y) \o z \o r : x, y \in Q, z \in {<<>>, <<Char("b")>>, <<Mark("$")>>}, r \in Back}
     \cup {h \o Grouped(Either(x, y)) \o r : h \in {<<>>, <<Mark("^")>>}, x, y \in Q, r \in Back}
     \cup {Grouped(Either(x, y)) \o <<Repeat(2, 2)>> : x, y \in Q}
     \cup {<<c, q>> \o x : c \in {Class({"a"}), NotClass({"a"})}, q \in Quantifiers, x \in Words({})}

(* "(a|b){2,3}" *)
RepeatedGroup == {Grouped(Either(<<Char("a")>>, <<Char("b")>>)) \o <<Repeat(2, 3)>>}

SmallTexts == UNION {[1 .. n -> {"a", "b"}] : n \in 0 .. 3}

(* Signs, prefixes, digits at the limits, fractions and exponents. *)
SmallNumbers == UNION {[1 .. n -> {" ", "-", "0", "1", "9", "x", "e", "w"}] : n \in 0 .. 3}
  \cup [1 .. 4 -> {"-", "0", "1", "9"}] \cup [1 .. 4 -> {"-", "0", "x", "1"}]
  \cup [1 .. 4 -> {"1", ".", "e", "-"}] \cup [1 .. 5 -> {"1", ".", "e"}]

Lit(c) == [spec |-> "lit", c |-> c]
Item(flags, width, prec, length, spec) ==
  [flags |-> flags, width |-> width, prec |-> prec, len |-> length, spec |-> spec]
Just(spec) == Item({}, 0, -1, <<>>, spec)
Call(fun, its, as, room, fd) == [fun |-> fun, items |-> its, args |-> as, room |-> room, fd |-> fd, text |-> <<>>]
Num(v) == [n |-> v]
Str(t) == [t |-> t]

(* Numbers at the limits of their types with up to two flags; the same     *)
(* without flags for the wide functions.                                   *)
Flagged == {<<F, "d">> : F \in {F \in SUBSET {"-", "+", " ", "0"} : Cardinality(F) <= 2}}
             \cup ({F \in SUBSET {"-", "0", "#"} : Cardinality(F) <= 2} \X {"u", "x", "X", "o"})
NumberJobs ==
  {Call("snprintf", <<Item(f[1], w, pr, l, f[2])>>, <<Num(v)>>, 8, 1) :
     f \in Flagged, w \in {0, 3}, pr \in {-1, 0, 2}, l \in {<<>>, <<"h", "h">>, <<"l">>}, v \in {-16, -1, 0, 15}}
  \cup {Call("snprintf", <<Item({}, 0, -1, l, c)>>, <<Num(v)>>, 8, 1) :
     l \in {<<"h">>, <<"l", "l">>, <<"j">>, <<"z">>, <<"t">>, <<"L">>}, c \in {"d", "u"}, v \in {-16, -1, 15}}
  \cup {Call("swprintf", <<Item({}, w, pr, <<>>, c)>>, <<Num(v)>>, 8, 1) :
     w \in {0, 3}, pr \in {-1, 0, 2}, c \in {"d", "u", "x", "X", "o", "p"}, v \in {-8, 0, 7, 15}}

(* Directives in a row, put into buffers of every size and sent in every   *)
(* way.                                                                    *)
Phrases(F) ==
  {<<Lit("a"), Just("d"), Lit("%"), Item(F, 3, -1, <<>>, "s"), Just("i"), Just("c")>>} \X {<<Num(-3), Str(<<"x", "w">>), [c |-> "c"]>>}
  \cup {<<Item({}, 2, 1, <<>>, "s"), Lit("w"), Just("p"), Just("u")>>} \X {<<v, Num(5), Num(-3)>> : v \in {Str(<<"x", "y">>), [null |-> TRUE]}}
Phrased(funs, F, rooms, fds) == {Call(f, ph[1], ph[2], r, fd) : f \in funs, ph \in Phrases(F), r \in rooms, fd \in fds}
PhraseJobs ==
  Phrased({"snprintf"}, {"-"}, 0 .. 9, {1}) \cup Phrased({"swprintf"}, {}, 0 .. 9, {1})
  \cup Phrased({"dprintf", "fprintf", "asprintf", "asprintf_null"}, {"-"}, {0}, {1, -1})
  \cup Phrased({"wprintf", "fwprintf", "fwprintf_wmem"}, {}, {0}, {1, -1})
RereadJobs ==
  {Call("reread", <<Item(F, w, -1, <<>>, c1), Lit(" "), Just(c2), Lit(" "), Just("s")>>, <<Num(v1), Num(v2), Str(<<"z">>)>>, 20, 1) :
     F \in {{}, {"0"}, {"+"}}, w \in {0, 3}, c1, c2 \in {"d", "u", "x", "o"}, v1 \in {-8, 0, 15}, v2 \in {-1, 6}}
ScanJobs ==
  {[Call(f, its, <<>>, 0, 0) EXCEPT !.text = t] : f \in {"sscanf", "swscanf", "fscanf", "fwscanf"},
     its \in {<<Just(c1), Just(c2)>> : c1 \in {"d", "u", "x", "o", "f", "s", "q"}, c2 \in {"d", "s", "f"}}
             \cup {<<Just("d"), Lit(","), Lit(" "), Just("u"), Lit("%")>>},
     t \in [1 .. 3 -> {"1", "-", " ", "w"}] \cup [1 .. 4 -> {"7", ",", "\n"}] \cup {<<"7", ",", " ", "7", "%">>}}
Idle == Call("sscanf", <<>>, <<>>, 0, 0)
SmallJobs == NumberJobs \cup PhraseJobs \cup RereadJobs \cup ScanJobs

SmallStale == {<<>>, <<"1">>, <<" ", "1">>}

SmallMemories == [1 .. 5 -> Bytes]

(* A lone continuation, one byte too many, and an incomplete character. *)
SmallNoText == {<<>>, <<128>>, <<193, 129>>, <<233>>}

SmallVisFlags == {{}, {"OCTAL"}, {"CSTYLE"}, {"CSTYLE", "WHITE"}, {"CSTYLE", "OCTAL"}, {"SP", "NOSLASH"}}

(* The epoch, the end of a leap February, and of a century. *)
At(t, sec, min, hour, mday, mon, year, wday, yday) ==
  [t |-> t, tm |-> [sec |-> sec, min |-> min, hour |-> hour, mday |-> mday, mon |-> mon,
                    year |-> year, wday |-> wday, yday |-> yday]]
Epoch == At(0, 0, 0, 0, 1, 0, 70, 4, 0)
SmallStarts == {Epoch, At(68043539, 59, 58, 12, 27, 1, 72, 0, 57), At(946598398, 58, 59, 23, 30, 11, 99, 4, 363)}

Field(c) == <<"%", c>>
SmallFormats ==
  {<<Field("H"), <<":">>, Field("M")>>, <<Field("m"), Field("d")>>,
   <<Field("Y"), Field("m"), Field("d"), Field("%"), Field("S")>>,
   <<Field("a"), Field("b"), Field("z"), Field("Z"), Field("w"), Field("u"), Field("q"), Field("")>>}
SmallInputs == [1 .. 5 -> {"0", "2", "6", ":"}] \cup [1 .. 4 -> {"0", "1", "3"}]
SmallZones == {<<"U", "T", "C">>, <<"+", "5", ":", "3", "0">>, <<"X", "-", "1", "2">>}
-----------------------------------------------------------------------------

Absent(p) ==
  CASE p = "sort" -> nmemb = 0 /\ key = 1
    [] p = "regex" -> pattern = <<>> /\ text = <<>> /\ junk = "none"
    [] p = "getopt" -> api = "getopt" /\ args = <<>>
    [] p = "hash" -> hash = [k \in HashKeys |-> 0]
    [] p = "number" -> digits = <<>> /\ radix = 10 /\ noMemory = FALSE
    [] p = "format" -> call = Idle
    [] p = "string" -> before = [x \in 1 .. 5 |-> 0]
    [] p = "charset" -> conv = "wcstombs" /\ cps = <<>> /\ tail = <<>> /\ utf8 = TRUE
    [] p = "vis" -> vflags = {} /\ plain = <<>>
    [] OTHER -> now = 0

AlgorithmsInit ==
  /\ part \in Parts
  /\ \A p \in {"sort", "regex", "getopt", "hash", "number", "format", "string", "charset", "vis", "calendar"} :
       part = p \/ (part # p /\ Absent(p))
  /\ R!Init /\ O!Init /\ T!TreeInit /\ T!HashInit /\ Init /\ S!Init /\ K!Init /\ C!VisInit /\ C!Init
  /\ part = "format" => call \in FormatJobs
  /\ N!Started /\ N!Init
  /\ wideOK \/ part = "number" \/ (part = "format" /\ call.fun \in N!Wide)

AlgorithmsNext ==
  \/ part = "sort" /\ Next /\ UNCHANGED <<part, regexVars, optVars, treeVars, hashVars, textVars>>
  \/ part = "regex" /\ R!Next /\ UNCHANGED <<part, sortVars, optVars, treeVars, hashVars, textVars>>
  \/ part = "getopt" /\ O!Next /\ UNCHANGED <<part, sortVars, regexVars, treeVars, hashVars, textVars>>
  \/ part = "tree" /\ T!TreeNext /\ UNCHANGED <<part, sortVars, regexVars, optVars, hashVars, textVars>>
  \/ part = "hash" /\ T!HashNext /\ UNCHANGED <<part, sortVars, regexVars, optVars, treeVars, textVars>>
  \/ part = "number" /\ N!Next /\ UNCHANGED <<part, searchVars, fmtVars, strVars, codecVars, visVars, calVars>>
  \/ part = "format" /\ N!FormatNext /\ UNCHANGED <<part, searchVars, numVars, strVars, codecVars, visVars, calVars>>
  \/ part = "string" /\ S!Next /\ UNCHANGED <<part, searchVars, numVars, fmtVars, codecVars, visVars, calVars>>
  \/ part = "charset" /\ C!Next /\ UNCHANGED <<part, searchVars, numVars, fmtVars, strVars, visVars, calVars>>
  \/ part = "vis" /\ C!VisNext /\ UNCHANGED <<part, searchVars, numVars, fmtVars, strVars, codecVars, calVars>>
  \/ part = "calendar" /\ K!Next /\ UNCHANGED <<part, searchVars, numVars, fmtVars, strVars, codecVars, visVars>>

AlgorithmsSpec == AlgorithmsInit /\ [][AlgorithmsNext]_<<part, searchVars, textVars>>

(* See Regex: regexec finds a match exactly if there is one. *)
RegexExact == part = "regex" => R!RegexExact
(* See Getopt: every letter, name and argument is reported once, in order. *)
OptionsExact == part = "getopt" => O!OptionsExact
(* See Search: the tree of tsearch has the keys that were put in, in       *)
(* order, and hsearch finds a key wherever it was entered.                 *)
TablesExact == (part = "tree" => T!TreeExact) /\ (part = "hash" => T!HashExact)
(* See Formats, Strings and Codecs: strtol and its kin give the value of   *)
(* the digits or the limit, string functions what the bytes say, iconv and *)
(* the multibyte functions the same characters in the other encoding, and  *)
(* unvis what vis was given.                                               *)
TextExact ==
  /\ part = "number" => N!NumbersExact
  /\ part = "string" => S!StringsExact
  /\ part = "charset" => C!CodecsExact
  /\ part = "vis" => C!VisExact
(* See Formats: printf and its kin put out what the format says and scanf  *)
(* stores what the text says, and one reads back what the other wrote.     *)
FormatsExact == part = "format" => N!FormatsExact
(* See Calendar: gmtime_r, mktime, strftime and strptime keep to the       *)
(* calendar and invert each other.                                         *)
TimesExact == part = "calendar" => K!TimesExact
=============================================================================
