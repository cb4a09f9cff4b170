------------------------------- MODULE Formats -------------------------------
(***************************************************************************)
(* Text and numbers.  First, numbers read from text: strto.c, and the wide *)
(* versions in wchar_conv.c, which convert to bytes and call the narrow    *)
(* ones.  Then formatted output and input, which read and write numbers    *)
(* within text: printf.c, wprintf.c, scanf.c and wscanf.c; there one step  *)
(* is one round of the loop over the format, one write, or one allocation. *)
(*                                                                         *)
(* A text is a sequence of characters, without the terminator; "w" is a    *)
(* wide character that has no byte of its own.  char, short and int have   *)
(* CharWidth, ShortWidth and IntWidth bits; long, long long, size_t and    *)
(* pointers have Width, so that the limits are in reach of small texts.  A *)
(* floating-point value is a pair of a decimal mantissa and an exponent:   *)
(* rounding is left out.                                                   *)
(*                                                                         *)
(* A job is one call of printf or scanf.  Its format is given by items,    *)
(* characters and directives, and Render spells them out; the code only    *)
(* sees the text.  A format does not end within a directive, and arguments *)
(* have the types that it asks for: an argument is [n |-> number],         *)
(* [c |-> character], [t |-> text], or NULL.                               *)
(***************************************************************************)
EXTENDS Integers, Sequences, SequencesExt, FiniteSetsExt

CONSTANTS Width, IntWidth,
          StackSize,          \* of the buffer that the wide versions have
          NumberTexts, Bases

VARIABLES text, base,
          wideOK,             \* the locale has bytes for wide characters
          noMemory,           \* malloc fails
          got                 \* what the functions return; <<>> before the calls

numVars == <<text, base, wideOK, noMemory, got>>

LONG_MAX == 2 ^ (Width - 1) - 1
LONG_MIN == -LONG_MAX - 1
ULONG_MAX == 2 ^ Width - 1

(* A number as an int of w bits sees it. *)
Wrapped(n, w) == LET m == n % 2 ^ w IN IF m < 2 ^ (w - 1) THEN m ELSE m - 2 ^ w

Result(val, end, errno) == [val |-> val, end |-> end, errno |-> errno]

Digits36 == <<"0", "1", "2", "3", "4", "5", "6", "7", "8", "9", "a", "b", "c", "d", "e", "f", "g", "h", "i", "j",
              "k", "l", "m", "n", "o", "p", "q", "r", "s", "t", "u", "v", "w", "x", "y", "z">>
digit_val(c) == IF Contains(Digits36, c) THEN (CHOOSE k \in 1 .. 36 : Digits36[k] = c) - 1 ELSE -1

IsDigit(c, b) == digit_val(c) \in 0 .. b - 1
Decimal(c) == IsDigit(c, 10)

(* The character at place i; NUL after the last one. *)
At(s, i) == IF i \in 1 .. Len(s) THEN s[i] ELSE "NUL"

(* The first place from i on whose character is not one of S. *)
Skip(s, i, S) == Min({k \in i .. Len(s) + 1 : k > Len(s) \/ s[k] \notin S})
Spaces == {" ", "\t", "\n", "\r", "\f"}
DigitsOf(s, b) == {c \in Range(s) : IsDigit(c, b)}

(* Where the sign ends, and whether it is a minus. *)
Sign(s, i) == IF At(s, i) \in {"+", "-"} THEN i + 1 ELSE i

(* The base and the place of the first digit: a prefix is skipped whether  *)
(* or not digits follow it.                                                *)
Prefix(s, i, b) ==
  LET hex == At(s, i) = "0" /\ At(s, i + 1) = "x"
  IN CASE b \in {0, 16} /\ hex -> <<16, i + 2>>
       [] b = 0 /\ ~hex /\ At(s, i) = "0" -> <<8, i + 1>>
       [] b = 0 /\ At(s, i) # "0" -> <<10, i>>
       [] OTHER -> <<b, i>>

(* One round of the loop over the digits.  acc is <<value, overflow>>. *)
Accumulate(acc, d, b, cutoff) ==
  LET cutdiv == cutoff \div b
      cutlim == cutoff % b
  IN CASE acc[2] -> acc
       [] ~acc[2] /\ (acc[1] > cutdiv \/ (acc[1] = cutdiv /\ d > cutlim)) -> <<acc[1], TRUE>>
       [] OTHER -> <<acc[1] * b + d, FALSE>>

(* What the four functions share.  limit[neg] is the largest magnitude. *)
Scan(s, b, limit) ==
  LET i == Skip(s, 1, Spaces)
      neg == At(s, i) = "-"
      p == Prefix(s, Sign(s, i), b)
      stop == Skip(s, p[2], DigitsOf(s, p[1]))
      step(acc, c) == Accumulate(acc, digit_val(c), p[1], limit[neg])
      acc == FoldLeft(step, <<0, FALSE>>, SubSeq(s, p[2], stop - 1))
  IN [neg |-> neg, none |-> stop = p[2], val |-> acc[1], over |-> acc[2],
      end |-> IF stop = p[2] THEN 1 ELSE stop]

BadBase(b) == b # 0 /\ (b < 2 \/ b > 36)

(* As strtol, but the limit for positive numbers is used for negative ones *)
(* as well.                                                                *)
strtol_onelimit(s, b) ==
  LET r == Scan(s, b, [neg \in BOOLEAN |-> LONG_MAX])
  IN IF r.none THEN Result(0, r.end, "0")
     ELSE IF r.over THEN Result(IF r.neg THEN LONG_MIN ELSE LONG_MAX, r.end, "ERANGE")
     ELSE Result(IF r.neg THEN -r.val ELSE r.val, r.end, "0")

strtol(s, b) ==
  LET r == Scan(s, b, [neg \in BOOLEAN |-> IF neg THEN LONG_MAX + 1 ELSE LONG_MAX])
  IN CASE BadBase(b) -> Result(0, 1, "EINVAL")
       [] ~BadBase(b) /\ r.none -> Result(0, r.end, "0")
       [] ~BadBase(b) /\ ~r.none /\ r.over ->
            Result(IF r.neg THEN LONG_MIN ELSE LONG_MAX, r.end, "ERANGE")
       [] OTHER -> LET v == Wrapped(r.val, Width)
                   IN Result(IF r.neg THEN Wrapped(-v, Width) ELSE v, r.end, "0")

strtoul(s, b) ==
  LET r == Scan(s, b, [neg \in BOOLEAN |-> ULONG_MAX])
  IN CASE BadBase(b) -> Result(0, 1, "EINVAL")
       [] ~BadBase(b) /\ r.none -> Result(0, r.end, "0")
       [] ~BadBase(b) /\ ~r.none /\ r.over -> Result(ULONG_MAX, r.end, "ERANGE")
       [] OTHER -> Result(IF r.neg THEN (-r.val) % 2 ^ Width ELSE r.val, r.end, "0")

(* long long has the width of long. *)
strtoll(s, b) == strtol(s, b)
strtoull(s, b) == strtoul(s, b)
strtoimax(s, b) == strtoll(s, b)
strtoumax(s, b) == strtoull(s, b)
atoi(s) == Wrapped(strtol(s, 10).val, IntWidth)

Value(s, from, to) == FoldLeft(LAMBDA v, c : v * 10 + digit_val(c), 0, SubSeq(s, from, to - 1))

(* The exponent at place e, and where it ends; none if no digit follows. *)
Exponent(s, e) ==
  LET d == Sign(s, e + 1)
      stop == Skip(s, d, DigitsOf(s, 10))
      v == Value(s, d, stop)
  IN IF At(s, e) # "e" \/ stop = d THEN <<0, e>>
     ELSE <<IF At(s, e + 1) = "-" THEN -v ELSE v, stop>>

(* The value is mant * 10 ^ exp10. *)
strtod(s) ==
  LET i == Skip(s, 1, Spaces)
      d == Sign(s, i)
      whole == Skip(s, d, DigitsOf(s, 10))
      point == At(s, whole) = "."
      frac == IF point THEN Skip(s, whole + 1, DigitsOf(s, 10)) ELSE whole
      places == IF point THEN frac - whole - 1 ELSE 0
      seen == whole > d \/ places > 0
      m == Value(s, d, whole) * 10 ^ places + (IF point THEN Value(s, whole + 1, frac) ELSE 0)
      x == Exponent(s, frac)
  IN IF seen THEN [mant |-> IF At(s, i) = "-" THEN -m ELSE m, exp10 |-> x[1] - places, end |-> x[2]]
     ELSE [mant |-> 0, exp10 |-> 0, end |-> 1]

strtold(s) == strtod(s)

(* The bytes of a wide text: two for a wide character. *)
ByteSeq(s) == FlattenSeq([i \in 1 .. Len(s) |-> IF s[i] = "w" THEN <<"w1", "w2">> ELSE <<s[i]>>])

(* wcs_to_mb_tmp succeeds, and the bytes fit on the stack or in new memory. *)
wcs_to_mb_tmp(s) == (wideOK \/ "w" \notin Range(s)) /\ (Len(ByteSeq(s)) < StackSize \/ ~noMemory)

WideFails(s) == Result(0, 1, IF wideOK \/ "w" \notin Range(s) THEN "ENOMEM" ELSE "EILSEQ")

(* The end counts bytes, and is used as a number of wide characters. *)
wcstol(s, b) == IF wcs_to_mb_tmp(s) THEN strtol(ByteSeq(s), b) ELSE WideFails(s)
wcstoul(s, b) == IF wcs_to_mb_tmp(s) THEN strtoul(ByteSeq(s), b) ELSE WideFails(s)
wcstoll(s, b) == IF wcs_to_mb_tmp(s) THEN strtoll(ByteSeq(s), b) ELSE WideFails(s)
wcstoull(s, b) == IF wcs_to_mb_tmp(s) THEN strtoull(ByteSeq(s), b) ELSE WideFails(s)
wcstoimax(s, b) == IF wcs_to_mb_tmp(s) THEN strtoimax(ByteSeq(s), b) ELSE WideFails(s)
wcstoumax(s, b) == IF wcs_to_mb_tmp(s) THEN strtoumax(ByteSeq(s), b) ELSE WideFails(s)
wcstod(s) == IF wcs_to_mb_tmp(s) THEN strtod(ByteSeq(s)) ELSE [mant |-> 0, exp10 |-> 0, end |-> 1]
wcstold(s) == IF wcs_to_mb_tmp(s) THEN strtold(ByteSeq(s)) ELSE [mant |-> 0, exp10 |-> 0, end |-> 1]
-----------------------------------------------------------------------------

Init == /\ text \in NumberTexts /\ base \in Bases
        /\ wideOK \in BOOLEAN /\ noMemory \in BOOLEAN /\ (noMemory => wideOK)
        /\ got = <<>>

Convert ==
  /\ got = <<>>
  /\ got' = [signed |-> {strtol(text, base), strtoll(text, base), strtoimax(text, base)},
             unsigned |-> {strtoul(text, base), strtoull(text, base), strtoumax(text, base)},
             int |-> atoi(text),
             float |-> {strtod(text), strtold(text)},
             wsigned |-> {wcstol(text, base), wcstoll(text, base), wcstoimax(text, base)},
             wunsigned |-> {wcstoul(text, base), wcstoull(text, base), wcstoumax(text, base)},
             wfloat |-> {wcstod(text), wcstold(text)}]
  /\ UNCHANGED <<text, base, wideOK, noMemory>>

Next == Convert
-----------------------------------------------------------------------------

(* A text without leading spaces and one sign. *)
Body(t) == SubSeq(t, Sign(t, Skip(t, 1, Spaces)), Len(t))
Negative(t) == At(t, Skip(t, 1, Spaces)) = "-"

AllDigits(t, b) == t # <<>> /\ \A i \in DOMAIN t : IsDigit(t[i], b)

(* The digits of a numeral and their base; <<>> and 0 if t is not one. *)
Numeral(t, b) ==
  LET u == Body(t)
      hex == Len(u) > 2 /\ u[1] = "0" /\ u[2] = "x" /\ AllDigits(SubSeq(u, 3, Len(u)), 16)
      c == IF b = 0 THEN IF u # <<>> /\ u[1] = "0" THEN 8 ELSE 10 ELSE b
  IN CASE b \in {0, 16} /\ hex -> <<SubSeq(u, 3, Len(u)), 16>>
       [] ~(b \in {0, 16} /\ hex) /\ AllDigits(u, c) -> <<u, c>>
       [] OTHER -> <<<<>>, 0>>

(* The number that digits stand for. *)
Denoted(ds, b) == MapThenSumSet(LAMBDA k : digit_val(ds[Len(ds) - k]) * b ^ k, 0 .. Len(ds) - 1)

Longest(t, P(_)) == Max({0} \cup {n \in 1 .. Len(t) : P(SubSeq(t, 1, n))})

(* The text has a prefix that asks for a base, and no digit after it. *)
LonePrefix(t, b) ==
  LET u == Body(t)
  IN \/ b \in {0, 16} /\ At(u, 1) = "0" /\ At(u, 2) = "x" /\ ~IsDigit(At(u, 3), 16)
     \/ b = 0 /\ At(u, 1) = "0" /\ At(u, 2) # "x" /\ ~IsDigit(At(u, 2), 8)

(* What a text is worth: the longest numeral it starts with.  A number out *)
(* of range is replaced by the nearest one in range and ERANGE is set; as  *)
(* unsigned, a negative number is taken modulo 2 ^ Width.                  *)
Worth(t, b, low, high, Fit(_)) ==
  LET n == Longest(t, LAMBDA p : Numeral(p, b)[1] # <<>>)
      num == Numeral(SubSeq(t, 1, n), b)
      v == IF Negative(t) THEN -Denoted(num[1], num[2]) ELSE Denoted(num[1], num[2])
  IN CASE BadBase(b) -> Result(0, 1, "EINVAL")
       [] ~BadBase(b) /\ (n = 0 \/ LonePrefix(t, b)) -> Result(0, 1, "0")
       [] OTHER -> Result(Fit(v), n + 1, IF v \in low .. high THEN "0" ELSE "ERANGE")

SignedWorth(t, b) == Worth(t, b, LONG_MIN, LONG_MAX, LAMBDA v : Max({LONG_MIN, Min({v, LONG_MAX})}))
UnsignedWorth(t, b) ==
  Worth(t, b, -ULONG_MAX, ULONG_MAX, LAMBDA v : IF v \in -ULONG_MAX .. ULONG_MAX THEN v % 2 ^ Width ELSE ULONG_MAX)

(* Digits with at most one point. *)
IsMantissa(u) ==
  /\ \E i \in DOMAIN u : Decimal(u[i])
  /\ \A i \in DOMAIN u : Decimal(u[i]) \/ u[i] = "."
  /\ \A i, j \in DOMAIN u : u[i] = "." /\ u[j] = "." => i = j
IsExponent(u) == u = <<>> \/ (u[1] = "e" /\ AllDigits(SubSeq(u, Sign(u, 2), Len(u)), 10))
IsFloat(t) ==
  \E k \in 0 .. Len(Body(t)) :
    IsMantissa(SubSeq(Body(t), 1, k)) /\ IsExponent(SubSeq(Body(t), k + 1, Len(Body(t))))

FloatWorth(t) ==
  LET n == Longest(t, IsFloat)
      u == Body(SubSeq(t, 1, n))
      k == CHOOSE i \in 1 .. Len(u) : IsMantissa(SubSeq(u, 1, i)) /\ IsExponent(SubSeq(u, i + 1, Len(u)))
      digits == SelectSeq(SubSeq(u, 1, k), LAMBDA c : c # ".")
      after == IF Contains(SubSeq(u, 1, k), ".") THEN k - (CHOOSE i \in 1 .. k : u[i] = ".") ELSE 0
      e == SubSeq(u, Sign(u, k + 2), Len(u))
      m == Denoted(digits, 10)
  IN IF n = 0 THEN [mant |-> 0, exp10 |-> 0, end |-> 1]
     ELSE [mant |-> IF Negative(t) THEN -m ELSE m, end |-> n + 1,
           exp10 |-> (IF At(u, k + 2) = "-" THEN -Denoted(e, 10) ELSE Denoted(e, 10)) - after]

(* The functions of strto.c give the value of the longest numeral that the *)
(* text starts with, clamped to the type, and point behind it.  The wide   *)
(* versions give the same, in wide characters, unless the text cannot be   *)
(* converted to bytes.  One exception: after a lone prefix, as in "0" with *)
(* base 0, they report that there was no number.                           *)
NumbersExact ==
  got # <<>> =>
    /\ got.signed = {SignedWorth(text, base)}
    /\ got.unsigned = {UnsignedWorth(text, base)}
    /\ SignedWorth(text, 10).val \in -(2 ^ (IntWidth - 1)) .. 2 ^ (IntWidth - 1) - 1 => got.int = SignedWorth(text, 10).val
    /\ got.float = {FloatWorth(text)}
    /\ wcs_to_mb_tmp(text) => /\ got.wsigned = got.signed /\ got.wunsigned = got.unsigned
                              /\ got.wfloat = got.float
    /\ ~wcs_to_mb_tmp(text) => \A r \in got.wsigned \cup got.wunsigned \cup got.wfloat : r.end = 1
-----------------------------------------------------------------------------

CONSTANTS CharWidth, ShortWidth,
          BufSize,            \* of the buffer for output to a descriptor
          LineSize,           \* of the buffer for a line of input
          WideSize,           \* of the bytes of a wide number
          Stale,              \* what may be in memory that was not set
          FormatJobs          \* the calls: [fun, items, args, room, fd, text]

VARIABLES job, pc, fmt,
          p,                  \* place in the format
          ap,                 \* arguments that are left
          dst, size,          \* the buffer, from 0 on, and its size
          pos,                \* characters put out
          out, pieces,        \* history: all of them, and what each directive gave
          off, file,          \* what was written of the buffer, and to the file
          blocks,             \* memory that the call has allocated
          line, s, stored,    \* input, place in it, values stored
          ret

printVars == <<dst, size, pos, out, pieces>>
scanVars == <<line, s, stored>>
formatVars == <<job, pc, fmt, p, ap, printVars, off, file, blocks, scanVars, ret>>

Wide == {"swprintf", "wprintf", "fwprintf", "fwprintf_wmem", "swscanf", "fwscanf"}
Scanning == {"sscanf", "swscanf", "fscanf", "fwscanf"}
TwoPass == {"asprintf", "asprintf_null", "fprintf", "fwprintf", "fwprintf_wmem"}  \* the streams are memory streams
Direct == {"dprintf", "wprintf"}
wide == job.fun \in Wide

Lowercase == <<"0", "1", "2", "3", "4", "5", "6", "7", "8", "9", "a", "b", "c", "d", "e", "f">>
Uppercase == <<"0", "1", "2", "3", "4", "5", "6", "7", "8", "9", "A", "B", "C", "D", "E", "F">>

ull_to_base(n, b, upper) ==
  LET k == Min({i \in 1 .. Width : n < b ^ i})
  IN [j \in 1 .. k |-> (IF upper THEN Uppercase ELSE Lowercase)[1 + ((n \div b ^ (k - j)) % b)]]

Fill(c, n) == [i \in 1 .. n |-> c]
-----------------------------------------------------------------------------

(* The directive whose text starts at place i; wide ones have no flags and *)
(* no length.                                                              *)
Directive(f, i) ==
  LET digits == DigitsOf(f, 10)
      fl == Skip(f, i, {"-", "+", " ", "0", "#"})
      w == Skip(f, fl, digits)
      pr == IF At(f, w) = "." THEN Skip(f, w + 1, digits) ELSE w
      c == At(f, pr)
      end == CASE c \in {"h", "l"} /\ At(f, pr + 1) = c -> pr + 2
               [] c \in {"h", "l"} /\ At(f, pr + 1) # c -> pr + 1
               [] c \in {"j", "z", "t", "L"} -> pr + 1
               [] OTHER -> pr
  IN [flags |-> Range(SubSeq(f, i, fl - 1)), width |-> Value(f, fl, w),
      prec |-> IF At(f, w) = "." THEN Value(f, w + 1, pr) ELSE -1,
      len |-> SubSeq(f, pr, end - 1), spec |-> At(f, end), next |-> end + 1]

DirectiveW(f, i) ==
  LET w == Skip(f, i, DigitsOf(f, 10))
      pr == IF At(f, w) = "." THEN Skip(f, w + 1, DigitsOf(f, 10)) ELSE w
  IN [flags |-> {}, width |-> Value(f, i, w), prec |-> IF At(f, w) = "." THEN Value(f, w + 1, pr) ELSE -1,
      len |-> <<>>, spec |-> At(f, pr), next |-> pr + 1]

Bits(len) == CASE len = <<"h", "h">> -> CharWidth
               [] len = <<"h">> -> ShortWidth
               [] len \in {<<>>, <<"L">>} -> IntWidth
               [] OTHER -> Width

(* %s *)
NULL == [null |-> TRUE]
StringOf(v) == IF v = NULL THEN <<"(", "n", "u", "l", "l", ")">> ELSE v.t

Text(d, v) ==
  LET whole == StringOf(v)
      t == IF d.prec >= 0 THEN SubSeq(whole, 1, Min({d.prec, Len(whole)})) ELSE whole
      n == Max({0, d.width - Len(t)})
  IN IF "-" \in d.flags THEN t \o Fill(" ", n)
     ELSE Fill(IF "0" \in d.flags THEN "0" ELSE " ", n) \o t

(* Variant: zeros fill up to the width without regard to the sign. *)
NumberWide(d, sign, prefix, ds) ==
  LET num_len == Max({d.prec, Len(ds)})
      zero_pad == IF "0" \in d.flags /\ d.prec < 0 /\ "-" \notin d.flags THEN Max({0, d.width - num_len}) ELSE 0
      n == Max({0, d.width - (Len(sign \o prefix) + zero_pad + num_len)})
  IN (IF "-" \in d.flags THEN <<>> ELSE Fill(" ", n)) \o sign \o prefix
     \o Fill("0", zero_pad + num_len - Len(ds)) \o ds \o (IF "-" \in d.flags THEN Fill(" ", n) ELSE <<>>)

(* Sign, prefix and digits, filled up to the precision and to the width. *)
Number(d, sign, prefix, ds) ==
  LET num_len == Max({d.prec, Len(ds)})
      prefix_total == Len(prefix) + Len(sign)
      zero_pad == IF "0" \in d.flags /\ d.prec < 0 /\ "-" \notin d.flags
                  THEN Max({0, d.width - (prefix_total + num_len)}) ELSE 0
      n == Max({0, d.width - (prefix_total + zero_pad + num_len)})
  IN (IF "-" \in d.flags THEN <<>> ELSE Fill(" ", n)) \o sign \o prefix
     \o Fill("0", zero_pad + num_len - Len(ds)) \o ds \o (IF "-" \in d.flags THEN Fill(" ", n) ELSE <<>>)

(* -sv wraps for the least long long: its digits are right all the same. *)
Signed(d, sv) ==
  Number(d, CASE sv < 0 -> <<"-">>
              [] sv >= 0 /\ "+" \in d.flags -> <<"+">>
              [] sv >= 0 /\ "+" \notin d.flags /\ " " \in d.flags -> <<" ">>
              [] OTHER -> <<>>,
         <<>>, ull_to_base(IF sv < 0 THEN -sv ELSE sv, 10, FALSE))

Unsigned(d, uv, b) ==
  Number(d, <<>>,
         CASE b = 16 /\ "#" \in d.flags /\ uv # 0 -> <<"0", d.spec>>
           [] b = 8 /\ "#" \in d.flags /\ (uv # 0 \/ d.prec = 0) -> <<"0">>
           [] OTHER -> <<>>,
         ull_to_base(uv, b, d.spec = "X"))

Takes(d) == d.spec \in {"s", "d", "u", "x", "X", "o", "p", "c"}

(* What a directive puts out for the argument v. *)
Expand(d, v) ==
  CASE d.spec = "s" -> Text(d, v)
    [] d.spec = "d" -> Signed(d, Wrapped(v.n, Bits(d.len)))
    [] d.spec = "u" -> Unsigned(d, v.n % 2 ^ Bits(d.len), 10)
    [] d.spec \in {"x", "X"} -> Unsigned(d, v.n % 2 ^ Bits(d.len), 16)
    [] d.spec = "o" -> Unsigned(d, v.n % 2 ^ Bits(d.len), 8)
    [] d.spec = "p" -> Number(d, <<>>, <<"0", "x">>, ull_to_base(v.n % 2 ^ Width, 16, FALSE))
    [] d.spec = "c" -> Number(d, <<>>, <<>>, <<v.c>>)
    [] OTHER -> <<"%", d.spec>>
-----------------------------------------------------------------------------

(* Characters go to the buffer while there is room for them and a NUL. *)
out_str(t) ==
  /\ dst' = [i \in DOMAIN dst |-> IF i \in pos .. pos + Len(t) - 1 /\ i + 1 < size THEN t[i - pos + 1] ELSE dst[i]]
  /\ pos' = pos + Len(t)
  /\ out' = out \o t

(* A call returns r. *)
Return(r) == pc' = "done" /\ ret' = r

Buffer(n) == [i \in 0 .. n - 1 |-> "?"]

Chars(n) == ull_to_base(n, 10, FALSE)

(* The text of an item: flags in some order, width, precision, length. *)
Spell(it) ==
  IF it.spec = "lit" THEN IF it.c = "%" THEN <<"%", "%">> ELSE <<it.c>>
  ELSE <<"%">> \o SetToSeq(it.flags) \o (IF it.width > 0 THEN Chars(it.width) ELSE <<>>)
       \o (IF it.prec >= 0 THEN <<".">> \o Chars(it.prec) ELSE <<>>) \o it.len \o <<it.spec>>
Render(items) == FlattenSeq([i \in DOMAIN items |-> Spell(items[i])])
(* What a client that reads its own output asks for. *)
Bare(items) == [i \in DOMAIN items |-> IF items[i].spec = "lit" THEN items[i]
                                       ELSE [items[i] EXCEPT !.flags = {}, !.width = 0]]

Loop == pc \in {"measure", "format"} /\ p <= Len(fmt)

Plain ==
  /\ Loop /\ (fmt[p] # "%" \/ At(fmt, p + 1) = "%")
  /\ out_str(<<fmt[p]>>)
  /\ p' = IF fmt[p] = "%" THEN p + 2 ELSE p + 1
  /\ UNCHANGED <<job, pc, fmt, ap, size, pieces, off, file, blocks, scanVars, ret>>

Put(d) ==
  /\ out_str(Expand(d, IF Takes(d) THEN Head(ap) ELSE NULL))
  /\ p' = d.next
  /\ ap' = IF Takes(d) THEN Tail(ap) ELSE ap
  /\ pieces' = Append(pieces, [from |-> pos, to |-> pos'])
  /\ UNCHANGED <<job, pc, fmt, size, off, file, blocks, scanVars, ret>>

vsnprintf_impl == /\ Loop /\ ~wide /\ fmt[p] = "%" /\ At(fmt, p + 1) # "%"
                  /\ \E d \in {Directive(fmt, p + 1)} : Put(d)

vswprintf_impl == /\ Loop /\ wide /\ fmt[p] = "%" /\ At(fmt, p + 1) # "%"
                  /\ \E d \in {DirectiveW(fmt, p + 1)} : Put(d)

(* The NUL, and where the call goes on. *)
Formatted ==
  /\ pc \in {"measure", "format"} /\ p > Len(fmt)
  /\ dst' = IF size > 0 THEN [dst EXCEPT ![IF pos >= size THEN size - 1 ELSE pos] = "NUL"] ELSE dst
  /\ CASE pc = "measure" -> pc' = "alloc" /\ UNCHANGED <<ret, scanVars, p>>
       [] pc = "format" /\ job.fun \in Direct ->
            IF pos > 0 /\ job.fd >= 0 THEN pc' = "write" /\ UNCHANGED <<ret, scanVars, p>>
            ELSE Return(pos) /\ UNCHANGED <<scanVars, p>>
       [] pc = "format" /\ job.fun \in {"fprintf", "fwprintf", "fwprintf_wmem"} ->
            pc' = "store" /\ UNCHANGED <<ret, scanVars, p>>
       [] pc = "format" /\ job.fun = "reread" ->
            /\ pc' = "scan" /\ line' = out /\ p' = 1
            /\ UNCHANGED <<ret, s, stored>>
       [] OTHER -> Return(pos) /\ UNCHANGED <<scanVars, p>>
  /\ blocks' = IF pc = "format" /\ job.fun = "asprintf_null" THEN {} ELSE blocks
  /\ fmt' = IF pc' = "scan" THEN Render(Bare(job.items)) ELSE fmt
  /\ UNCHANGED <<job, ap, size, pos, out, pieces, off, file>>
-----------------------------------------------------------------------------
(* vfdprintf writes until all is written; EINTR and EAGAIN change nothing. *)
(* What lies behind the buffer is not known.                               *)
vfdprintf ==
  /\ pc = "write" /\ ~wide
  /\ \/ /\ \E n \in 1 .. pos - off :
             /\ file' = file \o [i \in 1 .. n |-> IF off + i <= size THEN dst[off + i - 1] ELSE "?"]
             /\ off' = off + n
        /\ IF off' = pos THEN Return(pos) ELSE UNCHANGED <<pc, ret>>
     \/ Return(-1) /\ UNCHANGED <<file, off>>
  /\ UNCHANGED <<job, fmt, p, ap, printVars, blocks, scanVars>>

(* The text in the buffer, up to the NUL. *)
Stored == LET n == Min({i \in DOMAIN dst : dst[i] = "NUL"}) IN [i \in 1 .. n |-> dst[i - 1]]
Converts(t) == wideOK \/ "w" \notin Range(t)

(* vfdwprintf writes once, and fails if not all is taken. *)
vfdwprintf ==
  /\ pc = "write" /\ wide
  /\ IF Converts(Stored)
     THEN \E n \in 0 .. Len(ByteSeq(Stored)) :
            /\ file' = SubSeq(ByteSeq(Stored), 1, n)
            /\ Return(IF n = Len(ByteSeq(Stored)) THEN pos ELSE -1)
     ELSE Return(-1) /\ UNCHANGED file
  /\ UNCHANGED <<job, fmt, p, ap, printVars, off, blocks, scanVars>>

(* vasprintf, vfprintf and vfwprintf: room for the text that was measured, *)
(* and the second round with the arguments from the start.                 *)
Alloc ==
  /\ pc = "alloc"
  /\ \/ Return(-1) /\ UNCHANGED <<p, ap, printVars, blocks>>
     \/ /\ pc' = "format" /\ p' = 1 /\ ap' = job.args
        /\ size' = pos + 1 /\ dst' = Buffer(pos + 1) /\ pos' = 0
        /\ out' = <<>> /\ pieces' = <<>>
        /\ blocks' = blocks \cup {"text"}
        /\ UNCHANGED ret
  /\ UNCHANGED <<job, fmt, off, file, scanVars>>

(* fwrite to a memory stream takes what there is room for.  All is freed. *)
Fwrite(t) == \E n \in 0 .. Len(t) : file' = SubSeq(t, 1, n) /\ Return(n)

vfprintf ==
  /\ pc = "store" /\ job.fun \in {"fprintf", "fwprintf_wmem"}
  /\ Fwrite([i \in 1 .. pos |-> dst[i - 1]])
  /\ blocks' = blocks \ {"text"}
  /\ UNCHANGED <<job, fmt, p, ap, printVars, off, scanVars>>

(* The bytes need memory of their own, which is freed before the text. *)
vfwprintf ==
  /\ pc = "store" /\ job.fun = "fwprintf"
  /\ \/ Converts(Stored) /\ Fwrite(ByteSeq(Stored))
     \/ Return(-1) /\ UNCHANGED file
  /\ blocks' = blocks \ {"text"}
  /\ UNCHANGED <<job, fmt, p, ap, printVars, off, scanVars>>
-----------------------------------------------------------------------------
(* One line of input, or what there is room for. *)
LineOf(t) == SubSeq(t, 1, Min({k \in 0 .. Len(t) : k + 1 = LineSize \/ k = Len(t) \/ (k > 0 /\ t[k] = "\n")}))

vfscanf_impl ==
  /\ pc = "read" /\ ~wide
  /\ line' = LineOf(job.text) /\ off' = Len(line')
  /\ pc' = "scan"
  /\ UNCHANGED <<job, fmt, p, ap, printVars, file, blocks, s, stored, ret>>

(* Characters are made of the bytes of a line.  What is behind the last    *)
(* one, if there are bytes that do not make one, was there before.         *)
vfwscanf_impl ==
  /\ pc = "read" /\ wide
  /\ off' = Len(LineOf(ByteSeq(job.text)))
  /\ \E k \in {Max({k \in 0 .. Len(job.text) : LET t == SubSeq(job.text, 1, k)
                                               IN Len(ByteSeq(t)) <= off' /\ Converts(t)})} :
       LET t == SubSeq(job.text, 1, k)
       IN IF Len(ByteSeq(t)) = off' THEN line' = t ELSE \E u \in Stale : line' = t \o u
  /\ pc' = "scan"
  /\ UNCHANGED <<job, fmt, p, ap, printVars, file, blocks, s, stored, ret>>

(* The bytes that the wide versions look for a number in. *)
Narrowed(t) == SubSeq(ByteSeq(t), 1, Min({Len(ByteSeq(t)), WideSize - 1}))

(* strtol, strtoul or strtod on the text t, as a directive uses them.  An  *)
(* end of 1 says that there was no number.                                 *)
Convert1(spec, t) ==
  CASE spec \in {"d", "u"} -> strtol(t, 10)
    [] spec \in {"x", "X"} -> strtoul(t, 16)
    [] spec = "o" -> strtoul(t, 8)
    [] OTHER -> strtod(t)

wstrtol_wrap(spec, t) ==
  IF Converts(SubSeq(t, 1, Min({Len(t), WideSize - 1}))) THEN Convert1(spec, Narrowed(t)) ELSE Result(0, 1, "EILSEQ")

(* What is stored. *)
AsStored(spec, r) ==
  CASE spec = "d" -> Wrapped(r.val, IntWidth)
    [] spec \in {"u", "x", "X", "o"} -> r.val % 2 ^ IntWidth
    [] OTHER -> <<r.mant, r.exp10>>

Count == Len(stored)
Rest(i) == SubSeq(line, i, Len(line))

(* A directive that has found a number or a word, which ends at place e. *)
Take(spec, v, e, n) ==
  /\ stored' = Append(stored, v)
  /\ s' = e /\ p' = n
  /\ UNCHANGED <<pc, ret>>

Numeric == {"d", "u", "x", "X", "o", "f", "F", "e", "E", "g", "G"}

NumberFound(spec, i, r, n) ==
  IF r.end = 1 \/ (spec = "u" /\ r.val < 0) THEN Return(Count) /\ UNCHANGED <<stored, s, p>>
  ELSE Take(spec, AsStored(spec, r), i + r.end - 1, n)

(* One round of the loop over the format; the directive ends before n. *)
Scanned(n) ==
  LET spec == fmt[n - 1]
      i == Skip(line, s, Spaces)
      e == Min({k \in i .. Len(line) + 1 : k > Len(line) \/ line[k] \in Spaces})
  IN CASE spec \in Numeric ->
            \E r \in {IF wide THEN wstrtol_wrap(spec, Rest(i)) ELSE Convert1(spec, Rest(i))} : NumberFound(spec, i, r, n)
       [] spec = "s" -> IF i > Len(line) THEN Return(Count) /\ UNCHANGED <<stored, s, p>>
                        ELSE Take(spec, SubSeq(line, i, e - 1), e, n)
       [] spec = "%" -> IF At(line, s) # "%" THEN Return(Count) /\ UNCHANGED <<stored, s, p>>
                        ELSE s' = s + 1 /\ p' = n /\ UNCHANGED <<stored, pc, ret>>
       [] OTHER -> Return(Count) /\ UNCHANGED <<stored, s, p>>

Scan1 ==
  /\ pc = "scan"
  /\ CASE p > Len(fmt) -> Return(Count) /\ UNCHANGED <<stored, s, p>>
       [] p <= Len(fmt) /\ fmt[p] \in Spaces ->
            /\ p' = Skip(fmt, p, Spaces) /\ s' = Skip(line, s, Spaces)
            /\ UNCHANGED <<stored, pc, ret>>
       [] p <= Len(fmt) /\ fmt[p] = "%" -> Scanned(IF At(fmt, p + 1) = "l" THEN p + 3 ELSE p + 2)
       [] OTHER -> IF At(line, s) # fmt[p] THEN Return(Count) /\ UNCHANGED <<stored, s, p>>
                   ELSE s' = s + 1 /\ p' = p + 1 /\ UNCHANGED <<stored, pc, ret>>
  /\ UNCHANGED <<job, fmt, ap, printVars, off, file, blocks, line>>

vsscanf_impl == ~wide /\ Scan1
vswscanf_impl == wide /\ Scan1
-----------------------------------------------------------------------------

Started ==
  /\ pc = CASE job.fun \in TwoPass -> "measure"
            [] job.fun \in {"sscanf", "swscanf"} -> "scan"
            [] job.fun \in {"fscanf", "fwscanf"} -> "read"
            [] OTHER -> "format"
  /\ fmt = Render(job.items)
  /\ p = 1 /\ ap = job.args
  /\ size = (IF job.fun \in TwoPass THEN 0 ELSE IF job.fun \in Direct THEN BufSize ELSE job.room)
  /\ dst = Buffer(size)
  /\ pos = 0 /\ out = <<>> /\ pieces = <<>>
  /\ off = 0 /\ file = <<>> /\ blocks = {}
  /\ line = (IF job.fun \in {"sscanf", "swscanf"} THEN job.text ELSE <<>>)
  /\ s = 1 /\ stored = <<>>
  /\ ret = 0
FormatInit == job \in FormatJobs /\ Started

FormatNext ==
  \/ Plain \/ vsnprintf_impl \/ vswprintf_impl \/ Formatted
  \/ vfdprintf \/ vfdwprintf \/ Alloc \/ vfprintf \/ vfwprintf
  \/ vfscanf_impl \/ vsscanf_impl \/ vfwscanf_impl \/ vswscanf_impl
-----------------------------------------------------------------------------

(* The directives of a format, and the argument of each. *)
Asked == SelectSeq(job.items, LAMBDA it : it.spec # "lit")
Given(k) ==
  LET n == Len(SelectSeq(SubSeq(Asked, 1, k), Takes)) IN IF Takes(Asked[k]) THEN job.args[n] ELSE NULL

Lowered(t) == [i \in DOMAIN t |-> IF \E k \in 1 .. 16 : Uppercase[k] = t[i]
                                  THEN Lowercase[CHOOSE k \in 1 .. 16 : Uppercase[k] = t[i]] ELSE t[i]]

(* t stands for the number v in base b: the sign, the prefix, and digits   *)
(* for its magnitude, as many as are needed or the precision asks for, or  *)
(* as the width allows with the flag 0; spaces on one side only.           *)
NumberText(it, t, v, b, sign, prefix) ==
  LET u == IF v < 0 THEN -v ELSE v
      lead == sign \o prefix
      needed == Min({k \in 1 .. Width : u < b ^ k})
      zeros == IF "0" \in it.flags /\ it.prec < 0 /\ "-" \notin it.flags THEN it.width - Len(lead) ELSE 0
      n == Max({needed, it.prec, zeros})
      core == IF "-" \in it.flags THEN SubSeq(t, 1, Len(lead) + n) ELSE SubSeq(t, Len(t) - Len(lead) - n + 1, Len(t))
      ds == Lowered(SubSeq(core, Len(lead) + 1, Len(core)))
  IN /\ Len(t) = Max({it.width, Len(lead) + n})
     /\ IsPrefix(lead, core) /\ AllDigits(ds, b) /\ Denoted(ds, b) = u
     /\ IF "-" \in it.flags THEN t = core \o Fill(" ", Len(t) - Len(core)) ELSE t = Fill(" ", Len(t) - Len(core)) \o core

(* Where printf.c departs from C: %.0d prints a zero, %#o adds a zero to   *)
(* those that the precision asks for, and %05s and %05c fill with zeros.   *)
Departs(it, v) ==
  \/ it.spec \in {"d", "u", "x", "X", "o", "p"} /\ it.prec = 0 /\ v.n % 2 ^ Bits(it.len) = 0
  \/ it.spec = "o" /\ "#" \in it.flags /\ it.prec > 0
  \/ it.spec \in {"s", "c"} /\ "0" \in it.flags
  \/ it.spec = "c" /\ it.prec >= 0

RightPiece(it, v, t) ==
  LET sv == Wrapped(v.n, Bits(it.len))
      uv == v.n % 2 ^ Bits(it.len)
      alt == "#" \in it.flags
  IN CASE it.spec = "d" ->
            NumberText(it, t, sv, 10, IF sv < 0 THEN <<"-">> ELSE IF "+" \in it.flags THEN <<"+">>
                                      ELSE IF " " \in it.flags THEN <<" ">> ELSE <<>>, <<>>)
       [] it.spec = "u" -> NumberText(it, t, uv, 10, <<>>, <<>>)
       [] it.spec = "o" -> NumberText(it, t, uv, 8, <<>>, IF alt /\ uv # 0 THEN <<"0">> ELSE <<>>)
       [] it.spec \in {"x", "X"} -> NumberText(it, t, uv, 16, <<>>, IF alt /\ uv # 0 THEN <<"0", it.spec>> ELSE <<>>)
       [] it.spec = "p" -> NumberText(it, t, v.n % 2 ^ Width, 16, <<>>, <<"0", "x">>)
       [] it.spec \in {"s", "c"} ->
            LET w == IF it.spec = "c" THEN <<v.c>> ELSE StringOf(v)
                n == IF it.prec >= 0 THEN Min({it.prec, Len(w)}) ELSE Len(w)
                core == IF "-" \in it.flags THEN SubSeq(t, 1, n) ELSE SubSeq(t, Len(t) - n + 1, Len(t))
            IN /\ core = SubSeq(w, 1, n) /\ Len(t) = Max({n, it.width})
               /\ t \in {core \o Fill(" ", Len(t) - n), Fill(" ", Len(t) - n) \o core}
       [] OTHER -> t = <<"%", it.spec>>

(* Every directive takes its argument and puts out its text, in order, and *)
(* characters stand between them as in the format.                         *)
TextRight ==
  /\ Len(pieces) = Len(Asked)
  /\ \A k \in DOMAIN pieces :
       Departs(Asked[k], Given(k)) \/ RightPiece(Asked[k], Given(k), SubSeq(out, pieces[k].from + 1, pieces[k].to))
  /\ LET kept == {i \in 1 .. Len(out) : \A k \in DOMAIN pieces : i \notin pieces[k].from + 1 .. pieces[k].to}
     IN [j \in 1 .. Cardinality(kept) |-> out[SetToSortSeq(kept, <)[j]]]
          = [j \in 1 .. Len(job.items) - Len(Asked) |-> SelectSeq(job.items, LAMBDA it : it.spec = "lit")[j].c]

(* What a call that has returned leaves behind.  snprintf fills the buffer *)
(* as far as it goes, ends it with NUL and returns the length of the whole *)
(* text.  The functions that write deliver the text or report an error,    *)
(* if the text is shorter than their buffer.  Memory is freed, but for the *)
(* string of vasprintf.                                                    *)
Delivered ==
  LET n == Len(out) IN
  CASE job.fun \in {"snprintf", "swprintf"} ->
         /\ ret = n
         /\ \A i \in DOMAIN dst : dst[i] = CASE i < Min({n, size - 1}) -> out[i + 1]
                                             [] i = Min({n, size - 1}) -> "NUL"
                                             [] OTHER -> "?"
    [] job.fun = "dprintf" -> n < BufSize => IF ret = -1 THEN IsStrictPrefix(file, out) ELSE ret = n /\ file = (IF job.fd < 0 THEN <<>> ELSE out)
    [] job.fun = "wprintf" -> n < BufSize /\ ret # -1 => ret = n /\ file = (IF job.fd < 0 THEN <<>> ELSE ByteSeq(out))
    [] job.fun \in {"asprintf", "asprintf_null"} ->
         IF ret = -1 THEN blocks = {}
         ELSE /\ ret = n /\ blocks = (IF job.fun = "asprintf" THEN {"text"} ELSE {})
              /\ [i \in 1 .. n + 1 |-> dst[i - 1]] = Append(out, "NUL")
    [] job.fun \in {"fprintf", "fwprintf_wmem"} ->
         blocks = {} /\ IF ret = -1 THEN file = <<>> ELSE file = SubSeq(out, 1, ret)
    [] job.fun = "fwprintf" ->
         blocks = {} /\ IF ret = -1 THEN file = <<>> ELSE file = SubSeq(ByteSeq(out), 1, ret)
    [] OTHER -> TRUE

(* What scanning t for the items gives: a fold over the items that uses    *)
(* what a text is worth, and stops at the first one that does not match.   *)
Unit(spec, t) ==
  CASE spec \in {"d", "u"} -> SignedWorth(t, 10)
    [] spec \in {"x", "X"} -> UnsignedWorth(t, 16)
    [] spec = "o" -> UnsignedWorth(t, 8)
    [] OTHER -> FloatWorth(t)
Drop(t, n) == SubSeq(t, n + 1, Len(t))
Trimmed(t) == Drop(t, Longest(t, LAMBDA w : Range(w) \subseteq Spaces))
Word(t) == Longest(t, LAMBDA w : Range(w) \cap Spaces = {})
(* The item it at the text t, whose first number is r. *)
Matched(acc, it, t, r) ==
  CASE acc.stop -> acc
    [] ~acc.stop /\ it.spec = "lit" /\ it.c = " " -> [acc EXCEPT !.t = t]
    [] ~acc.stop /\ it.spec = "lit" /\ it.c # " " ->
         IF acc.t # <<>> /\ acc.t[1] = it.c THEN [acc EXCEPT !.t = Drop(acc.t, 1)] ELSE [acc EXCEPT !.stop = TRUE]
    [] ~acc.stop /\ it.spec = "s" /\ t # <<>> ->
         [acc EXCEPT !.t = Drop(t, Word(t)), !.vals = Append(@, SubSeq(t, 1, Word(t)))]
    [] ~acc.stop /\ it.spec \in Numeric /\ r.end > 1 /\ (it.spec = "u" => r.val >= 0) ->
         [acc EXCEPT !.t = Drop(t, r.end - 1), !.vals = Append(@, AsStored(it.spec, r))]
    [] OTHER -> [acc EXCEPT !.stop = TRUE]
Match(acc, it) ==
  CHOOSE m \in UNION {{Matched(acc, it, t, r) : r \in {Unit(it.spec, t)}} : t \in {Trimmed(acc.t)}} : TRUE
Expected(t) == FoldLeft(Match, [t |-> t, vals |-> <<>>, stop |-> FALSE], job.items).vals

(* Scanning stores the values of the items up to the first one that the    *)
(* text does not match, and returns their number.  The wide functions may  *)
(* stop early at text that has no bytes, and may cut a number where there  *)
(* are WideSize bytes.  fscanf scans the first line.                       *)
ScanRight ==
  /\ ret = Len(stored)
  /\ job.fun \in {"fscanf", "fwscanf"} /\ Len(ByteSeq(job.text)) < LineSize /\ Converts(job.text) =>
       /\ IsPrefix(line, job.text) /\ off = Len(IF wide THEN ByteSeq(line) ELSE line)
       /\ \A i \in DOMAIN line : line[i] = "\n" => i = Len(line)
       /\ line # job.text => Last(line) = "\n"
  /\ ~wide \/ Len(ByteSeq(line)) < WideSize =>
       \E x \in {Expected(line)} : IF wide /\ ~Converts(line) THEN IsPrefix(stored, x) ELSE stored = x

(* Values that were printed and scanned again come back. *)
Returned ==
  job.fun = "reread" =>
    stored = [k \in DOMAIN Asked |-> IF Asked[k].spec = "s" THEN job.args[k].t
                                      ELSE IF Asked[k].spec = "d" THEN Wrapped(job.args[k].n, IntWidth)
                                      ELSE job.args[k].n % 2 ^ IntWidth]

(* printf and its kin put out what the format says, deliver it or say that *)
(* they did not, and leave no memory behind; scanf and its kin store what  *)
(* the text says, and give back what printf wrote.                         *)
FormatsExact ==
  pc = "done" =>
    /\ job.fun \notin Scanning /\ ret # -1 => TextRight
    /\ Delivered
    /\ job.fun \in Scanning => ScanRight
    /\ Returned
=============================================================================
