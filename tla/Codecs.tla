-------------------------------- MODULE Codecs --------------------------------
(***************************************************************************)
(* Character sets: iconv.c, and the conversions between multibyte and wide *)
(* strings in wchar_conv.c and wchar.c.  At the end, visible spellings of  *)
(* bytes: vis.c.                                                           *)
(*                                                                         *)
(* Bytes and code points are numbers; a wide character is a code point.    *)
(* The functions of the host that wchar_conv.c calls for what is not ASCII *)
(* use UTF-8, or fail if the locale has no such characters.  A client      *)
(* converts a text in pieces, with buffers of sizes of its choice.         *)
(***************************************************************************)
EXTENDS Integers, Sequences, SequencesExt

CONSTANTS Charsets,     \* the names given to iconv_open
          CodePoints, MaxText,
          Junk,         \* bytes that are no text in UTF-8
          MaxRoom,      \* of the buffer that the client offers
          VisFlags, VisBytes, VisLength  \* flags, bytes and longest text for vis

VARIABLES api, from, to, cps,   \* the call, the character sets, the text
          junk,                 \* what comes after the text
          input, pos,           \* both as given, and the next place; 0 at the end
          out, err,             \* what came out, and the error, if any
          utf8,                 \* the host's locale has non-ASCII characters
          vflags, plain, spelled,  \* flags, the bytes given to vis, and the spelling
          fits,                 \* what was written fitted into the buffers
          fed, state, back      \* bytes fed to unvis, its state, and what it gave

codecVars == <<api, from, to, cps, junk, input, pos, out, err, utf8>>
visVars == <<vflags, plain, spelled, fits, fed, state, back>>

is_ascii_cs(name) == name \in {"ASCII", "US-ASCII"}
is_utf8_cs(name) == name \in {"UTF-8", "UTF8"}
is_8859_1_cs(name) == name \in {"ISO-8859-1", "ISO8859-1", "LATIN1", "LATIN-1"}
is_utf16_cs(name) == name \in {"UTF-16", "UTF16"}

Known(name) == is_ascii_cs(name) \/ is_utf8_cs(name) \/ is_8859_1_cs(name) \/ is_utf16_cs(name)

(* A sequence that cannot be, and one that is not complete. *)
Bad == [cp |-> -1, used |-> 0]
Short == [cp |-> -2, used |-> 0]
Char(cp, used) == [cp |-> cp, used |-> used]

Continues(b) == b \div 64 = 2
Surrogate(cp) == cp \in 55296 .. 57343

decode_utf8(s) ==
  LET c0 == s[1]
      two == (c0 % 32) * 64 + (s[2] % 64)
      three == (c0 % 16) * 4096 + (s[2] % 64) * 64 + (s[3] % 64)
  IN CASE c0 < 128 -> Char(c0, 1)
       [] c0 \div 32 = 6 /\ Len(s) < 2 -> Short
       [] c0 \div 32 = 6 /\ Len(s) >= 2 -> IF Continues(s[2]) /\ two >= 128 THEN Char(two, 2) ELSE Bad
       [] c0 \div 16 = 14 /\ Len(s) < 3 -> Short
       [] c0 \div 16 = 14 /\ Len(s) >= 3 ->
            IF Continues(s[2]) /\ Continues(s[3]) /\ three >= 2048 THEN Char(three, 3) ELSE Bad
       [] OTHER -> Bad

encode_utf8(cp) ==
  CASE cp < 128 -> <<cp>>
    [] cp \in 128 .. 2047 -> <<192 + (cp \div 64), 128 + (cp % 64)>>
    [] cp \in 2048 .. 65535 -> <<224 + (cp \div 4096), 128 + ((cp \div 64) % 64), 128 + (cp % 64)>>
    [] OTHER -> <<>>

decode_utf16(s) ==
  LET c == s[1] + s[2] * 256
  IN IF Len(s) < 2 THEN Short ELSE IF Surrogate(c) THEN Bad ELSE Char(c, 2)

encode_utf16(cp) == IF cp > 65535 \/ Surrogate(cp) THEN <<>> ELSE <<cp % 256, cp \div 256>>

(* What the cases of iconv do for one side each. *)
Decode(name, s) ==
  CASE is_utf8_cs(name) -> decode_utf8(s)
    [] is_utf16_cs(name) -> decode_utf16(s)
    [] is_ascii_cs(name) -> IF s[1] >= 128 THEN Bad ELSE Char(s[1], 1)
    [] is_8859_1_cs(name) -> Char(s[1], 1)
Encode(name, cp) ==
  CASE is_utf8_cs(name) -> encode_utf8(cp)
    [] is_utf16_cs(name) -> encode_utf16(cp)
    [] is_ascii_cs(name) -> IF cp > 127 THEN <<>> ELSE <<cp>>
    [] is_8859_1_cs(name) -> IF cp > 255 THEN <<>> ELSE <<cp>>

(* One round of the loop of iconv: UTF-8 to UTF-8 and UTF-16 to UTF-16 are *)
(* copied as they are.                                                     *)
Piece(s) ==
  CASE is_utf8_cs(from) /\ is_utf8_cs(to) -> [r |-> Char(s[1], 1), bytes |-> <<s[1]>>]
    [] is_utf16_cs(from) /\ is_utf16_cs(to) ->
         IF Len(s) < 2 THEN [r |-> Short, bytes |-> <<>>] ELSE [r |-> Char(0, 2), bytes |-> SubSeq(s, 1, 2)]
    [] OTHER -> LET r == Decode(from, s) IN [r |-> r, bytes |-> IF r.cp < 0 THEN <<>> ELSE Encode(to, r.cp)]

Round(st, room) ==
  LET p == Piece(st.src)
  IN CASE st.src = <<>> \/ st.errno # "0" -> st
       [] OTHER ->
            CASE p.r = Short -> [st EXCEPT !.errno = "EINVAL"]
              [] p.r # Short /\ (p.r = Bad \/ p.bytes = <<>>) -> [st EXCEPT !.errno = "EILSEQ"]
              [] p.r \notin {Short, Bad} /\ p.bytes # <<>> /\ Len(st.dst) + Len(p.bytes) > room -> [st EXCEPT !.errno = "E2BIG"]
              [] OTHER -> [st EXCEPT !.src = SubSeq(@, p.r.used + 1, Len(@)), !.dst = @ \o p.bytes]

iconv(s, room) == FoldLeft(LAMBDA st, b : Round(st, room), [src |-> s, dst |-> <<>>, errno |-> "0"], s)
-----------------------------------------------------------------------------

(* The host's functions, in a UTF-8 locale or in one that knows ASCII only. *)
(* A terminator in the middle of a character makes it a bad one.           *)
host_mbrtowc(s) == IF utf8 /\ decode_utf8(s) # Short THEN decode_utf8(s) ELSE Bad
host_wcrtomb(wc) == IF utf8 THEN encode_utf8(wc) ELSE <<>>

mbrtowc(s) == IF s[1] < 128 THEN Char(s[1], IF s[1] = 0 THEN 0 ELSE 1) ELSE host_mbrtowc(s)
wcrtomb(wc) == IF wc < 128 THEN <<wc>> ELSE host_wcrtomb(wc)

(* What is at a place of a string, up to its terminator. *)
From(s, i) == Append(SubSeq(s, i, Len(s)), 0)

(* mbsrtowcs: the wide characters stored, the new source (0 is NULL), and  *)
(* whether it failed.                                                      *)
mbsrtowcs(i, n) ==
  LET step(st, k) ==
        LET r == mbrtowc(From(input, st.at))
        IN CASE st.done -> st
             [] ~st.done /\ r = Bad -> [st EXCEPT !.done = TRUE, !.failed = TRUE]
             [] ~st.done /\ r = Short -> [st EXCEPT !.done = TRUE]
             [] ~st.done /\ r.cp >= 0 /\ r.used = 0 -> [st EXCEPT !.done = TRUE, !.at = 0]
             [] ~st.done /\ r.used > 0 /\ Len(st.dst) >= n -> [st EXCEPT !.done = TRUE]
             [] OTHER -> [st EXCEPT !.at = @ + r.used, !.dst = Append(@, r.cp)]
  IN FoldLeft(step, [at |-> i, dst |-> <<>>, done |-> FALSE, failed |-> FALSE], From(input, i))

wcsrtombs(i, n) ==
  LET step(st, k) ==
        LET wc == From(input, st.at)[1]
            b == wcrtomb(wc)
        IN CASE st.done -> st
             [] ~st.done /\ b = <<>> -> [st EXCEPT !.done = TRUE, !.failed = TRUE]
             [] ~st.done /\ wc = 0 -> [st EXCEPT !.done = TRUE, !.at = 0]
             [] ~st.done /\ wc # 0 /\ b # <<>> /\ Len(st.dst) + Len(b) > n -> [st EXCEPT !.done = TRUE]
             [] OTHER -> [st EXCEPT !.at = @ + 1, !.dst = @ \o b]
  IN FoldLeft(step, [at |-> i, dst |-> <<>>, done |-> FALSE, failed |-> FALSE], From(input, i))

(* ASCII is copied here; the rest is for the host, which converts as many  *)
(* characters as fit.                                                      *)
has_non_ascii_mb(s) == \E i \in 1 .. Len(s) : s[i] >= 128
has_non_ascii_wc(s) == \E i \in 1 .. Len(s) : s[i] >= 128
Copy(n) == LET k == IF n < Len(input) THEN n ELSE Len(input)
           IN [at |-> k + 1, dst |-> SubSeq(input, 1, k), done |-> TRUE, failed |-> FALSE]
host_mbstowcs(n) == mbsrtowcs(1, n)
host_wcstombs(n) == wcsrtombs(1, n)
mbstowcs(n) == IF has_non_ascii_mb(input) THEN host_mbstowcs(n) ELSE Copy(n)
wcstombs(n) == IF has_non_ascii_wc(input) THEN host_wcstombs(n) ELSE Copy(n)
-----------------------------------------------------------------------------

CodeTexts == UNION {[1 .. n -> CodePoints] : n \in 0 .. MaxText}
Encoded(name, t) == FlattenSeq([i \in 1 .. Len(t) |-> Encode(name, t[i])])
Encodable(name, t) == \A i \in 1 .. Len(t) : Encode(name, t[i]) # <<>>

Init ==
  /\ api \in {"iconv", "mbsrtowcs", "mbstowcs", "wcsrtombs", "wcstombs"}
  /\ cps \in CodeTexts /\ junk \in Junk
  /\ pos = 1 /\ out = <<>> /\ err = "0" /\ utf8 \in BOOLEAN
  /\ \/ /\ api = "iconv" /\ utf8 /\ from \in Charsets /\ to \in Charsets
        /\ Known(from) => Encodable(from, cps)
        /\ is_utf8_cs(from) \/ junk = <<>>
        /\ input = IF Known(from) THEN Encoded(from, cps) \o junk ELSE <<>>
     \/ /\ api \in {"mbsrtowcs", "mbstowcs"} /\ from = "UTF-8" /\ to = "wide"
        /\ input = Encoded("UTF-8", cps) \o junk
     \/ /\ api \in {"wcsrtombs", "wcstombs"} /\ from = "wide" /\ to = "UTF-8" /\ junk = <<>>
        /\ input = cps

Fails(e) == err' = e /\ UNCHANGED <<api, from, to, cps, junk, input, pos, out, utf8>>
Moves(to_, bytes) ==
  pos' = to_ /\ out' = out \o bytes /\ UNCHANGED <<api, from, to, cps, junk, input, err, utf8>>

(* iconv_open refuses a name it does not know. *)
iconv_open == api = "iconv" /\ err = "0" /\ ~(Known(from) /\ Known(to)) /\ Fails("EINVAL")

(* A client offers the next bytes and a buffer.  If the call fails its     *)
(* pointers stay where they were, however far the loop came: it may try    *)
(* again with more bytes or with a larger buffer.                          *)
Iconv ==
  /\ api = "iconv" /\ err = "0" /\ Known(from) /\ Known(to)
  /\ \E k \in 1 .. Len(input) - pos + 1, room \in 0 .. MaxRoom :
       LET r == iconv(SubSeq(input, pos, pos + k - 1), room)
       IN \/ r.errno = "0" /\ Moves(pos + k, r.dst)
          \/ r.errno = "EILSEQ" /\ Fails("EILSEQ")

(* A client asks for the next characters of a string. *)
NextPiece ==
  /\ api \in {"mbsrtowcs", "wcsrtombs"} /\ err = "0" /\ pos # 0
  /\ \E n \in 0 .. MaxRoom :
       LET r == IF api = "mbsrtowcs" THEN mbsrtowcs(pos, n) ELSE wcsrtombs(pos, n)
       IN IF r.failed THEN Fails("EILSEQ") ELSE Moves(r.at, r.dst)

(* A client converts a string in one call. *)
WholeString ==
  /\ api \in {"mbstowcs", "wcstombs"} /\ err = "0" /\ pos = 1
  /\ \E n \in 0 .. MaxRoom :
       LET r == IF api = "mbstowcs" THEN mbstowcs(n) ELSE wcstombs(n)
       IN IF r.failed THEN Fails("EILSEQ") ELSE Moves(r.at, r.dst)

Next == iconv_open \/ Iconv \/ NextPiece \/ WholeString
-----------------------------------------------------------------------------

(* The first k characters are done: all of them, if there is no more. *)
Done(k, F(_)) ==
  /\ out = F(SubSeq(cps, 1, k))
  /\ pos = 0 => k = Len(cps) /\ junk = <<>>

(* However a client cuts up a text, iconv, mbsrtowcs and wcsrtombs give    *)
(* what the characters up to the place they report are in the other set:   *)
(* none is lost, doubled or split between two calls.  They fail with       *)
(* EILSEQ only if a part of the text cannot be converted.                  *)
CodecsExact ==
  /\ api = "iconv" /\ Known(from) /\ Known(to) =>
       \/ is_utf8_cs(from) /\ is_utf8_cs(to) /\ out = SubSeq(input, 1, pos - 1)
       \/ \E k \in 0 .. Len(cps) :
            pos = Len(Encoded(from, SubSeq(cps, 1, k))) + 1 /\ Done(k, LAMBDA t : Encoded(to, t))
  /\ api \in {"mbsrtowcs", "mbstowcs"} =>
       \E k \in 0 .. Len(cps) :
         pos \in {0, Len(Encoded(from, SubSeq(cps, 1, k))) + 1} /\ Done(k, LAMBDA t : t)
  /\ api \in {"wcsrtombs", "wcstombs"} =>
       \E k \in 0 .. Len(cps) : pos \in {0, k + 1} /\ Done(k, LAMBDA t : Encoded(to, t))
  /\ err = "EILSEQ" => \/ junk # <<>>
                       \/ Known(to) /\ ~Encodable(to, cps)
                       \/ ~utf8 /\ \E i \in 1 .. Len(cps) : cps[i] > 127
-----------------------------------------------------------------------------
(* vis.c.  plain[at] for at = Len(spelled) + 1 is spelled next, with a     *)
(* buffer of any size; spelled has one entry, its bytes, for each of them. *)
is_print(c) == c \in 32 .. 126
isoctal(c) == c \in 48 .. 55
Backslash == 92

need_octal(c) ==
  \/ "OCTAL" \in vflags \/ ~is_print(c)
  \/ c = 32 /\ {"SP", "WHITE"} \cap vflags # {}

(* The letters after a backslash, with VIS_CSTYLE. *)
Cstyle == 10 :> 110 @@ 13 :> 114 @@ 8 :> 98 @@ 7 :> 97 @@ 11 :> 118 @@ 9 :> 116 @@ 12 :> 102

Octal(c) == <<48 + (c \div 64), 48 + ((c \div 8) % 8), 48 + (c % 8)>>

(* The spelling of c before nextc. *)
Spelling(c, nextc) ==
  CASE ~need_octal(c) -> IF c = Backslash /\ "NOSLASH" \notin vflags THEN <<Backslash, Backslash>> ELSE <<c>>
    [] need_octal(c) /\ "CSTYLE" \in vflags ->
         CASE c \in DOMAIN Cstyle -> <<Backslash, Cstyle[c]>>
           [] c = 0 -> IF isoctal(nextc) THEN <<Backslash, 48, 48, 48>> ELSE <<Backslash, 48>>
           [] c = Backslash -> <<Backslash, Backslash>>
           [] OTHER -> <<Backslash>> \o Octal(c)
    [] OTHER -> IF "NOSLASH" \in vflags THEN Octal(c) ELSE <<Backslash>> \o Octal(c)

(* The room that is asked for: four bytes for octal digits in any case. *)
Needed(c, nextc) == 1 + (IF need_octal(c) /\ "CSTYLE" \notin vflags THEN 4 ELSE Len(Spelling(c, nextc)))

(* Variant: the terminator is forgotten. *)
NeededBare(c, nextc) == IF need_octal(c) /\ "CSTYLE" \notin vflags THEN 4 ELSE Len(Spelling(c, nextc))

nvis(dlen) ==
  /\ Len(spelled) < Len(plain)
  /\ LET c == plain[Len(spelled) + 1]
         nextc == IF Len(spelled) + 1 < Len(plain) THEN plain[Len(spelled) + 2] ELSE 0
     IN IF dlen < Needed(c, nextc)
        THEN UNCHANGED <<spelled, fits>>
        ELSE /\ spelled' = Append(spelled, Spelling(c, nextc))
             /\ fits' = (fits /\ Len(Spelling(c, nextc)) + 1 <= dlen)
  /\ UNCHANGED <<vflags, plain, fed, state, back>>

Goes(st, val) == state' = [st |-> st, val |-> val] /\ UNCHANGED back
Gives(c) == state' = [st |-> "GROUND", val |-> 0] /\ back' = Append(back, c)

unvis ==
  /\ fed < Len(FlattenSeq(spelled)) /\ fed' = fed + 1
  /\ LET ch == FlattenSeq(spelled)[fed + 1] IN
     CASE state.st = "GROUND" -> IF ch = Backslash THEN Goes("ESCAPE", 0) ELSE Gives(ch)
       [] state.st = "ESCAPE" ->
            IF isoctal(ch) THEN Goes("OCT1", ch - 48)
            ELSE Gives(IF \E c \in DOMAIN Cstyle : Cstyle[c] = ch THEN CHOOSE c \in DOMAIN Cstyle : Cstyle[c] = ch ELSE ch)
       [] state.st = "OCT1" /\ isoctal(ch) -> Goes("OCT2", state.val * 8 + ch - 48)
       [] OTHER -> Gives(state.val)
  /\ UNCHANGED <<vflags, plain, spelled, fits>>

VisInit ==
  /\ vflags \in VisFlags
  /\ plain \in UNION {[1 .. n -> VisBytes] : n \in 0 .. VisLength}
  /\ spelled = <<>> /\ fits = TRUE
  /\ fed = 0 /\ state = [st |-> "GROUND", val |-> 0] /\ back = <<>>

VisNext == unvis \/ \E dlen \in 0 .. 5 : nvis(dlen)
-----------------------------------------------------------------------------

(* Spellings that unvis does not read to their end: an octal escape loses  *)
(* its last digit, a short one for NUL the byte behind it, and digits      *)
(* without a backslash are taken as they are.                              *)
Ambiguous == "NOSLASH" \in vflags \/ \E i \in DOMAIN spelled : spelled[i] = <<Backslash, 48>>
Escaped(i) == Len(spelled[i]) = 4

(* vis writes printable bytes only, and never more than fit with the       *)
(* terminator.  unvis, fed byte by byte while vis goes on, gives one byte  *)
(* for each that was spelled, in step, and the same one unless it had an   *)
(* octal escape.                                                           *)
VisExact ==
  /\ \A i \in DOMAIN spelled, c \in 0 .. 255 : c \in Range(spelled[i]) => is_print(c)
  /\ fits
  /\ ~Ambiguous =>
       /\ \A i \in DOMAIN back : i <= Len(spelled) /\ (~Escaped(i) => back[i] = plain[i])
       /\ fed = Len(FlattenSeq(spelled)) => state.st = "GROUND" /\ Len(back) = Len(spelled)
=============================================================================
