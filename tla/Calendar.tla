------------------------------- MODULE Calendar -------------------------------
(***************************************************************************)
(* Dates and times: time_r.c, time_conv.c, strftime.c and strptime.c.      *)
(*                                                                         *)
(* The clock goes forward by the steps of the program, and date is moved   *)
(* on beside it by the rules of the calendar: one second, or one day, at a *)
(* time.  What the library computes from the clock is compared with it.    *)
(* A text is a sequence of characters; a directive of a format is a pair   *)
(* such as <<"%", "Y">>, and the names of days and months are characters.  *)
(* Years are from 1970 on: TLC's integers, unlike time_t, end in 2038.     *)
(***************************************************************************)
EXTENDS Integers, Sequences, SequencesExt, FiniteSetsExt

CONSTANTS Starts,        \* initial values of the clock, with their dates
          DaySteps, MaxTicks,
          Zones,         \* values of TZ
          Formats, Rooms, Inputs

VARIABLES now, date,     \* the clock, and the date the calendar gives it
          ticks,
          tzoff,         \* __vlibc_tzoff
          job            \* the last formatted or parsed text, or <<>>

calVars == <<now, date, ticks, tzoff, job>>

Digits == <<"0", "1", "2", "3", "4", "5", "6", "7", "8", "9">>
DigitVal == [c \in Range(Digits) |-> (CHOOSE i \in 1 .. 10 : Digits[i] = c) - 1]
-----------------------------------------------------------------------------

is_leap(y) ==
  IF y % 4 # 0 THEN FALSE
  ELSE IF y % 100 # 0 THEN TRUE
  ELSE y % 400 = 0

days_per_month(y) == <<31, IF is_leap(y) THEN 29 ELSE 28, 31, 30, 31, 30, 31, 31, 30, 31, 30, 31>>
DaysOfYear(y) == IF is_leap(y) THEN 366 ELSE 365

(* The loops over the years and over the months of a day number. *)
RECURSIVE YearOf(_, _)
YearOf(days, y) == IF days >= DaysOfYear(y) THEN YearOf(days - DaysOfYear(y), y + 1) ELSE <<y, days>>

RECURSIVE MonthOf(_, _, _)
MonthOf(days, ml, m) == IF days >= ml[m + 1] THEN MonthOf(days - ml[m + 1], ml, m + 1) ELSE <<m, days>>

(* Times before 1970 are taken for 1970. *)
convert_tm(time) ==
  LET t == IF time < 0 THEN 0 ELSE time
      day == t \div 86400
      y == YearOf(day, 1970)
      m == MonthOf(y[2], days_per_month(y[1]), 0)
  IN [sec |-> t % 60, min |-> (t \div 60) % 60, hour |-> (t \div 3600) % 24,
      mday |-> m[2] + 1, mon |-> m[1], year |-> y[1] - 1900,
      wday |-> (day + 4) % 7, yday |-> y[2]]

gmtime_r(t) == convert_tm(t)
localtime_r(t) == convert_tm(t + tzoff)

DaysBefore(tm) ==
  LET year == tm.year + 1900
  IN FoldLeft(LAMBDA n, y : n + DaysOfYear(y), 0, [i \in 1 .. year - 1970 |-> 1969 + i])
     + FoldLeft(LAMBDA n, d : n + d, 0, SubSeq(days_per_month(year), 1, tm.mon))
     + tm.mday - 1

(* Beside the result, tm_yday and tm_wday are written: tm_yday gets the    *)
(* days since 1970.                                                        *)
timegm(tm) ==
  LET days == DaysBefore(tm)
  IN [t |-> days * 86400 + tm.hour * 3600 + tm.min * 60 + tm.sec,
      tm |-> [tm EXCEPT !.yday = days, !.wday = (days + 4) % 7]]

(* Variant: the offset is added. *)
mktime_added(tm) == [timegm(tm) EXCEPT !.t = @ + tzoff]

mktime(tm) == [timegm(tm) EXCEPT !.t = @ - tzoff]
-----------------------------------------------------------------------------

(* A run of digits at i: its value, and the index behind it.  At most two  *)
(* digits of the minutes are read, since the loop ends at 60.              *)
RECURSIVE DigitRun(_, _, _, _)
DigitRun(s, i, v, limit) ==
  IF i > Len(s) \/ (i <= Len(s) /\ s[i] \notin Range(Digits)) \/ v >= limit THEN <<v, i>>
  ELSE DigitRun(s, i + 1, v * 10 + DigitVal[s[i]], limit)

parse_offset(s) ==
  LET first == SelectInSeq(s, LAMBDA c : c \in Range(Digits) \cup {"+", "-"})
      from == IF first = 0 THEN Len(s) + 1 ELSE first
      signed == from <= Len(s) /\ s[from] \in {"+", "-"}
      h == DigitRun(s, IF signed THEN from + 1 ELSE from, 0, 1000)
      m == IF h[2] <= Len(s) /\ s[h[2]] = ":" THEN DigitRun(s, h[2] + 1, 0, 60)[1] ELSE 0
  IN (IF signed /\ s[from] = "-" THEN -1 ELSE 1) * (h[1] * 3600 + m * 60)

(* TZ, or else the first line of /etc/localtime, or else nothing.  The line *)
(* is read from a buffer whose block has ended: its contents are anything. *)
tzset(tz) ==
  /\ tzoff' = parse_offset(tz)
  /\ UNCHANGED <<now, date, ticks, job>>
-----------------------------------------------------------------------------

RECURSIVE Decimal(_)
Decimal(v) == (IF v < 10 THEN <<>> ELSE Decimal(v \div 10)) \o <<Digits[(v % 10) + 1]>>

(* At least width digits; the sign is dropped. *)
fmt_int(val, width) ==
  LET d == Decimal(IF val < 0 THEN -val ELSE val)
  IN [i \in 1 .. (IF width > Len(d) THEN width - Len(d) ELSE 0) |-> "0"] \o d

wd_short == << <<"S","u","n">>, <<"M","o","n">>, <<"T","u","e">>, <<"W","e","d">>,
               <<"T","h","u">>, <<"F","r","i">>, <<"S","a","t">> >>
mon_short == << <<"J","a","n">>, <<"F","e","b">>, <<"M","a","r">>, <<"A","p","r">>,
                <<"M","a","y">>, <<"J","u","n">>, <<"J","u","l">>, <<"A","u","g">>,
                <<"S","e","p">>, <<"O","c","t">>, <<"N","o","v">>, <<"D","e","c">> >>

Directive(c, tm) ==
  CASE c = "" -> <<>>       \* a lone percent sign at the end
    [] c = "%" -> <<"%">>
    [] c = "a" -> wd_short[tm.wday + 1]
    [] c = "b" -> mon_short[tm.mon + 1]
    [] c = "Y" -> fmt_int(tm.year + 1900, 4)
    [] c = "m" -> fmt_int(tm.mon + 1, 2)
    [] c = "d" -> fmt_int(tm.mday, 2)
    [] c = "H" -> fmt_int(tm.hour, 2)
    [] c = "M" -> fmt_int(tm.min, 2)
    [] c = "S" -> fmt_int(tm.sec, 2)
    [] c = "Z" -> <<"U", "T", "C">>
    [] c = "z" -> <<"+", "0", "0", "0", "0">>
    [] c = "w" -> fmt_int(tm.wday, 1)
    [] c = "u" -> fmt_int(IF tm.wday = 0 THEN 7 ELSE tm.wday, 1)
    [] OTHER -> <<"%", c>>

(* A piece that leaves no room for the NUL makes the result 0. *)
strftime(max, format, tm) ==
  LET Put(s, f) ==
        LET piece == IF Len(f) = 1 THEN f ELSE Directive(f[2], tm)
        IN IF s = "full" \/ Len(s) + Len(piece) >= max THEN "full" ELSE s \o piece
      s == FoldLeft(Put, <<>>, format)
  IN IF max = 0 THEN "full" ELSE s

AscFormat == << <<"%","a">>, <<" ">>, <<"%","b">>, <<" ">>, <<"%","d">>, <<" ">>, <<"%","H">>, <<":">>,
                <<"%","M">>, <<":">>, <<"%","S">>, <<" ">>, <<"%","Y">>, <<"nl">> >>

(* The form of asctime_r, ctime and asctime, made with snprintf. *)
asctime_r(tm) ==
  wd_short[tm.wday + 1] \o <<" ">> \o mon_short[tm.mon + 1] \o <<" ">>
    \o fmt_int(tm.mday, 2) \o <<" ">> \o fmt_int(tm.hour, 2) \o <<":">> \o fmt_int(tm.min, 2)
    \o <<":">> \o fmt_int(tm.sec, 2) \o <<" ">> \o Decimal(tm.year + 1900) \o <<"nl">>

(* width digits at p, or -1 *)
parse_num(s, p, width) ==
  IF p + width - 1 > Len(s) \/ \E i \in p .. Min({p + width - 1, Len(s)}) : s[i] \notin Range(Digits) THEN -1
  ELSE FoldLeft(LAMBDA v, c : v * 10 + DigitVal[c], 0, SubSeq(s, p, p + width - 1))

(* By letter: the field, the digits, the least and the greatest value, and *)
(* what is added to it.                                                    *)
NumberOf ==
  [c \in {"Y", "m", "d", "H", "M", "S"} |->
     CASE c = "Y" -> <<"year", 4, 0, 9999, -1900>>
       [] c = "m" -> <<"mon", 2, 1, 12, -1>>
       [] c = "d" -> <<"mday", 2, 1, 31, 0>>
       [] c = "H" -> <<"hour", 2, 0, 23, 0>>
       [] c = "M" -> <<"min", 2, 0, 59, 0>>
       [] OTHER -> <<"sec", 2, 0, 60, 0>>]

(* Where parsing got to, 0 if it failed, and the fields, of which some may *)
(* have been written by then.                                              *)
strptime(s, format, tm) ==
  LET Fail(r) == [r EXCEPT !.p = 0]
      Literal(r, c) == IF r.p <= Len(s) /\ s[r.p] = c THEN [r EXCEPT !.p = @ + 1] ELSE Fail(r)
      Number(r, n) ==
        LET v == parse_num(s, r.p, n[2])
        IN IF v < n[3] \/ v > n[4] THEN Fail(r)
           ELSE [p |-> r.p + n[2], tm |-> [r.tm EXCEPT ![n[1]] = v + n[5]]]
      Take(r, f) ==
        IF r.p = 0 THEN r
        ELSE IF Len(f) = 1 THEN Literal(r, f[1])
        ELSE IF f[2] = "%" THEN Literal(r, "%")
        ELSE IF f[2] \in DOMAIN NumberOf THEN Number(r, NumberOf[f[2]])
        ELSE Fail(r)
  IN FoldLeft(Take, [p |-> 1, tm |-> tm], format)
-----------------------------------------------------------------------------

(* The rules of the calendar. *)
NextDay(d) ==
  LET ny == d.mon = 11 /\ d.mday = 31
      nm == d.mday = days_per_month(d.year + 1900)[d.mon + 1]
  IN [d EXCEPT !.wday = (@ + 1) % 7,
               !.mday = IF nm THEN 1 ELSE @ + 1,
               !.mon = IF ny THEN 0 ELSE IF nm THEN @ + 1 ELSE @,
               !.year = IF ny THEN @ + 1 ELSE @,
               !.yday = IF ny THEN 0 ELSE @ + 1]

NextSecond(d) ==
  LET m == d.sec = 59
      h == m /\ d.min = 59
      e == [d EXCEPT !.sec = IF m THEN 0 ELSE @ + 1,
                     !.min = IF h THEN 0 ELSE IF m THEN @ + 1 ELSE @,
                     !.hour = IF h THEN (@ + 1) % 24 ELSE @]
  IN IF h /\ d.hour = 23 THEN NextDay(e) ELSE e

Tick ==
  /\ ticks < MaxTicks /\ job = <<>>
  /\ ticks' = ticks + 1
  /\ \/ now' = now + 1 /\ date' = NextSecond(date)
     \/ \E n \in DaySteps : /\ now' = now + 86400 * n
                            /\ date' = FoldLeft(LAMBDA d, i : NextDay(d), date, [i \in 1 .. n |-> i])
  /\ UNCHANGED <<tzoff, job>>

(* A text is made and read back, or one from elsewhere is read. *)
Make(max, format) ==
  LET out == strftime(max, format, gmtime_r(now))
  IN /\ job = <<>>
     /\ job' = [format |-> format, max |-> max, text |-> out, got |-> strptime(IF out = "full" THEN <<>> ELSE out, format, gmtime_r(0))]
     /\ UNCHANGED <<now, date, ticks, tzoff>>

ReadText(text, format) ==
  /\ job = <<>> /\ ticks = 0
  /\ job' = [format |-> format, max |-> 0, text |-> text, got |-> strptime(text, format, gmtime_r(now))]
  /\ UNCHANGED <<now, date, ticks, tzoff>>

Init ==
  /\ \E s \in Starts : now = s.t /\ date = s.tm
  /\ ticks = 0 /\ tzoff = 0 /\ job = <<>>

Next ==
  \/ Tick
  \/ job = <<>> /\ \E tz \in Zones : tzset(tz)
  \/ job = <<>> /\ \E max \in Rooms, f \in Formats : Make(max, f)
  \/ job = <<>> /\ ticks = 0 /\ \E s \in Inputs, f \in Formats : ReadText(s, f)
-----------------------------------------------------------------------------

(* gmtime_r gives the date of the calendar for the clock, timegm gives the *)
(* clock back, and mktime what localtime_r was given, in every zone.       *)
DatesExact ==
  job = <<>> =>
    /\ gmtime_r(now) = date
    /\ timegm(date).t = now /\ timegm(date).tm.wday = date.wday
    /\ now + tzoff >= 0 => mktime(localtime_r(now)).t = now
    /\ asctime_r(date) = strftime(26, AscFormat, date)

Parsed(format) == {NumberOf[f[2]][1] : f \in {g \in Range(format) : Len(g) = 2 /\ g[2] \in DOMAIN NumberOf}}
Readable(format) == \A f \in Range(format) : Len(f) = 1 \/ f[2] \in DOMAIN NumberOf \cup {"%"}

(* A text strftime made fits, with its NUL, and it makes none only if it   *)
(* would not fit; strptime reads the fields back from it.  What strptime   *)
(* accepts is what strftime makes of the fields it has found.              *)
TextsExact ==
  job # <<>> =>
    /\ job.max > 0 =>
         LET whole == strftime(1000, job.format, date)
         IN /\ (job.text = "full") = (Len(whole) >= job.max)
            /\ job.text # "full" => job.text = whole
            /\ job.text # "full" /\ Readable(job.format) =>
                 job.got.p = Len(whole) + 1 /\ \A x \in Parsed(job.format) : job.got.tm[x] = date[x]
    /\ job.max = 0 /\ job.got.p > 0 =>
         SubSeq(job.text, 1, job.got.p - 1) = strftime(1000, job.format, job.got.tm)

(* Dates and their texts. *)
TimesExact == DatesExact /\ TextsExact
=============================================================================
