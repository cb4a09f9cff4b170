-------------------------------- MODULE Getopt --------------------------------
(***************************************************************************)
(* getopt, getopt_long (src/getopt.c) and getopt_long_only: a client calls *)
(* one of them until it returns -1.  An argument is an operand, "--", a    *)
(* cluster of letters behind one dash, or a name behind two with or        *)
(* without "=value"; for getopt_long_only one dash is as good as two.  The *)
(* first argument is argv[1], so that optind is an index into args.        *)
(***************************************************************************)
EXTENDS Integers, SequencesExt

CONSTANTS Flags, Taking,     \* letters without and with an argument
          Others,            \* letters that are no options
          LongFlags, LongTaking, LongOptional,  \* names of long options, by their argument
          OtherNames,        \* names that are no options
          Apis,              \* the functions in use
          Clustering,        \* those used with several letters behind a dash
          MaxArgs            \* bound: arguments

VARIABLES api, args, optind, next, log

optVars == <<api, args, optind, next, log>>

Letters == Flags \cup Taking \cup Others
Operand == [k |-> "operand"]
Dashes  == [k |-> "--"]
Cluster(s) == [k |-> "-", letters |-> s]
Long(n, e) == [k |-> "long", name |-> n, eq |-> e]

(* Names that are no options are left out for getopt_long_only, which      *)
(* goes on to read them as a cluster.                                      *)
Names(f) ==
  CASE f = "getopt" -> {}
    [] f = "getopt_long" -> LongFlags \cup LongTaking \cup LongOptional \cup OtherNames
    [] OTHER -> LongFlags \cup LongTaking \cup LongOptional

(* Letters after one that takes an argument are its argument. *)
Single(s) == Len(s) = 1 \/ s[1] \in Taking

Arguments(f) ==
  {Operand, Dashes}
  \cup {c \in {Cluster(s) : s \in [1 .. 1 -> Letters] \cup [1 .. 2 -> Letters]} :
          f \in Clustering \/ Single(c.letters)}
  \cup {Long(n, e) : n \in Names(f), e \in BOOLEAN}

Init ==
  /\ api \in Apis
  /\ args \in UNION {[1 .. n -> Arguments(api)] : n \in 0 .. MaxArgs}
  /\ optind = 1 /\ next = <<>> /\ log = <<>>

None == [from |-> "none"]
Inline(s) == [from |-> "cluster", text |-> s]
InArgs(i) == [from |-> "argv", i |-> i]
AfterEq(i) == [from |-> "eq", i |-> i]

(* A call returns: an option with optarg, "?" with optopt, or -1. *)
Result(r, x) == log' = Append(log, <<r, x>>)
Finish == Result("end", None)
-----------------------------------------------------------------------------
(* getopt from the letter on; s is what next points to. *)
Letter(s, i) ==
  LET c == s[1]
      rest == Tail(s)
  IN CASE c \in Flags -> Result(c, None) /\ next' = rest /\ optind' = i
       [] c \in Taking /\ rest # <<>> -> Result(c, Inline(rest)) /\ next' = <<>> /\ optind' = i
       [] c \in Taking /\ rest = <<>> /\ i <= Len(args) ->
            Result(c, InArgs(i)) /\ next' = <<>> /\ optind' = i + 1
       [] OTHER -> Result("?", [from |-> "optopt", c |-> c]) /\ next' = rest /\ optind' = i

(* Variant: letters left over are dropped when a new argument begins. *)
getopt_fresh ==
  IF optind > Len(args) \/ args[optind].k \notin {"-", "--"}
  THEN Finish /\ UNCHANGED <<optind, next>>
  ELSE IF args[optind].k = "--"
  THEN Finish /\ optind' = optind + 1 /\ UNCHANGED next
  ELSE Letter(args[optind].letters, optind + 1)

getopt ==
  IF next # <<>> THEN Letter(next, optind)
  ELSE IF optind > Len(args) \/ args[optind].k = "operand"
  THEN Finish /\ UNCHANGED <<optind, next>>
  ELSE IF args[optind].k = "--"
  THEN Finish /\ optind' = optind + 1 /\ UNCHANGED next
  ELSE Letter(args[optind].letters, optind + 1)

(* The long option at optind: its argument, and where parsing goes on. *)
LongOption ==
  LET o == args[optind]
      more == optind + 1 <= Len(args)
  IN /\ UNCHANGED next
     /\ CASE o.name \in OtherNames -> Result("?", None) /\ optind' = optind + 1
          [] o.name \in LongTaking /\ ~o.eq /\ more ->
               Result(o.name, InArgs(optind + 1)) /\ optind' = optind + 2
          [] o.name \in LongTaking /\ ~o.eq /\ ~more ->
               Result("?", [from |-> "optopt", c |-> o.name]) /\ optind' = optind + 1
          [] o.name \in LongTaking \cup LongOptional /\ o.eq ->
               Result(o.name, AfterEq(optind)) /\ optind' = optind + 1
          [] OTHER -> Result(o.name, None) /\ optind' = optind + 1

getopt_long ==
  IF optind > Len(args) \/ args[optind].k = "operand"
  THEN Finish /\ UNCHANGED <<optind, next>>
  ELSE CASE args[optind].k = "--" -> Finish /\ optind' = optind + 1 /\ UNCHANGED next
         [] args[optind].k = "long" -> LongOption
         [] OTHER -> getopt

getopt_long_only ==
  IF optind > Len(args) THEN Finish /\ UNCHANGED <<optind, next>>
  ELSE IF args[optind].k = "long" THEN LongOption ELSE getopt

Finished == log # <<>> /\ log[Len(log)][1] = "end"

Next ==
  /\ ~Finished
  /\ \/ api = "getopt" /\ getopt
     \/ api = "getopt_long" /\ getopt_long
     \/ api = "getopt_long_only" /\ getopt_long_only
  /\ UNCHANGED <<api, args>>

Spec == Init /\ [][Next]_optVars
-----------------------------------------------------------------------------
(* What the arguments mean, read from left to right: Parse(i, s) are the   *)
(* results when letters s are left of the argument before i.               *)
RECURSIVE Parse(_, _)
Parse(i, s) ==
  IF s # <<>>
  THEN IF s[1] \in Flags THEN <<<<s[1], None>>>> \o Parse(i, Tail(s))
       ELSE IF s[1] \in Others THEN <<<<"?", [from |-> "optopt", c |-> s[1]]>>>> \o Parse(i, Tail(s))
       ELSE IF Tail(s) # <<>> THEN <<<<s[1], Inline(Tail(s))>>>> \o Parse(i, <<>>)
       ELSE IF i <= Len(args) THEN <<<<s[1], InArgs(i)>>>> \o Parse(i + 1, <<>>)
       ELSE <<<<"?", [from |-> "optopt", c |-> s[1]]>>>> \o Parse(i, <<>>)
  ELSE IF i > Len(args) \/ args[i].k = "operand" THEN <<<<"end", i>>>>
  ELSE IF args[i].k = "--" THEN <<<<"end", i + 1>>>>
  ELSE IF args[i].k = "-" THEN Parse(i + 1, args[i].letters)
  ELSE LET n == args[i].name
           found == IF n \in OtherNames THEN <<"?", None>>
                    ELSE IF n \in LongFlags THEN <<n, None>>
                    ELSE IF args[i].eq THEN <<n, AfterEq(i)>>
                    ELSE IF n \in LongOptional THEN <<n, None>>
                    ELSE IF i < Len(args) THEN <<n, InArgs(i + 1)>>
                    ELSE <<"?", [from |-> "optopt", c |-> n]>>
       IN <<found>> \o Parse(IF found = <<n, InArgs(i + 1)>> THEN i + 2 ELSE i + 1, <<>>)

(* getopt, getopt_long and getopt_long_only report every option with its   *)
(* argument once and in order, and leave optind at the first operand.      *)
OptionsExact == Finished =>
  LET expected == Parse(1, <<>>) IN
  /\ Front(log) = Front(expected)
  /\ optind = expected[Len(expected)][2]
=============================================================================
