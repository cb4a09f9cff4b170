------------------------------- MODULE MCStorage -------------------------------
(***************************************************************************)
(* The heap, one stream of every kind, patterns and names of files, walks  *)
(* over trees that change, temporary files, and the files of users,        *)
(* groups and hosts, for TLC.  The initial state chooses one of them, and  *)
(* only its variables change.                                              *)
(***************************************************************************)
EXTENDS Heap, Stdio, TLC

CONSTANTS Patterns, Matched, Segments, CommandLines, ScarceLines, Homes, WordCap, Tree, Dirs, Paths, Cwds,
          Trees, News, MaxChanges,
          Callers, Names, MaxTries, MaxTempCalls, MaxOthers,
          PasswdFiles, GroupFiles, FileLines, LineMembers, StackGroups, Rooms, MaxEntCalls, MaxEdits,
          NWords, Decimal, Hex, AddressTexts, AddressWords, HostFiles, Nodes, Hosts4, Hosts6,
          Services, HostRooms, MaxHostCalls, MaxHostEdits

VARIABLES part, fun, flags, arg1, arg2, junk, noMemory, result,
          tree, changes, stable, api, phys, depth, queue, stack, given, ret,
          maker, others, fn, tpc, template, tries, holds, outcome, tempCalls,
          use, bsd, passwd, group, edits, ent, init, active, asked,
          hostUse, hosts, hostEdits, he, he_name, he_addr4, he_addr6,
          pending, answer, infos, allocated, good, hostCalls

globVars == <<fun, flags, arg1, arg2, junk, noMemory, result>>
walkVars == <<tree, changes, stable, api, phys, depth, queue, stack, given, ret>>
tempVars == <<maker, others, fn, tpc, template, tries, holds, outcome, tempCalls>>
acctVars == <<use, bsd, passwd, group, edits, ent, init, active, asked>>
hostVars == <<hostUse, hosts, hostEdits, he, he_name, he_addr4, he_addr6,
              pending, answer, infos, allocated, good, hostCalls>>

G == INSTANCE Globs WITH call <- fun, Strings <- Matched
W == INSTANCE Directories WITH calls <- given
D == INSTANCE Accounts WITH MaxCalls <- MaxEntCalls
H == INSTANCE Hosts

SmallContents == {<<>>, <<1, 9, 2>>}
AllStreams == {<<"fd", "r">>, <<"fd", "w">>, <<"fd", "a">>, <<"fd", "r+">>,
               <<"cookie", "r+">>, <<"mem", "r">>, <<"mem", "w">>, <<"mem", "r+">>, <<"mem", "a">>}
SmallRequests == {<<1>>, <<9>>, <<2, 9, 1>>}
SmallOffsets == {-1, 0, 1}

Texts(chars, from, to) == UNION {[1 .. n -> chars] : n \in from .. to}

SmallPatterns == Texts({"a", "*", "?", "[", "]", "!", "-", "\\"}, 0, 4)
  \cup {<<"[">> \o x \o <<"]">> \o y : x \in [1 .. 3 -> {"a", "-", "c", "\\"}], y \in {<<>>, <<"*">>}}
SmallMatched == Texts({"a", "b"}, 0, 2) \cup {<<"\\">>, <<"-">>, <<"a", "b", "a">>}
SmallSegments == {<<"*">>, <<"a">>, <<"[", "a", "-", "b", "]">>, <<"\\", "a">>, <<"[", "!", "a", "]">>, <<"b", "?">>}
SmallTree == {<<>>, <<"a">>, <<"b">>, <<"c">>, <<"a", "a">>, <<"a", "b">>, <<"b", "a">>}
SmallDirs == {<<>>, <<"a">>, <<"b">>}
SmallScarce == {<<"a", " ", "*">>, <<"~", "/", "*">>, <<"a", "b", "c", "b">>, <<"c", " ", "b", "c">>}
SmallLines == SmallScarce \cup Texts({"a", "*", "'", "\"", "\\", " ", "~"}, 0, 4)
  \cup {<<"a", "/", c>> : c \in {"*", "'", "/", "b"}} \cup {<<"a", "/">>, <<"'", "[", "'", "a", "]">>}
SmallHomes == {<<"a">>, <<>>}
SmallPaths == Texts({"/", ".", "a"}, 0, 6)
SmallCwds == {<<"/">>, <<"/", "b">>, <<"/", "b", "/", "c">>}

(* Two levels of directories and one that cannot be opened; a link to a    *)
(* file and one to nothing.                                                *)
DeepTree == (<<"r">> :> "dir") @@ (<<"r", "a">> :> "dir") @@ (<<"r", "a", "b">> :> "dir")
            @@ (<<"r", "a", "x">> :> "file") @@ (<<"r", "a", "b", "y">> :> "file") @@ (<<"r", "k">> :> "locked")
LinkTree == (<<"r">> :> "dir") @@ (<<"r", "a">> :> "dir") @@ (<<"r", "a", "x">> :> "file")
            @@ (<<"r", "l">> :> "link") @@ (<<"r", "d">> :> "dead")
SmallTrees == {DeepTree, LinkTree}
SmallNews == {<<"r", "n">>, <<"r", "a", "x">>}

User(name, id, whole, room) == [name |-> name, id |-> id, mem |-> <<>>, whole |-> whole, size |-> room]
Group(name, id, members, whole) ==
  [name |-> name, id |-> id, mem |-> members, whole |-> whole, size |-> Len(members) + 1]
NoFile == <<[name |-> "NULL"]>>

(* With an incomplete line; one name in both versions, and another id. *)
SmallPasswd == {NoFile, <<User("root", 0, TRUE, 1), User("bin", 1, FALSE, 1), User("ann", 2, TRUE, 2)>>,
                <<User("ann", 0, TRUE, 1)>>}

(* No members; more groups than the array has entries, one of them twice;  *)
(* more lines than one read gives.                                         *)
SmallGroup ==
  {NoFile, <<>>,
   <<Group("wheel", 0, <<>>, TRUE), Group("a", 1, <<"ann">>, TRUE),
     Group("b", 2, <<"bob", "ann">>, TRUE), Group("c", 3, <<"ann">>, TRUE)>>,
   <<Group("a", 1, <<"ann">>, TRUE), Group("b", 1, <<"ann", "bob">>, TRUE), Group("d", 2, <<"ann", "bob", "cat">>, TRUE)>>,
   <<Group("a", 1, <<"ann">>, TRUE), Group("x", 2, <<"ann">>, FALSE), Group("b", 2, <<"ann", "bob">>, TRUE)>>}

SmallDecimal == ("0" :> 0) @@ ("1" :> 1) @@ ("255" :> 255) @@ ("256" :> 256) @@ ("-1" :> -1)
SmallHex == ("0" :> 0) @@ ("1" :> 1) @@ ("255" :> 597) @@ ("256" :> 598) @@ ("-1" :> -1)
            @@ ("ff" :> 255) @@ ("ffff" :> 65535) @@ ("10000" :> 65536)
Spaced(s) == \A i \in 1 .. Len(s) - 1 : ~({s[i], s[i + 1]} \subseteq DOMAIN SmallHex \cup {"h"})
Dotted(a, b, c, d) == <<a, ".", b, ".", c, ".", d>>
SmallAddressTexts ==
  {s \in Texts({":", "1", "."}, 0, 8) \cup Texts({":", ".", "1", "256", "10000", "-1", "h", " ", "ffff"}, 0, 4) : Spaced(s)}
  \cup {Dotted(a, b, c, "1") \o e : a, b, c \in {"0", "255", "256"}, e \in {<<>>, <<" ">>, <<" ", "h">>, <<".">>}}

(* A comment, an address out of range, one of the other family, an address *)
(* without a name, and a name that is an address.                          *)
Host(addr, names) == [kind |-> "entry", addr |-> addr, names |-> names]
NoHost(sort) == [kind |-> sort, addr |-> Dotted("1", "1", "1", "1"), names |-> << <<"h">> >>]
NoHosts == << [kind |-> "missing", addr |-> <<>>, names |-> <<>>] >>
SmallHostFiles ==
  {NoHosts,
   <<NoHost("comment"), Host(Dotted("256", "1", "1", "1"), << <<"h">> >>),
     Host(Dotted("0", "0", "0", "1"), << <<"k">>, <<"h">> >>), Host(Dotted("1", "1", "1", "1"), << <<"h">> >>)>>,
   <<Host(<<":", ":", "1">>, << <<"k">> >>), Host(Dotted("1", "1", "1", "1"), <<>>),
     Host(Dotted("1", "1", "1", "1"), << <<"k">>, Dotted("0", "0", "0", "1")>>), NoHost("long")>>}
SmallNodes == {<<"h">>, <<"k">>, Dotted("0", "0", "0", "1"), <<":", ":", "1">>, Dotted("1", "1", "1", "256")}
SmallHosts4 == {<<1, 1, 1, 1>>, <<0, 0, 0, 1>>, <<1, 0, 0, 1>>}
SmallHosts6 == {<<0, 0, 0, 1>>, <<1, 0, 0, 1>>}

(* The threads of the heap differ only in their names. *)
ThreadSymmetry == Permutations(Threads)
-----------------------------------------------------------------------------

Absent(p) ==
  CASE p = "stream" -> kind = "fd" /\ access = "w"
    [] p = "names" -> fun = "realpath" /\ arg1 = <<"/">> /\ arg2 = <<"/">>
    [] p = "accounts" -> use = "lookup" /\ bsd = FALSE /\ passwd = NoFile /\ group = NoFile
    [] p = "hosts" -> hostUse = "text"
    [] OTHER -> tree = LinkTree /\ api = "fts" /\ phys = FALSE

StorageInit ==
  /\ part \in {"heap", "stream", "names", "walk", "temp", "accounts", "hosts"}
  /\ \A p \in {"stream", "names", "walk", "accounts", "hosts"} : part = p \/ (part # p /\ Absent(p))
  /\ Init /\ StreamInit /\ G!Init /\ W!WalkInit /\ W!TempInit /\ D!Init /\ H!Init

StorageNext ==
  \/ part = "heap" /\ Next /\ UNCHANGED <<part, streamVars, globVars, walkVars, tempVars, acctVars, hostVars>>
  \/ part = "stream" /\ StreamNext /\ UNCHANGED <<part, vars, globVars, walkVars, tempVars, acctVars, hostVars>>
  \/ part = "names" /\ G!Next /\ UNCHANGED <<part, vars, streamVars, walkVars, tempVars, acctVars, hostVars>>
  \/ part = "walk" /\ W!WalkNext /\ UNCHANGED <<part, vars, streamVars, globVars, tempVars, acctVars, hostVars>>
  \/ part = "temp" /\ W!TempNext /\ UNCHANGED <<part, vars, streamVars, globVars, walkVars, acctVars, hostVars>>
  \/ part = "accounts" /\ D!Next /\ UNCHANGED <<part, vars, streamVars, globVars, walkVars, tempVars, hostVars>>
  \/ part = "hosts" /\ H!Next /\ UNCHANGED <<part, vars, streamVars, globVars, walkVars, tempVars, acctVars>>

StorageSpec ==
  StorageInit /\ [][StorageNext]_<<part, vars, streamVars, globVars, walkVars, tempVars, acctVars, hostVars>>

(* See Globs and Directories: fnmatch, glob, wordexp, realpath,            *)
(* dirname and basename give the right names, fts and nftw give each entry *)
(* that stays in the tree once, and a file that mkstemp and its kin give   *)
(* belongs to one caller.                                                  *)
FilesExact ==
  /\ part = "names" => G!NamesExact
  /\ part = "walk" => W!WalkExact
  /\ part = "temp" => W!TempExact
(* See Accounts and Hosts: enumerations and lookups of users, groups and   *)
(* hosts give what the files say, also when they are edited in between.    *)
DatabasesExact == (part = "accounts" => D!AccountsExact) /\ (part = "hosts" => H!HostsExact)
=============================================================================
