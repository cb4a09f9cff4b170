------------------------------- MODULE Accounts -------------------------------
(***************************************************************************)
(* The user and group databases: pwd.c, pwd_r.c, grp.c and grp_r.c.        *)
(*                                                                         *)
(* A file is a sequence of lines, or Missing.  A line has a name, an id,   *)
(* the members of a group, the room its strings take, and tells whether    *)
(* the fields that must be there are: strtok_r takes two colons for one,   *)
(* so an empty field is a field that is not there.  On BSD systems the     *)
(* library looks entries up itself and enumerates groups if VLIBC_GROUP    *)
(* names the file; on others it enumerates both files and the lookups are  *)
(* the host's.  A file is edited by renaming a new one over it: a stream   *)
(* that is open goes on with the old lines.                                *)
(***************************************************************************)
EXTENDS Integers, Sequences, SequencesExt, FiniteSetsExt

CONSTANTS Threads,
          PasswdFiles, GroupFiles,
          FileLines,      \* lines that fit in the 4096 bytes of one read
          LineMembers,    \* members that fit in linebuf and members
          StackGroups,    \* entries of the array of initgroups
          Rooms,          \* sizes of the buffers given to the _r functions
          MaxCalls, MaxEdits

VARIABLES use,            \* the functions the program uses: they share only the files
          bsd, passwd, group, edits,
          ent,            \* the enumerations: of users, and of groups by thread
          init,           \* a call of initgroups that must try again, or <<>>
          active,         \* what initgroups gave to the process, or <<>>
          asked           \* the last lookup, or <<>>

acctVars == <<use, bsd, passwd, group, edits, ent, init, active, asked>>

NULL == [name |-> "NULL"]
Missing == <<NULL>>

(* read gives at most FileLines lines, and none if the open fails. *)
ReadFile(f) == IF f = Missing THEN <<>> ELSE SubSeq(f, 1, Min({Len(f), FileLines}))

(* An entry of a line, or NULL.  Members after the first LineMembers are   *)
(* cut off.  Except on BSD systems, a group without members is no entry.   *)
parse_passwd(l) == IF l.whole THEN l ELSE NULL
parse_group_bsd(l) == IF l.whole THEN [l EXCEPT !.mem = SubSeq(@, 1, Min({Len(@), LineMembers}))] ELSE NULL
parse_group(l) == IF l.mem = <<>> THEN NULL ELSE parse_group_bsd(l)
Entry(db, l) == IF db = "passwd" THEN parse_passwd(l) ELSE IF bsd THEN parse_group_bsd(l) ELSE parse_group(l)

(* The _r functions refuse a line whose strings do not fit in the caller's *)
(* buffer, and a group without members on every system.                    *)
parse_passwd_r(l, room) == IF l.size > room THEN NULL ELSE parse_passwd(l)
parse_group_r(l, room) == IF ~l.whole \/ l.size > room \/ l.mem = <<>> THEN NULL ELSE l
-----------------------------------------------------------------------------

(* An enumeration: is it started, the lines it has left, the lines it      *)
(* started with, and the results since then.                               *)
NotStarted == [open |-> FALSE, left |-> <<>>, lines |-> <<>>, log |-> <<>>]
StartedWith(f) == [open |-> TRUE, left |-> f, lines |-> f, log |-> <<>>]

(* A stream that is open is rewound; if the file is missing it stays       *)
(* closed.                                                                 *)
RewoundEnt(f, e) == IF e.open THEN StartedWith(e.lines) ELSE IF f = Missing THEN NotStarted ELSE StartedWith(f)

(* Without a stream the file is read anew each time. *)
Reread(f) == StartedWith(ReadFile(f))

Restarted(db, e) ==
  IF db = "passwd" THEN RewoundEnt(passwd, e)
  ELSE IF bsd THEN RewoundEnt(group, e) ELSE Reread(group)

Gave(e, r) == [e EXCEPT !.log = Append(@, r)]

Advanced(db, e) ==
  CASE ~e.open \/ e.left = <<>> -> Gave(e, NULL)
    [] OTHER -> Gave([e EXCEPT !.left = Tail(@)], Entry(db, Head(e.left)))

Started(db, e) == IF e.open THEN e ELSE [Restarted(db, e) EXCEPT !.log = e.log]

EntStep(db, t, e) ==
  /\ ent' = [ent EXCEPT ![db][t] = e]
  /\ UNCHANGED <<use, bsd, passwd, group, edits, init, active, asked>>

setpwent == use = "passwd" /\ ~bsd /\ EntStep("passwd", "process", Restarted("passwd", ent.passwd.process))
setgrent(t) == use = "group" /\ EntStep("group", t, Restarted("group", ent.group[t]))

getpwent ==
  LET e == ent.passwd.process
  IN /\ use = "passwd" /\ ~bsd /\ Len(e.log) < MaxCalls
     /\ EntStep("passwd", "process", Advanced("passwd", Started("passwd", e)))

getgrent(t) ==
  LET e == ent.group[t]
  IN /\ use = "group" /\ Len(e.log) < MaxCalls
     /\ EntStep("group", t, Advanced("group", Started("group", e)))

endpwent == use = "passwd" /\ ent.passwd.process.open /\ EntStep("passwd", "process", NotStarted)
endgrent(t) == use = "group" /\ ent.group[t].open /\ EntStep("group", t, NotStarted)
-----------------------------------------------------------------------------

FirstMatch(entries, name, id, by_name) ==
  LET hits == {i \in DOMAIN entries : /\ entries[i] # NULL
                                      /\ IF by_name THEN entries[i].name = name
                                                    ELSE entries[i].id = id}
  IN IF hits = {} THEN NULL ELSE entries[Min(hits)]

(* getpwnam reads its file to the end, getgrnam what one read gives. *)
lookup_passwd(name, id, by_name) ==
  LET f == IF passwd = Missing THEN <<>> ELSE passwd
  IN FirstMatch([i \in DOMAIN f |-> parse_passwd(f[i])], name, id, by_name)

lookup_group(name, id, by_name) ==
  LET f == ReadFile(group)
  IN FirstMatch([i \in DOMAIN f |-> parse_group_bsd(f[i])], name, id, by_name)

lookup_passwd_r(name, id, by_name, room) ==
  LET f == ReadFile(passwd)
  IN FirstMatch([i \in DOMAIN f |-> parse_passwd_r(f[i], room)], name, id, by_name)

lookup_group_r(name, id, by_name, room) ==
  LET f == ReadFile(group)
  IN FirstMatch([i \in DOMAIN f |-> parse_group_r(f[i], room)], name, id, by_name)

Lines == UNION {Range(f) : f \in (PasswdFiles \cup GroupFiles) \ {Missing}}

(* getpwnam, getpwuid, getgrnam, getgrgid and their _r forms, on BSD.      *)
(* They keep nothing from call to call, so one is enough.                  *)
Lookup(db, l, by_name, room) ==
  /\ use = "lookup" /\ bsd /\ asked = <<>>
  /\ asked' = [db |-> db, name |-> l.name, id |-> l.id, by_name |-> by_name, room |-> room,
               file |-> IF db = "group" THEN group ELSE passwd,
               ret |-> CASE db = "passwd" /\ room = 0 -> lookup_passwd(l.name, l.id, by_name)
                         [] db = "passwd" /\ room # 0 -> lookup_passwd_r(l.name, l.id, by_name, room)
                         [] db # "passwd" /\ room = 0 -> lookup_group(l.name, l.id, by_name)
                         [] OTHER -> lookup_group_r(l.name, l.id, by_name, room)]
  /\ UNCHANGED <<use, bsd, passwd, group, edits, ent, init, active>>
-----------------------------------------------------------------------------

Users == UNION {Range(l.mem) : l \in Lines}
Gids == {l.id : l \in Lines}

(* The groups of a user.  The array has limit entries; those that do not   *)
(* fit are only counted, but the search for duplicates goes on behind the  *)
(* end of the array, where memory has any contents.                        *)
Collected(user, gid, limit, memory) ==
  LET Add(acc, l) ==
        LET e == parse_group(l)
            cell == [i \in 1 .. acc.count |-> IF i <= limit THEN acc.groups[i] ELSE memory[i]]
        IN IF e = NULL \/ (e # NULL /\ user \notin Range(e.mem)) THEN acc
           ELSE IF e.id \in Range(cell) THEN acc
           ELSE [groups |-> IF acc.count < limit THEN Append(acc.groups, e.id) ELSE acc.groups,
                 count |-> acc.count + 1]
  IN FoldLeft(Add, [groups |-> <<gid>>, count |-> 1], ReadFile(group))

(* Variant: a count beyond the array is returned as it is. *)
getgrouplist_unchecked(user, gid, limit, memory) ==
  LET all == Collected(user, gid, limit, memory)
  IN [ret |-> all.count, ngroups |-> all.count, groups |-> all.groups]

getgrouplist(user, gid, limit, memory) ==
  LET all == Collected(user, gid, limit, memory)
  IN IF ReadFile(group) = <<>> THEN [ret |-> -1, ngroups |-> limit, groups |-> <<gid>>]
     ELSE [ret |-> IF all.count > limit THEN -1 ELSE all.count,
           ngroups |-> all.count, groups |-> all.groups]

Behind(limit) == [limit + 1 .. FileLines + 1 -> Gids]

(* The first ngroups entries are given to setgroups, which may refuse. *)
do_setgroups(user, gid, r) ==
  /\ init' = <<>>
  /\ \/ active' = [user |-> user, gid |-> gid, groups |-> r.groups, ngroups |-> r.ngroups, file |-> group]
     \/ UNCHANGED active

initgroups(user, gid) ==
  /\ use = "initgroups" /\ ~bsd /\ init = <<>> /\ active = <<>>
  /\ \E memory \in Behind(StackGroups) :
       LET r == getgrouplist(user, gid, StackGroups, memory)
       IN IF r.ret = -1 THEN init' = <<user, gid, r.ngroups>> /\ UNCHANGED active
                        ELSE do_setgroups(user, gid, r)
  /\ UNCHANGED <<use, bsd, passwd, group, edits, ent, asked>>

(* The second attempt, with an array of the size the first one asked for;  *)
(* malloc may fail.  The file may have been edited in between.             *)
initgroups_again ==
  /\ init # <<>>
  /\ \/ init' = <<>> /\ UNCHANGED active
     \/ \E memory \in Behind(init[3]) :
          LET r == getgrouplist(init[1], init[2], init[3], memory)
          IN r.ret # -1 /\ do_setgroups(init[1], init[2], r)
  /\ UNCHANGED <<use, bsd, passwd, group, edits, ent, asked>>

Edit ==
  /\ edits < MaxEdits
  /\ edits' = edits + 1
  /\ \/ passwd' \in PasswdFiles /\ UNCHANGED group
     \/ group' \in GroupFiles /\ UNCHANGED passwd
  /\ UNCHANGED <<use, bsd, ent, init, active, asked>>
-----------------------------------------------------------------------------

Init ==
  /\ use \in {"passwd", "group", "lookup", "initgroups"}
  /\ bsd \in BOOLEAN
  /\ passwd \in PasswdFiles /\ group \in GroupFiles /\ edits = 0
  /\ ent = [passwd |-> [process |-> NotStarted], group |-> [t \in Threads |-> NotStarted]]
  /\ init = <<>> /\ active = <<>> /\ asked = <<>>

Next ==
  \/ setpwent \/ getpwent \/ endpwent
  \/ \E t \in Threads : setgrent(t) \/ getgrent(t) \/ endgrent(t)
  \/ use = "lookup" /\ \E db \in {"passwd", "group"}, l \in Lines, b \in BOOLEAN, room \in Rooms \cup {0} : Lookup(db, l, b, room)
  \/ use = "initgroups" /\ \E u \in Users, g \in Gids : initgroups(u, g)
  \/ initgroups_again
  \/ Edit
-----------------------------------------------------------------------------

(* Each line of the file the enumeration was started with was given once,  *)
(* in order, as an entry or as NULL if it is not one, and then NULL.       *)
EnumerationExact ==
  \A db \in DOMAIN ent : \A t \in DOMAIN ent[db] :
    LET e == ent[db][t]
    IN e.open => \E k \in 0 .. Len(e.log) :   \* calls before a missing file appeared
         /\ \A i \in 1 .. k : e.log[i] = NULL
         /\ \A i \in k + 1 .. Len(e.log) :
              e.log[i] = IF i - k > Len(e.lines) THEN NULL ELSE Entry(db, e.lines[i - k])

(* The groups given to the process are those that list the user in one     *)
(* version of the file, each once: never a list that was cut short.        *)
GroupsWhole ==
  active # <<>> =>
    /\ active.ngroups = Len(active.groups) /\ IsInjective(active.groups)
    /\ Range(active.groups) =
         {active.gid} \cup {e.id : e \in {x \in {parse_group(l) : l \in Range(ReadFile(active.file))} :
                                            x # NULL /\ active.user \in Range(x.mem)}}

(* A lookup gives an entry that was asked for, with strings that fit, and  *)
(* no entry before it would have done; it gives NULL only if none would.   *)
LookupExact ==
  asked # <<>> =>
    LET f == IF asked.file = Missing THEN <<>> ELSE asked.file
        cut == asked.db = "group" \/ asked.room > 0
        Good(i) == /\ f[i].whole
                   /\ cut => i <= FileLines
                   /\ IF asked.by_name THEN f[i].name = asked.name ELSE f[i].id = asked.id
                   /\ asked.room > 0 => f[i].size <= asked.room /\ (asked.db = "group" => f[i].mem # <<>>)
    IN IF asked.ret = NULL THEN \A i \in DOMAIN f : ~Good(i)
       ELSE \E i \in DOMAIN f : Good(i) /\ f[i].name = asked.ret.name /\ f[i].id = asked.ret.id
                                /\ \A j \in 1 .. i - 1 : ~Good(j)

(* The three: what pwd.c and grp.c give is what the files say. *)
AccountsExact == EnumerationExact /\ GroupsWhole /\ LookupExact
=============================================================================
