------------------------------- MODULE Resources -------------------------------
(***************************************************************************)
(* The functions that put a result together from several system calls:     *)
(* pseudo-terminals (pty.c), daemon, getpass, the connection to the system *)
(* log (syslog.c), scandir, getifaddrs, getcwd with a buffer of its own    *)
(* and posix_fallocate.  One thread calls them one after the other, every  *)
(* system call and every allocation may fail, and descriptors have the     *)
(* lowest free number.                                                     *)
(*                                                                         *)
(* table has the descriptors of the process, held those the client knows   *)
(* of; blocks counts what is allocated and kept what the client has to     *)
(* free.                                                                   *)
(* After a fork the model goes on in the parent or in the child.           *)
(***************************************************************************)
EXTENDS Integers, Sequences

CONSTANTS MaxFd, MaxResCalls,
          Idents,        \* arguments of openlog; "" stands for NULL
          MaxItems,      \* entries of a directory, interfaces of the host
          Members,       \* how many members of an interface are not NULL
          ListCap, MaxCap, \* room of a new list, and the largest buffer
          Ranges         \* arguments of posix_fallocate: offset and length

ASSUME ResourcesAssumption ==
  /\ MaxFd \in Nat /\ MaxFd >= 3
  /\ MaxItems \in Nat /\ Members \subseteq Nat /\ ListCap \in Nat \ {0} /\ MaxCap \in Nat
  /\ Ranges \subseteq Nat \X Nat

VARIABLES table, held, blocks, kept,
          ctty, echo, stuck,   \* controlling terminal; echo of each terminal
          log_fd, log_ident,
          ident,               \* what the client asked for
          file,                \* contents of a file, "data" or "zero" at each place
          rpc, loc, resCalls   \* place and locals of the call

resVars == <<table, held, blocks, kept, ctty, echo, stuck, log_fd, log_ident, ident, file, rpc, loc, resCalls>>
logVars == <<log_fd, log_ident, ident>>
termVars == <<ctty, echo, stuck>>

Numbers == 0 .. MaxFd
Std == 0 .. 2
lowest(t, f) == t[f] = "free" /\ \A g \in 0 .. f - 1 : t[g] # "free"
Put(t, f, x) == [t EXCEPT ![f] = x]
Drop(t, S) == [f \in Numbers |-> IF f \in S THEN "free" ELSE t[f]]

NoLocals == [fun |-> "none", m |-> -1, s |-> -1, n |-> 0, cap |-> 0, left |-> 0]

Call(f, l) ==
  /\ rpc = "client" /\ resCalls < MaxResCalls
  /\ resCalls' = resCalls + 1
  /\ rpc' = f /\ loc' = [l EXCEPT !.fun = f]

(* A call of which nothing is seen in between. *)
Once ==
  /\ rpc = "client" /\ resCalls < MaxResCalls
  /\ resCalls' = resCalls + 1 /\ UNCHANGED <<rpc, loc>>

Enter(place) == rpc' = place /\ UNCHANGED resCalls

(* The call ends with these descriptors and blocks; the client has been    *)
(* given those of h and n blocks.                                          *)
Leave(t, b, h, n) ==
  /\ Enter("client") /\ loc' = NoLocals
  /\ table' = t /\ blocks' = b /\ held' = h /\ kept' = kept + n

Unwind(b, S) == Leave(Drop(table, S), b, held, 0)
-----------------------------------------------------------------------------

(* dup2 of f onto 0, 1 and 2, and the close of f if it is none of them. *)
OntoStd(t, f) ==
  LET u == [g \in Numbers |-> IF g \in Std THEN t[f] ELSE t[g]]
  IN IF f > 2 THEN Put(u, f, "free") ELSE u

(* The log's socket is not one of 0 to 2 when they are replaced. *)
LogAside == log_fd \notin Std

pty_call ==
  /\ \E f \in {"openpty", "forkpty"} : (f = "forkpty" => LogAside) /\ Call(f, NoLocals)
  /\ UNCHANGED <<table, held, blocks, kept, termVars, logVars, file>>

posix_openpt ==
  /\ rpc \in {"openpty", "forkpty"}
  /\ \/ Unwind(blocks, {})
     \/ \E f \in Numbers :
        /\ lowest(table, f)
        /\ table' = Put(table, f, "master") /\ loc' = [loc EXCEPT !.m = f]
        /\ Enter("grantpt") /\ UNCHANGED <<held, blocks, kept>>
  /\ UNCHANGED <<termVars, logVars, file>>

(* grantpt, unlockpt and the first malloc. *)
grantpt ==
  /\ rpc = "grantpt"
  /\ \/ Unwind(blocks, {loc.m})
     \/ /\ blocks' = blocks + 1 /\ loc' = [loc EXCEPT !.cap = 1]
        /\ Enter("ptsname_r") /\ UNCHANGED <<table, held, kept>>
  /\ UNCHANGED <<termVars, logVars, file>>

(* Variant: the buffer stays behind when it cannot be doubled. *)
PtsForgets == Unwind(IF loc.cap * 2 > MaxCap THEN blocks ELSE blocks - 1, {loc.m})

(* free(buf) and close(m), on every error once the buffer is there. *)
PtsFails == Unwind(blocks - 1, {loc.m})

(* The name does not fit: the buffer is doubled as long as that is         *)
(* possible; any other error ends the call.                                *)
ptsname_r ==
  /\ rpc = "ptsname_r"
  /\ \/ PtsFails
     \/ /\ loc.cap * 2 <= MaxCap /\ loc' = [loc EXCEPT !.cap = @ * 2]
        /\ UNCHANGED rpc /\ UNCHANGED <<table, held, blocks, kept, resCalls>>
     \/ Enter("slave") /\ UNCHANGED <<table, held, blocks, kept, loc>>
  /\ UNCHANGED <<termVars, logVars, file>>

(* The results of tcsetattr and ioctl are ignored. *)
do_openpty ==
  /\ rpc = "slave"
  /\ \/ PtsFails
     \/ \E f \in Numbers :
        /\ lowest(table, f)
        /\ IF loc.fun = "openpty"
           THEN Leave(Put(table, f, "slave"), blocks - 1, Put(Put(held, loc.m, "master"), f, "slave"), 0)
           ELSE /\ table' = Put(table, f, "slave") /\ blocks' = blocks - 1
                /\ loc' = [loc EXCEPT !.s = f]
                /\ Enter("fork") /\ UNCHANGED <<held, kept>>
  /\ UNCHANGED <<termVars, logVars, file>>

forkpty_parent ==
  /\ rpc = "fork"
  /\ \/ Unwind(blocks, {loc.m, loc.s})
     \/ Leave(Drop(table, {loc.s}), blocks, Put(held, loc.m, "master"), 0)
  /\ UNCHANGED <<termVars, logVars, file>>

(* setsid and ioctl may fail, which leaves the child without a terminal,   *)
(* or with its old one.                                                    *)
forkpty_child ==
  /\ rpc = "fork"
  /\ ctty' \in {"slave", "none", ctty}
  /\ Leave(OntoStd(Drop(table, {loc.m}), loc.s), blocks,
            [f \in Numbers |-> IF f \in Std THEN "slave" ELSE held[f]], 0)
  /\ UNCHANGED <<echo, stuck, logVars, file>>
-----------------------------------------------------------------------------

(* The parent has left with _exit(0), so that an error is seen by the      *)
(* child alone; fork failed if the child is still the caller.              *)
daemon(f) ==
  /\ f = "daemon" => LogAside
  /\ Call(f, NoLocals)
  /\ UNCHANGED <<table, held, blocks, kept, termVars, logVars, file>>

(* fork, setsid or chdir fails; the last one after the session is new. *)
daemon_fails ==
  /\ rpc \in {"daemon", "daemon_noclose"}
  /\ ctty' \in {ctty, "none"}
  /\ Unwind(blocks, {})
  /\ UNCHANGED <<echo, stuck, logVars, file>>

(* A /dev/null that can be opened neither for writing nor for reading      *)
(* leaves the descriptors as they are.                                     *)
daemon_child ==
  /\ rpc \in {"daemon", "daemon_noclose"}
  /\ ctty' = "none"
  /\ \/ Unwind(blocks, {})
     \/ \E f \in Numbers :
        /\ rpc = "daemon" /\ lowest(table, f)
        /\ Leave(OntoStd(Put(table, f, "null"), f), blocks,
                 [g \in Numbers |-> IF g \in Std THEN "null" ELSE held[g]], 0)
  /\ UNCHANGED <<echo, stuck, logVars, file>>
-----------------------------------------------------------------------------

(* m is the descriptor to read from, s the one to write to; they are one   *)
(* if the controlling terminal could be opened.                            *)
getpass ==
  /\ Call("getpass", NoLocals)
  /\ UNCHANGED <<table, held, blocks, kept, termVars, logVars, file>>

getpass_open ==
  /\ rpc = "getpass"
  /\ \/ \E f \in Numbers :
        /\ lowest(table, f) /\ ctty # "none"
        /\ table' = Put(table, f, ctty) /\ loc' = [loc EXCEPT !.m = f, !.s = f]
     \/ loc' = [loc EXCEPT !.m = 0, !.s = 2] /\ UNCHANGED table
  /\ Enter("prompt") /\ UNCHANGED <<held, blocks, kept, termVars, logVars, file>>

need_close == IF loc.m = loc.s THEN {loc.m} ELSE {}

(* Both ends of a pseudo-terminal have the settings of one terminal. *)
Terminal(x) == IF x = "master" THEN "slave" ELSE x
isatty(f) == Terminal(table[f]) \in DOMAIN echo

(* The prompt may be NULL. *)
getpass_prompt ==
  /\ rpc = "prompt"
  /\ \/ Unwind(blocks, need_close)
     \/ Enter("echo") /\ UNCHANGED <<table, held, blocks, kept, loc>>
  /\ UNCHANGED <<termVars, logVars, file>>

(* n tells whether the settings are to be restored, cap whether the echo   *)
(* was on; tcsetattr may fail.                                             *)
getpass_echo ==
  LET x == Terminal(table[loc.m])
  IN /\ rpc = "echo"
     /\ \/ /\ isatty(loc.m)
           /\ echo' \in {echo, Put(echo, x, FALSE)}
           /\ loc' = [loc EXCEPT !.n = 1, !.cap = IF echo[x] THEN 1 ELSE 0]
        \/ UNCHANGED <<echo, loc>>
     /\ Enter("read") /\ UNCHANGED <<table, held, blocks, kept, ctty, stuck, logVars, file>>

(* The line, or what of it came before an error, has been read.            *)
getpass_restore ==
  LET x == Terminal(table[loc.m])
  IN /\ rpc = "read"
     /\ IF loc.n = 0 THEN UNCHANGED <<echo, stuck>>
        ELSE \/ echo' = Put(echo, x, loc.cap = 1) /\ UNCHANGED stuck
             \/ UNCHANGED echo /\ stuck' = stuck \cup {x}
     /\ Enter("newline") /\ UNCHANGED <<table, held, blocks, kept, loc, ctty, logVars, file>>

(* With and without an error of write the descriptor is closed. *)
getpass_newline ==
  /\ rpc = "newline"
  /\ Unwind(blocks, need_close)
  /\ UNCHANGED <<termVars, logVars, file>>
-----------------------------------------------------------------------------

(* What openlog makes of a table: the old socket is closed before the new  *)
(* one is made, which may fail; a failure of connect is ignored.           *)
Closed == IF log_fd = -1 THEN table ELSE Put(table, log_fd, "free")
Reopen(id) ==
  /\ log_ident' = id
  /\ \/ log_fd' = -1 /\ table' = Closed
     \/ \E f \in Numbers : lowest(Closed, f) /\ log_fd' = f /\ table' = Put(Closed, f, "log")

openlog(id) ==
  /\ Once /\ Reopen(id)
  /\ ident' = IF log_fd' = -1 THEN "" ELSE id
  /\ UNCHANGED <<held, blocks, kept, termVars, file>>

closelog ==
  /\ Once
  /\ table' = Closed /\ log_fd' = -1 /\ ident' = ""
  /\ UNCHANGED <<held, blocks, kept, log_ident, termVars, file>>

(* Without a connection, also if that of openlog failed, the log is opened *)
(* anew without an identifier.                                             *)
vsyslog ==
  /\ Call("vsyslog", NoLocals)
  /\ IF log_fd = -1 THEN Reopen("") ELSE UNCHANGED <<table, log_fd, log_ident>>
  /\ UNCHANGED <<held, blocks, kept, ident, termVars, file>>

(* The message goes out if there is a connection. *)
send ==
  /\ rpc = "vsyslog"
  /\ Unwind(blocks, {})
  /\ UNCHANGED <<termVars, logVars, file>>
-----------------------------------------------------------------------------

(* Lists: n counts the blocks of the list that is being made, left the     *)
(* items to come.  opendir has a descriptor and a block, which closedir    *)
(* releases.                                                               *)
list_call ==
  /\ \E f \in {"scandir", "getifaddrs", "getcwd"}, i \in 0 .. MaxItems :
       (f = "getcwd" => i = 0) /\ Call(f, [NoLocals EXCEPT !.left = i])
  /\ UNCHANGED <<table, held, blocks, kept, termVars, logVars, file>>

scandir ==
  /\ rpc = "scandir"
  /\ \/ Unwind(blocks, {})
     \/ \E f \in Numbers :
        /\ lowest(table, f) /\ table' = Put(table, f, "dir")
        /\ blocks' = blocks + 2 /\ loc' = [loc EXCEPT !.m = f, !.cap = ListCap]
        /\ Enter("readdir") /\ UNCHANGED <<held, kept>>
  /\ UNCHANGED <<termVars, logVars, file>>

(* The label fail: the stream, the entries and the list go. *)
scandir_fail == Unwind(blocks - 2 - loc.n, {loc.m})

scandir_entry ==
  /\ rpc = "readdir" /\ loc.left > 0
  /\ \/ scandir_fail
     \/ /\ UNCHANGED blocks /\ loc' = [loc EXCEPT !.left = @ - 1]  \* filtered
        /\ UNCHANGED <<table, held, kept, rpc, resCalls>>
     \/ /\ blocks' = blocks + 1
        /\ loc' = [loc EXCEPT !.left = @ - 1, !.n = @ + 1, !.cap = IF loc.n = @ THEN 2 * @ ELSE @]
        /\ UNCHANGED <<table, held, kept, rpc, resCalls>>
  /\ UNCHANGED <<termVars, logVars, file>>

scandir_end ==
  /\ rpc = "readdir" /\ loc.left = 0
  /\ Leave(Drop(table, {loc.m}), blocks - 1, held, loc.n + 1)
  /\ UNCHANGED <<termVars, logVars, file>>

(* socket and SIOCGIFCONF. *)
getifaddrs ==
  /\ rpc = "getifaddrs"
  /\ \/ Unwind(blocks, {})
     \/ \E f \in Numbers :
        /\ lowest(table, f) /\ table' = Put(table, f, "socket") /\ loc' = [loc EXCEPT !.m = f]
        /\ Enter("interface") /\ UNCHANGED <<held, blocks, kept>>
  /\ UNCHANGED <<termVars, logVars, file>>

free_list == blocks - loc.n

(* The name and the three addresses of an entry stay NULL when there is no *)
(* memory or, for the addresses, nothing to tell.                          *)
getifaddrs_entry ==
  /\ rpc = "interface" /\ loc.left > 0
  /\ \/ Unwind(free_list, {loc.m})
     \/ /\ \E members \in Members :
             /\ blocks' = blocks + 1 + members
             /\ loc' = [loc EXCEPT !.left = @ - 1, !.n = @ + 1 + members]
        /\ UNCHANGED <<table, held, kept, rpc, resCalls>>
  /\ UNCHANGED <<termVars, logVars, file>>

getifaddrs_end ==
  /\ rpc = "interface" /\ loc.left = 0
  /\ Leave(Drop(table, {loc.m}), blocks, held, loc.n)
  /\ UNCHANGED <<termVars, logVars, file>>

(* getcwd(NULL, size). *)
getcwd ==
  /\ rpc = "getcwd"
  /\ \/ Unwind(blocks, {})
     \/ /\ blocks' = blocks + 1 /\ loc' = [loc EXCEPT !.cap = 1]
        /\ Enter("sys_getcwd") /\ UNCHANGED <<table, held, kept>>
  /\ UNCHANGED <<termVars, logVars, file>>

getcwd_try ==
  /\ rpc = "sys_getcwd"
  /\ \/ Leave(table, blocks, held, 1)
     \/ Unwind(blocks - 1, {})
     \/ /\ loc.cap * 2 <= MaxCap /\ loc' = [loc EXCEPT !.cap = @ * 2]
        /\ UNCHANGED <<table, held, blocks, kept, rpc, resCalls>>
  /\ UNCHANGED <<termVars, logVars, file>>
-----------------------------------------------------------------------------

Contents == <<"data", "data">>

(* m is pos, n the offset and s the end of the range.  Arguments that are  *)
(* refused change nothing.                                                 *)
posix_fallocate(offset, len) ==
  /\ Call("posix_fallocate", [NoLocals EXCEPT !.m = offset, !.n = offset, !.s = offset + len])
  /\ UNCHANGED <<table, held, blocks, kept, termVars, logVars, file>>

fallocate_grow ==
  /\ rpc = "posix_fallocate"
  /\ \/ Unwind(blocks, {}) /\ UNCHANGED file
     \/ /\ file' = [i \in DOMAIN file \cup 1 .. loc.s |-> IF i \in DOMAIN file THEN file[i] ELSE "zero"]
        /\ Enter("pwrite") /\ UNCHANGED <<table, held, blocks, kept, loc>>
  /\ UNCHANGED <<termVars, logVars>>

(* Zeroes are written over what is there; pwrite may write less than it is *)
(* asked for.                                                              *)
fallocate_write ==
  /\ rpc = "pwrite" /\ loc.m < loc.s
  /\ \E r \in 1 .. loc.s - loc.m :
       /\ file' = [i \in DOMAIN file |-> IF i \in loc.m + 1 .. loc.m + r THEN "zero" ELSE file[i]]
       /\ loc' = [loc EXCEPT !.m = @ + r]
  /\ UNCHANGED <<table, held, blocks, kept, rpc, resCalls, termVars, logVars>>

(* Also when pwrite fails.  The next call is about another file. *)
fallocate_end ==
  /\ rpc = "pwrite"
  /\ Unwind(blocks, {}) /\ file' = Contents
  /\ UNCHANGED <<termVars, logVars>>
-----------------------------------------------------------------------------

(* The client closes a descriptor of its own, or frees all it was given    *)
(* (freeifaddrs for a list of interfaces).                                 *)
close ==
  /\ Once
  /\ \E f \in Numbers : held[f] # "free" /\ table' = Put(table, f, "free") /\ held' = Put(held, f, "free")
  /\ UNCHANGED <<blocks, kept, termVars, logVars, file>>

freeifaddrs ==
  /\ rpc = "client" /\ kept > 0
  /\ blocks' = blocks - kept /\ kept' = 0
  /\ UNCHANGED <<table, held, rpc, loc, resCalls, termVars, logVars, file>>

(* Any of 0 to 2 may be closed, and the log may have been opened.          *)
ResInit ==
  /\ \E S \in SUBSET Std : held = [f \in Numbers |-> IF f \in S THEN "tty" ELSE "free"]
  /\ \E id \in Idents \cup {"closed"} :
       IF id = "closed" THEN table = held /\ log_fd = -1 /\ log_ident = "" /\ ident = ""
       ELSE /\ log_fd \in Numbers /\ lowest(held, log_fd) /\ log_ident = id /\ ident = id
            /\ table = Put(held, log_fd, "log")
  /\ blocks = 0 /\ kept = 0
  /\ ctty = "tty" /\ echo = [x \in {"tty", "slave"} |-> TRUE] /\ stuck = {}
  /\ file = Contents
  /\ rpc = "client" /\ loc = NoLocals /\ resCalls = 0

ResNext ==
  \/ pty_call \/ posix_openpt \/ grantpt \/ ptsname_r \/ do_openpty \/ forkpty_parent \/ forkpty_child
  \/ \E f \in {"daemon", "daemon_noclose"} : daemon(f)
  \/ daemon_fails \/ daemon_child
  \/ getpass \/ getpass_open \/ getpass_prompt \/ getpass_echo \/ getpass_restore \/ getpass_newline
  \/ (\E id \in Idents : openlog(id)) \/ closelog \/ vsyslog \/ send
  \/ list_call \/ scandir \/ scandir_entry \/ scandir_end
  \/ getifaddrs \/ getifaddrs_entry \/ getifaddrs_end \/ getcwd \/ getcwd_try
  \/ \E r \in Ranges : posix_fallocate(r[1], r[2])
  \/ fallocate_grow \/ fallocate_write \/ fallocate_end
  \/ close \/ freeifaddrs

ResSpec == ResInit /\ [][ResNext]_resVars
-----------------------------------------------------------------------------

(* Between calls the process has exactly the descriptors and the blocks    *)
(* that its calls gave to the client and the socket of the log, whatever   *)
(* failed and whichever of 0 to 2 were free: the child of forkpty has its  *)
(* terminal there and no other copy of it, a daemon /dev/null.             *)
NothingLeftOver ==
  rpc = "client" =>
    /\ \A f \in Numbers : table[f] = IF f = log_fd THEN "log" ELSE held[f]
    /\ blocks = kept

(* getpass leaves the echo of a terminal on, unless restoring it failed.   *)
EchoRestored == rpc = "client" => \A x \in DOMAIN echo : x \in stuck \/ echo[x]

(* A message goes to the socket of the log, and has the identifier of the  *)
(* openlog that made the connection.                                       *)
MessagesNamed == rpc = "vsyslog" /\ log_fd # -1 => table[log_fd] = "log" /\ log_ident = ident

(* posix_fallocate gives the file the length asked for, and keeps what     *)
(* lies outside the range (within it the code writes zeroes over the data). *)
FileKept ==
  rpc = "pwrite" =>
    /\ DOMAIN file = DOMAIN Contents \cup 1 .. loc.s
    /\ \A i \in DOMAIN Contents \ (loc.n + 1 .. loc.s) : file[i] = "data"

(* scandir stores entries within the room of its list. *)
EntriesFit == rpc = "readdir" => loc.n <= loc.cap

(* The functions above keep no descriptor, memory or terminal setting that *)
(* their caller does not know of.                                          *)
ResourcesExact == NothingLeftOver /\ EchoRestored /\ MessagesNamed /\ FileKept /\ EntriesFit
=============================================================================
