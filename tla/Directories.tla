----------------------------- MODULE Directories -----------------------------
(***************************************************************************)
(* Directories in which other processes make and remove files meanwhile:   *)
(* traversals of a tree (fts.c and ftw.c), and temporary files             *)
(* (tempfile.c).                                                           *)
(***************************************************************************)
EXTENDS Integers, Sequences, FiniteSets, SequencesExt, FiniteSetsExt

CONSTANTS Trees, News,      \* initial trees; entries that may be created
          MaxChanges,
          Callers, Names,   \* of temporary files
          MaxTries,         \* attempts of the loops, 100 in the code
          MaxTempCalls, MaxOthers

VARIABLES tree, changes,
          stable,           \* paths that have not been touched since the start
          api, phys, depth, \* the function, FTS_PHYSICAL or FTW_PHYS, FTW_DEPTH
          queue,            \* of fts: paths
          stack,            \* of nftw: frames
          calls,            \* the entries given to the program, in order
          ret               \* "none" until the traversal ends

VARIABLES maker, others,    \* the files; how many other processes have made
          fn, tpc,          \* caller -> its call, and its place in it
          template, tries,
          holds,            \* caller -> the files its calls gave it
          outcome,          \* caller -> how its last call ended
          tempCalls

walkVars == <<tree, changes, stable, api, phys, depth, queue, stack, calls, ret>>
tempVars == <<maker, others, fn, tpc, template, tries, holds, outcome, tempCalls>>
-----------------------------------------------------------------------------
(* A path is a sequence of names.  tree maps the paths that exist to what  *)
(* they are: a directory, one that cannot be opened ("locked"), a file, a  *)
(* link to a file, or a link to nothing ("dead").  Other processes remove  *)
(* and create entries between the steps of a traversal.  A step of nftw is *)
(* stat and the callback, opendir with the names readdir gives, or the     *)
(* return to the directory above.                                          *)
Root == <<"r">>
Exists(p) == p \in DOMAIN tree
Children(p) == {q \in DOMAIN tree : Len(q) = Len(p) + 1 /\ Front(q) = p}

(* What stat or lstat tells of a path. *)
Type(p) ==
  IF ~Exists(p) THEN "NS"
  ELSE IF tree[p] \in {"dir", "locked"} THEN "D"
  ELSE IF tree[p] = "file" THEN "F"
  ELSE IF phys THEN "SL"
  ELSE IF tree[p] = "link" THEN "F" ELSE "NS"

Called(p, type) == calls' = Append(calls, [path |-> p, type |-> type])
Level(p) == Len(p) - 1
-----------------------------------------------------------------------------

(* Remove an entry without children, or create one in a directory. *)
Change ==
  /\ ret = "none" /\ changes < MaxChanges
  /\ changes' = changes + 1
  /\ \/ \E p \in DOMAIN tree \ {Root} :
          /\ Children(p) = {}
          /\ tree' = [q \in DOMAIN tree \ {p} |-> tree[q]]
          /\ stable' = stable \ {p}
     \/ \E p \in News :
          /\ ~Exists(p) /\ Exists(Front(p)) /\ tree[Front(p)] = "dir"
          /\ tree' = [q \in DOMAIN tree \cup {p} |-> IF q = p THEN "file" ELSE tree[q]]
          /\ UNCHANGED stable
  /\ UNCHANGED <<api, phys, depth, queue, stack, calls, ret>>
-----------------------------------------------------------------------------

(* The next path of the queue; the children of a directory are added at    *)
(* its end.                                                                *)
fts_read ==
  LET p == Head(queue)
      d == Type(p) = "D" /\ tree[p] = "dir"
  IN /\ api = "fts" /\ ret = "none" /\ queue # <<>>
     /\ Called(p, IF Type(p) = "D" /\ ~d THEN "DNR" ELSE Type(p))
     /\ queue' = Tail(queue) \o (IF d THEN SetToSeq(Children(p)) ELSE <<>>)
     /\ UNCHANGED <<tree, changes, stable, api, phys, depth, stack, ret>>

(* Without memory the entry is lost, and some of its children are in the   *)
(* queue; the program is given NULL, as at the end, and closes.            *)
fts_read_nomem ==
  /\ api = "fts" /\ ret = "none" /\ queue # <<>>
  /\ queue' = <<>> /\ ret' = "ENOMEM"
  /\ UNCHANGED <<tree, changes, stable, api, phys, depth, stack, calls>>

fts_end ==
  /\ api = "fts" /\ ret = "none" /\ queue = <<>>
  /\ ret' = "0"
  /\ UNCHANGED <<tree, changes, stable, api, phys, depth, queue, stack, calls>>
-----------------------------------------------------------------------------

(* The frame of a call of do_nftw: its path, what stat said, the names     *)
(* that readdir has still to give, and its place.                          *)
Frame(p) == [path |-> p, type |-> "none", todo |-> {}, at |-> "stat"]
Top == Last(stack)
SetTop(f) == stack' = Append(Front(stack), f)
Walking(place) == api = "nftw" /\ ret = "none" /\ stack # <<>> /\ Top.at = place

(* stat, and the callback unless the directory comes after its contents;   *)
(* the root of a walk with FTW_DEPTH is given here too.  A callback that   *)
(* returns something else than 0 ends the walk.                            *)
nftw_type(p) == IF phys /\ Type(p) = "SL" /\ tree[p] = "dead" THEN "SLN" ELSE Type(p)

nftw_stat ==
  LET type == nftw_type(Top.path)
      given == ~depth \/ type # "D" \/ Level(Top.path) = 0
  IN /\ Walking("stat")
     /\ IF given THEN Called(Top.path, type) ELSE UNCHANGED calls
     /\ \/ /\ SetTop([Top EXCEPT !.type = type, !.at = IF type = "D" THEN "open" ELSE "done"])
           /\ UNCHANGED ret
        \/ given /\ ret' = "stopped" /\ stack' = <<>>
     /\ UNCHANGED <<tree, changes, stable, api, phys, depth, queue>>

nftw_opendir ==
  LET p == Top.path
  IN /\ Walking("open")
     /\ IF Exists(p) /\ tree[p] = "dir"
        THEN /\ SetTop([Top EXCEPT !.todo = Children(p), !.at = "read"])
             /\ UNCHANGED <<calls, ret>>
        ELSE /\ Called(p, "DNR")
             /\ \/ SetTop([Top EXCEPT !.at = "done"]) /\ UNCHANGED ret
                \/ ret' = "stopped" /\ stack' = <<>>
     /\ UNCHANGED <<tree, changes, stable, api, phys, depth, queue>>

(* The next name, in any order; memory for its path may be missing. *)
nftw_readdir ==
  /\ Walking("read") /\ Top.todo # {}
  /\ \/ \E c \in Top.todo :
          /\ stack' = Append(Append(Front(stack), [Top EXCEPT !.todo = @ \ {c}]), Frame(c))
          /\ UNCHANGED ret
     \/ ret' = "ENOMEM" /\ stack' = <<>>
  /\ UNCHANGED <<tree, changes, stable, api, phys, depth, queue, calls>>

(* Variant: a directory is given once more after its contents. *)
nftw_enddir_always ==
  /\ Walking("read") /\ Top.todo = {}
  /\ Called(Top.path, "DP")
  /\ SetTop([Top EXCEPT !.at = "done"])
  /\ UNCHANGED <<tree, changes, stable, api, phys, depth, queue, ret>>

nftw_enddir ==
  /\ Walking("read") /\ Top.todo = {}
  /\ IF depth THEN Called(Top.path, "DP") ELSE UNCHANGED calls
  /\ \/ SetTop([Top EXCEPT !.at = "done"]) /\ UNCHANGED ret
     \/ depth /\ ret' = "stopped" /\ stack' = <<>>
  /\ UNCHANGED <<tree, changes, stable, api, phys, depth, queue>>

nftw_return ==
  /\ Walking("done")
  /\ stack' = Front(stack)
  /\ ret' = IF Len(stack) = 1 THEN "0" ELSE ret
  /\ UNCHANGED <<tree, changes, stable, api, phys, depth, queue, calls>>
-----------------------------------------------------------------------------

WalkInit ==
  /\ tree \in Trees /\ changes = 0 /\ stable = DOMAIN tree
  /\ api \in {"fts", "nftw"}
  /\ phys \in BOOLEAN /\ depth \in (IF api = "nftw" THEN BOOLEAN ELSE {FALSE})
  /\ queue = IF api = "fts" THEN <<Root>> ELSE <<>>
  /\ stack = IF api = "nftw" THEN <<Frame(Root)>> ELSE <<>>
  /\ calls = <<>> /\ ret = "none"

WalkNext ==
  \/ Change
  \/ fts_read \/ fts_read_nomem \/ fts_end
  \/ nftw_stat \/ nftw_opendir \/ nftw_readdir \/ nftw_enddir \/ nftw_return
-----------------------------------------------------------------------------

Given(p) == LET C(c) == c.path = p IN SelectSeq(calls, C)
Opened(p) == \A i \in 1 .. Len(p) - 1 : tree[SubSeq(p, 1, i)] = "dir"

(* How a path that was there all the time is given. *)
Expected(p) ==
  LET early == ~depth \/ Level(p) = 0
  IN CASE api = "fts" -> <<IF tree[p] = "locked" THEN "DNR" ELSE Type(p)>>
       [] api # "fts" /\ tree[p] = "dir" -> (IF early THEN <<"D">> ELSE <<>>) \o (IF depth THEN <<"DP">> ELSE <<>>)
       [] api # "fts" /\ tree[p] = "locked" -> (IF early THEN <<"D">> ELSE <<>>) \o <<"DNR">>
       [] OTHER -> <<nftw_type(p)>>

(* A traversal that ends without an error has given every entry that was   *)
(* there all the time as often as it should, whatever others did; a        *)
(* directory comes before its contents, or after them with FTW_DEPTH; and  *)
(* fts_read goes from level to level.                                      *)
WalkExact ==
  /\ ret = "0" =>
       /\ \A p \in stable : Opened(p) =>
            LET g == Given(p) IN [i \in DOMAIN g |-> g[i].type] = Expected(p)
       /\ api = "nftw" /\ depth =>
            \A i \in DOMAIN calls : Level(calls[i].path) > 0 =>
              \E j \in i + 1 .. Len(calls) : calls[j] = [path |-> Front(calls[i].path), type |-> "DP"]
  /\ ~depth => \A i \in DOMAIN calls : Level(calls[i].path) > 0 =>
                \E j \in 1 .. i - 1 : calls[j].path = Front(calls[i].path)
  /\ api = "fts" => \A i \in 1 .. Len(calls) - 1 : Level(calls[i].path) <= Level(calls[i + 1].path)
-----------------------------------------------------------------------------
(* Callers make temporary files in one directory.  A name is "X" for the   *)
(* template that ends in XXXXXX, or one of Names; maker[n] is the caller   *)
(* that made the file n, "other", or "none" if there is no such file.      *)
To(c, l) == tpc' = [tpc EXCEPT ![c] = l]

Finish(c, how) ==
  /\ To(c, "idle")
  /\ outcome' = [outcome EXCEPT ![c] = how]

Begin(c, f) ==
  /\ tpc[c] = "idle" /\ tempCalls < MaxTempCalls
  /\ tempCalls' = tempCalls + 1
  /\ fn' = [fn EXCEPT ![c] = f]
  /\ template' = [template EXCEPT ![c] = "X"]
  /\ tries' = [tries EXCEPT ![c] = 0]
  /\ outcome' = [outcome EXCEPT ![c] = "none"]
  /\ To(c, "replace")
  /\ UNCHANGED <<maker, others, holds>>

mkstemp(c) == Begin(c, "mkstemp")
mkostemp(c) == Begin(c, "mkostemp")
mkostemps(c) == Begin(c, "mkostemps")
mkdtemp(c) == Begin(c, "mkdtemp")
tmpfile(c) == Begin(c, "tmpfile")
tmpnam(c) == Begin(c, "tmpnam")
tempnam(c) == Begin(c, "tempnam")

(* The six random characters.  replace_x wants to see XXXXXX, which after  *)
(* the first attempt are there no more; replace_x_at of mkostemps does not *)
(* look.                                                                   *)
replace_x(c) ==
  /\ tpc[c] = "replace"
  /\ IF fn[c] # "mkostemps" /\ template[c] # "X"
     THEN Finish(c, "EINVAL") /\ UNCHANGED template
     ELSE /\ \E n \in Names : template' = [template EXCEPT ![c] = n]
          /\ To(c, "create") /\ UNCHANGED outcome
  /\ UNCHANGED <<maker, others, fn, tries, holds, tempCalls>>

Unnamed(c) == fn[c] \in {"tmpfile", "tmpnam", "tempnam"}

(* A new file: it is the result, or its name is removed next. *)
Made(c, n) ==
  /\ maker' = [maker EXCEPT ![n] = c]
  /\ IF Unnamed(c) THEN To(c, "unlink") /\ UNCHANGED <<outcome, holds>>
     ELSE Finish(c, "made") /\ holds' = [holds EXCEPT ![c] = @ \cup {n}]

(* Variant: a file that exists is opened. *)
CreateShared(c) ==
  /\ tpc[c] = "create"
  /\ Made(c, template[c])
  /\ UNCHANGED <<others, fn, template, tries, tempCalls>>

(* open with O_CREAT and O_EXCL, or mkdir: a name that is taken is tried   *)
(* again until MaxTries, another error ends the call.                      *)
Create(c) ==
  LET n == template[c]
  IN /\ tpc[c] = "create"
     /\ \/ maker[n] = "none" /\ Made(c, n) /\ UNCHANGED tries
        \/ /\ maker[n] # "none"
           /\ tries' = [tries EXCEPT ![c] = @ + 1]
           /\ IF tries[c] + 1 = MaxTries THEN Finish(c, "EEXIST") ELSE To(c, "replace") /\ UNCHANGED outcome
           /\ UNCHANGED <<maker, holds>>
        \/ Finish(c, "EIO") /\ UNCHANGED <<maker, holds, tries>>
     /\ UNCHANGED <<others, fn, template, tempCalls>>

(* The name is removed; tmpfile keeps the descriptor, unless there is no   *)
(* memory for the stream.                                                  *)
Unlink(c) ==
  /\ tpc[c] = "unlink"
  /\ maker' = [maker EXCEPT ![template[c]] = "none"]
  /\ \/ Finish(c, IF fn[c] = "tmpfile" THEN "unnamed" ELSE "name")
     \/ fn[c] = "tmpfile" /\ Finish(c, "ENOMEM")
  /\ UNCHANGED <<others, fn, template, tries, holds, tempCalls>>

Other ==
  /\ others < MaxOthers
  /\ others' = others + 1
  /\ \E n \in Names : maker[n] = "none" /\ maker' = [maker EXCEPT ![n] = "other"]
  /\ UNCHANGED <<fn, tpc, template, tries, holds, outcome, tempCalls>>

TempInit ==
  /\ maker = [n \in Names |-> "none"] /\ others = 0
  /\ fn = [c \in Callers |-> "none"] /\ tpc = [c \in Callers |-> "idle"]
  /\ template = [c \in Callers |-> "X"] /\ tries = [c \in Callers |-> 0]
  /\ holds = [c \in Callers |-> {}] /\ outcome = [c \in Callers |-> "none"]
  /\ tempCalls = 0

TempNext ==
  \/ \E c \in Callers : \/ mkstemp(c) \/ mkostemp(c) \/ mkostemps(c) \/ mkdtemp(c)
                        \/ tmpfile(c) \/ tmpnam(c) \/ tempnam(c)
                        \/ replace_x(c) \/ Create(c) \/ Unlink(c)
  \/ Other
-----------------------------------------------------------------------------

(* A file a caller was given was made by its own call and by no other;     *)
(* files of other processes stay; between calls there are no files but     *)
(* those that were given or are others': a call that fails, or gives a     *)
(* name or an unnamed file, leaves none; and only mkostemps, which tries   *)
(* again, can find all its names taken.                                    *)
TempExact ==
  /\ \A c \in Callers : \A n \in holds[c] : maker[n] = c
  /\ Cardinality({n \in Names : maker[n] = "other"}) = others
  /\ \A c \in Callers : \A n \in Names :
       maker[n] = c => n \in holds[c] \/ (tpc[c] = "unlink" /\ template[c] = n)
  /\ \A c \in Callers : outcome[c] = "EEXIST" => fn[c] = "mkostemps" /\ tries[c] = MaxTries
=============================================================================
