--------------------------------- MODULE Hosts ---------------------------------
(***************************************************************************)
(* Names and addresses of hosts: inet_pton.c, inet_ntop.c, inet_aton.c and *)
(* inet_addr.c, and netdb.c over /etc/hosts.                               *)
(*                                                                         *)
(* A text is a sequence of tokens: punctuation, numerals and other         *)
(* characters; no numeral follows another; its size is the number of       *)
(* tokens.  An IPv4 address has four octets, an IPv6 address NWords words, *)
(* 8 in the code.                                                          *)
(*                                                                         *)
(* The file is a sequence of lines, or Missing: an entry has the text of   *)
(* an address and names; other lines are comments, or a last line of       *)
(* HOSTS_MAX_LINE bytes or more without a newline.  It is edited by        *)
(* renaming a new one over it.  Clients keep the strings they pass to      *)
(* gethostbyname, whose result points to them.                             *)
(***************************************************************************)
EXTENDS Integers, Sequences, SequencesExt, FiniteSetsExt

CONSTANTS NWords,          \* at least 4
          Decimal, Hex,    \* the values strtol gives to numerals, by base
          AddressTexts, AddressWords,  \* for the functions of texts alone
          HostFiles, Nodes, Hosts4, Hosts6, Services, HostRooms,
          MaxHostCalls, MaxHostEdits

VARIABLES hostUse,        \* the functions the program uses: texts, the static entry, or the others
          hosts, hostEdits,
          he,             \* the static entry: h_name, h_addrtype and h_addr_list[0]
          he_name, he_addr4, he_addr6,
          pending,        \* a call of gethostbyname between its two attempts, or <<>>
          answer,         \* the last call and its result, or <<>>
          infos, allocated,  \* results of getaddrinfo not freed, and blocks allocated
          good,           \* the entry of the last static lookup that succeeded, or <<>>
          hostCalls

hostVars == <<hostUse, hosts, hostEdits, he, he_name, he_addr4, he_addr6,
              pending, answer, infos, allocated, good, hostCalls>>

(* Op of a value that is computed once. *)
Of(v, Op(_)) == CHOOSE r \in {Op(x) : x \in {v}} : TRUE

At(s, i) == IF i <= Len(s) THEN s[i] ELSE "end"

(* The value at i, and the place behind it: 0 and i if no numeral is there. *)
strtol(s, i, numerals) ==
  LET j == CHOOSE k \in i .. Len(s) + 1 : At(s, k) # " " /\ \A l \in i .. k - 1 : s[l] = " "
  IN IF At(s, j) \in DOMAIN numerals THEN [val |-> numerals[s[j]], end |-> j + 1] ELSE [val |-> 0, end |-> i]

None == <<>>

(* From place i on: four octets, with a dot behind each but the last, or   *)
(* None.                                                                   *)
parse_ipv4(s, i) ==
  LET Octet(acc, k) ==
        LET Put(n) == IF n.val \in 0 .. 255 /\ At(s, n.end) \in (IF k < 4 THEN {"."} ELSE {"end", " "})
                      THEN [at |-> n.end + 1, octets |-> Append(acc.octets, n.val)]
                      ELSE [at |-> 0, octets |-> None]
        IN IF acc.at = 0 THEN acc ELSE Of(strtol(s, acc.at, Decimal), Put)
  IN FoldLeft(Octet, [at |-> i, octets |-> <<>>], <<1, 2, 3, 4>>).octets

(* One round of the loop over the groups: the words so far, the number of  *)
(* words before the double colon (-1 without one), and the place in the    *)
(* text, 0 once the text is refused.  After a dot the rest is read as an   *)
(* IPv4 address from the dot on, whose first octet is therefore 0.         *)
Refused == [words |-> None, zpos |-> -1, at |-> 0]

Word(s, g, n) ==
  LET words == Append(g.words, n.val)
      v4 == parse_ipv4(s, n.end)
  IN CASE n.val \notin 0 .. 65535 -> Refused
       [] n.val \in 0 .. 65535 /\ At(s, n.end) = "." ->
            IF Len(words) > NWords - 2 \/ v4 = None THEN Refused
            ELSE [g EXCEPT !.words = words \o <<v4[1] * 256 + v4[2], v4[3] * 256 + v4[4]>>, !.at = Len(s) + 1]
       [] n.val \in 0 .. 65535 /\ At(s, n.end) = ":" -> [g EXCEPT !.words = words, !.at = n.end + 1]
       [] n.val \in 0 .. 65535 /\ At(s, n.end) = "end" -> [g EXCEPT !.words = words, !.at = n.end]
       [] OTHER -> Refused

Round(s, g) ==
  CASE g.at = 0 \/ g.at > Len(s) \/ Len(g.words) = NWords -> g
    [] g.at \in 1 .. Len(s) /\ Len(g.words) < NWords /\ s[g.at] = ":" ->
         IF g.zpos # -1 \/ At(s, g.at + 1) = ":" THEN Refused
         ELSE [g EXCEPT !.zpos = Len(g.words), !.at = @ + 1]
    [] OTHER -> Of(strtol(s, g.at, Hex), LAMBDA n : Word(s, g, n))

(* Every round consumes a token or refuses the text. *)
Groups(s, start) ==
  FoldLeft(LAMBDA g, token : Round(s, g), start, s)

(* The words behind the double colon move to the end. *)
Spread(s, g) ==
  IF g.at <= Len(s) \/ (g.zpos = -1 /\ Len(g.words) # NWords) THEN None
  ELSE IF g.zpos = -1 THEN g.words
  ELSE SubSeq(g.words, 1, g.zpos) \o [i \in 1 .. NWords - Len(g.words) |-> 0]
       \o SubSeq(g.words, g.zpos + 1, Len(g.words))

parse_ipv6(s) ==
  LET leads == At(s, 1) = ":"
      start == [words |-> <<>>, zpos |-> IF leads THEN 0 ELSE -1, at |-> IF leads THEN 3 ELSE 1]
  IN IF leads /\ At(s, 2) # ":" THEN None ELSE Of(Groups(s, start), LAMBDA g : Spread(s, g))

(* The address, or None where the result is 0. *)
inet_pton(af, s) == IF af = "AF_INET" THEN parse_ipv4(s, 1) ELSE parse_ipv6(s)

inet_aton(s) == parse_ipv4(s, 1)
inet_addr(s) == IF inet_aton(s) = None THEN <<255, 255, 255, 255>> ELSE inet_aton(s)
-----------------------------------------------------------------------------

(* A numeral for a value; the values of addresses have one. *)
Numeral(numerals, v) == CHOOSE t \in DOMAIN numerals : numerals[t] = v
hex16(v) == Numeral(Hex, v)

inet_ntoa(a) == <<Numeral(Decimal, a[1]), ".", Numeral(Decimal, a[2]), ".",
                  Numeral(Decimal, a[3]), ".", Numeral(Decimal, a[4])>>

(* The first of the longest runs of zeros: where it starts, 0 if it is     *)
(* shorter than two, and its length.                                       *)
Longer(r, next) == IF r.cur > r.len THEN [base |-> next - r.cur, len |-> r.cur, cur |-> 0] ELSE [r EXCEPT !.cur = 0]

BestRun(w) ==
  LET Count(r, i) == IF w[i] = 0 THEN [r EXCEPT !.cur = @ + 1] ELSE Longer(r, i)
      Best(r) == IF r.len < 2 THEN [r EXCEPT !.base = 0] ELSE r
      all == FoldLeft(Count, [base |-> 0, len |-> 0, cur |-> 0], [i \in 1 .. NWords |-> i])
  IN Of(Of(all, LAMBDA r : Longer(r, NWords + 1)), Best)

AtEnd(run) == run.base # 0 /\ run.base + run.len = NWords + 1

(* A run at the end gets a third colon. *)
Text6(w, run) ==
  LET Put(p, i) ==
        CASE run.base = i -> p \o <<":", ":">>
          [] run.base # 0 /\ i \in run.base + 1 .. run.base + run.len - 1 -> p
          [] OTHER -> (IF i > 1 /\ Last(p) # ":" THEN Append(p, ":") ELSE p) \o <<hex16(w[i])>>
  IN FoldLeft(Put, <<>>, [i \in 1 .. NWords |-> i]) \o (IF AtEnd(run) THEN <<":">> ELSE <<>>)

inet_ntop(af, a, enough) ==
  CASE ~enough -> None
    [] enough /\ af = "AF_INET" -> inet_ntoa(a)
    [] OTHER -> Of(BestRun(a), LAMBDA run : Text6(a, run))
-----------------------------------------------------------------------------

(* What texts mean.  An IPv4 text has four decimal numerals with dots      *)
(* between them; an IPv6 text has hexadecimal numerals with colons between *)
(* them, NWords of them, or fewer with one double colon for the zeros.     *)
Fields(s, sep) ==
  FoldLeft(LAMBDA acc, t : IF t = sep THEN Append(acc, <<>>) ELSE [acc EXCEPT ![Len(acc)] = Append(@, t)],
           << <<>> >>, s)

Values(p, numerals, max) ==
  IF \A i \in DOMAIN p : Len(p[i]) = 1 /\ p[i][1] \in DOMAIN numerals /\ numerals[p[i][1]] \in 0 .. max
  THEN [i \in DOMAIN p |-> numerals[p[i][1]]] ELSE None

Quad(s) == Of(Fields(s, "."), LAMBDA p : IF Len(p) = 4 THEN Values(p, Decimal, 255) ELSE None)
GroupList(s) == Of(Fields(s, ":"), LAMBDA p : Values(p, Hex, 65535))

DoubleColons(s) == {i \in 1 .. Len(s) - 1 : s[i] = ":" /\ s[i + 1] = ":"}

(* The two sides of the double colon: a side without groups is empty. *)
Sides(left, right) ==
  LET Join(l, r) == IF (left # <<>> /\ l = None) \/ (right # <<>> /\ r = None) \/ Len(l) + Len(r) >= NWords THEN None
                    ELSE l \o [k \in 1 .. NWords - Len(l) - Len(r) |-> 0] \o r
  IN CHOOSE w \in {Join(l, r) : l \in {GroupList(left)}, r \in {GroupList(right)}} : TRUE

Words6(s) ==
  IF DoubleColons(s) = {} THEN Of(GroupList(s), LAMBDA w : IF Len(w) = NWords THEN w ELSE None)
  ELSE Of(Min(DoubleColons(s)), LAMBDA i : Sides(SubSeq(s, 1, i - 1), SubSeq(s, i + 2, Len(s))))

EndsInRun(w) == AtEnd(BestRun(w))

(* inet_pton reads every text that means an address as that address, and   *)
(* refuses an octet above 255, a second double colon, and too few groups.  *)
ReadsText(af, s, got) ==
  IF af = "AF_INET"
  THEN /\ Quad(s) # None => got = Quad(s)
       /\ Cardinality({i \in DOMAIN s : s[i] = "."}) # 3 => got = None
       /\ (\E i \in DOMAIN s : s[i] = "256" /\ \A j \in 1 .. i - 1 : s[j] # " ") => got = None
  ELSE /\ Words6(s) # None => got = Words6(s)
       /\ Cardinality(DoubleColons(s)) > 1 /\ "." \notin Range(s) => got = None
       /\ DoubleColons(s) = {} /\ "." \notin Range(s) /\ Cardinality({i \in DOMAIN s : s[i] = ":"}) < NWords - 1 => got = None

(* inet_ntop writes a text that means the address, with the zeros left out *)
(* where that is longest; a run of zeros at the end is left out of this.   *)
WritesText(af, a, text) ==
  IF af = "AF_INET" THEN Quad(text) = a
  ELSE ~EndsInRun(a) =>
         /\ Words6(text) = a
         /\ \A i, j \in 1 .. NWords : i < j /\ (\A k \in i .. j : a[k] = 0) =>
              DoubleColons(text) # {} /\ Len(text) <= 2 * (NWords - (j - i + 1)) + 1
-----------------------------------------------------------------------------

Missing == << [kind |-> "missing", addr |-> <<>>, names |-> <<>>] >>
Any4 == <<0, 0, 0, 0>>

(* netdb.c has the parsers of inet_pton.c once more. *)
node_ipv4(s) == parse_ipv4(s, 1)
node_ipv6(s) == parse_ipv6(s)

(* The lines a lookup reads: none if the file cannot be opened, and those  *)
(* before the one for which getline finds no memory.                       *)
Readable(f) == IF f = Missing THEN {<<>>} ELSE {SubSeq(f, 1, k) : k \in 0 .. Len(f)}
Faulty(f, lines) == f # Missing /\ lines # f

EntryAddr(l) == IF l.kind = "entry" THEN node_ipv4(l.addr) ELSE None

hosts_lookup(lines, node) ==
  LET hits == {i \in DOMAIN lines : node \in Range(lines[i].names) /\ EntryAddr(lines[i]) # None}
  IN IF hits = {} THEN None ELSE EntryAddr(lines[Min(hits)])

(* The first name of the first line with the address, which may have none. *)
hosts_reverse_lookup(lines, ip) ==
  LET hits == {i \in DOMAIN lines : EntryAddr(lines[i]) = ip}
  IN IF hits = {} THEN None
     ELSE IF lines[Min(hits)].names = <<>> THEN None ELSE Head(lines[Min(hits)].names)

(* An address is a literal, or what the file has; without a node it is     *)
(* the wildcard.                                                           *)
NoInfo == [family |-> "AF_UNSPEC", addr |-> None, port |-> 0]

Resolved(node, service, lines) ==
  LET six == node_ipv6(node)
      four == node_ipv4(node)
      found == hosts_lookup(lines, node)
      Info(family, addr) ==
        [family |-> family, addr |-> addr, port |-> IF service = -1 THEN 0 ELSE service % 65536]
  IN IF node = None THEN Info("AF_INET", Any4)
     ELSE IF six # None THEN Info("AF_INET6", six)
     ELSE IF four # None THEN Info("AF_INET", four)
     ELSE IF found # None THEN Info("AF_INET", found) ELSE NoInfo

(* The result and the blocks it takes: if one of the two calls of malloc   *)
(* fails it is none, the first block is freed when the second one fails.   *)
getaddrinfo(node, service, lines, memory) ==
  LET Gives(ret, i, n) == [ret |-> ret, info |-> i, allocated |-> n]
      Give(info) == IF (node = None /\ service = -1) \/ info = NoInfo THEN Gives("EAI_NONAME", NoInfo, 0)
                    ELSE IF ~memory THEN Gives("EAI_MEMORY", NoInfo, 0) ELSE Gives("0", info, 2)
  IN Of(Resolved(node, service, lines), Give)

getnameinfo(family, addr, port, enough) == [host |-> inet_ntop(family, addr, enough), serv |-> port]

PtrSize == 8
AddrSize(type) == IF type = "AF_INET" THEN 4 ELSE 16

(* The caller's entry, or None if its buffer is too small. *)
fill_hostent(name, type, addr, room) ==
  IF PtrSize + 2 * PtrSize + Len(name) + 1 + AddrSize(type) > room THEN None
  ELSE <<[name |-> name, type |-> type, addr |-> addr]>>
-----------------------------------------------------------------------------

Pointed(e) ==
  [name |-> IF e.h_name[1] = "client" THEN e.h_name[2] ELSE he_name,
   type |-> e.h_addrtype,
   addr |-> IF e.h_addr = "he_addr4" THEN he_addr4 ELSE he_addr6]

Answer(fn, arg, ret, files, fault, room) ==
  /\ answer' = [fn |-> fn, arg |-> arg, ret |-> ret, files |-> files, fault |-> fault, room |-> room]
  /\ hostCalls' = hostCalls + 1

Ready(use) == hostUse = use /\ pending = <<>> /\ hostCalls < MaxHostCalls

(* The static entry is filled and returned. *)
GiveEntry(h_name, name, type, addr, fn, arg, files, fault) ==
  /\ IF type = "AF_INET" THEN he_addr4' = addr /\ UNCHANGED he_addr6
                         ELSE he_addr6' = addr /\ UNCHANGED he_addr4
  /\ he' = [h_name |-> h_name, h_addrtype |-> type,
            h_addr |-> IF type = "AF_INET" THEN "he_addr4" ELSE "he_addr6"]
  /\ good' = [name |-> name, type |-> type, addr |-> addr]
  /\ Answer(fn, arg, <<good'>>, files, fault, 0)

(* gethostbyname and, with a room above 0, gethostbyname_r: what they do   *)
(* with an address.                                                        *)
ByName(name, type, addr, files, fault, room) ==
  \/ room = 0 /\ GiveEntry(<<"client", name>>, name, type, addr, "byname", name, files, fault)
  \/ /\ room > 0
     /\ Answer("byname", name, fill_hostent(name, type, addr, room), files, fault, room)
     /\ UNCHANGED <<he, he_addr4, he_addr6, good>>

gethostbyname(name, room) ==
  /\ Ready(IF room = 0 THEN "static" ELSE "caller")
  /\ \E lines \in Readable(hosts) :
       \E ip4 \in {hosts_lookup(lines, name)}, fault \in {Faulty(hosts, lines)} :
         IF ip4 # None
         THEN ByName(name, "AF_INET", ip4, {hosts}, fault, room) /\ UNCHANGED pending
         ELSE /\ pending' = [name |-> name, files |-> {hosts}, fault |-> fault, room |-> room]
              /\ UNCHANGED <<he, he_addr4, he_addr6, good, answer, hostCalls>>
  /\ UNCHANGED <<hostUse, hosts, hostEdits, he_name, infos, allocated>>

(* The second attempt, with getaddrinfo, whose result is freed. *)
gethostbyname_resolve ==
  /\ pending # <<>>
  /\ \E lines \in Readable(hosts), memory \in BOOLEAN :
       \E ai \in {getaddrinfo(pending.name, -1, lines, memory)} :
         LET files == pending.files \cup {hosts}
             fault == pending.fault \/ Faulty(hosts, lines) \/ ~memory
         IN
          /\ IF ai.ret = "0"
             THEN ByName(pending.name, ai.info.family, ai.info.addr, files, fault, pending.room)
             ELSE /\ Answer("byname", pending.name, None, files, fault, pending.room)
                  /\ UNCHANGED <<he, he_addr4, he_addr6, good>>
          /\ allocated' = IF ai.ret = "0" THEN allocated + ai.allocated - 2 ELSE allocated + ai.allocated
  /\ pending' = <<>>
  /\ UNCHANGED <<hostUse, hosts, hostEdits, he_name, infos>>

(* The name is the one in the file or else the text of the address. *)
NameOf(type, addr, lines) ==
  IF type = "AF_INET" /\ hosts_reverse_lookup(lines, addr) # None THEN hosts_reverse_lookup(lines, addr)
  ELSE getnameinfo(type, addr, 0, TRUE).host

(* The length is that of the type, or the call fails. *)
gethostbyaddr(type, addr) ==
  /\ Ready("static")
  /\ \E lines \in Readable(hosts) :
       \E name \in {NameOf(type, addr, lines)} :
          /\ he_name' = name
          /\ GiveEntry(<<"he_name">>, name, type, addr, "byaddr", <<type, addr>>, {hosts}, Faulty(hosts, lines))
  /\ UNCHANGED <<hostUse, hosts, hostEdits, pending, infos, allocated>>

gethostbyaddr_refused ==
  /\ Ready("static")
  /\ Answer("refused", None, None, {}, FALSE, 0)
  /\ UNCHANGED <<hostUse, hosts, hostEdits, he, he_name, he_addr4, he_addr6, pending, infos, allocated, good>>

gethostbyaddr_r(type, addr, room) ==
  /\ Ready("caller")
  /\ \E lines \in Readable(hosts) :
       Answer("byaddr", <<type, addr>>, fill_hostent(NameOf(type, addr, lines), type, addr, room),
              {hosts}, Faulty(hosts, lines), room)
  /\ UNCHANGED <<hostUse, hosts, hostEdits, he, he_name, he_addr4, he_addr6, pending, infos, allocated, good>>

GetAddrInfo(node, service) ==
  /\ Ready("caller")
  /\ \E lines \in Readable(hosts), memory \in BOOLEAN :
       \E r \in {getaddrinfo(node, service, lines, memory)} :
          /\ Answer("addrinfo", <<node, service>>, r, {hosts}, Faulty(hosts, lines) \/ ~memory, 0)
          /\ infos' = IF r.ret = "0" THEN Append(infos, r.info) ELSE infos
          /\ allocated' = allocated + r.allocated
  /\ UNCHANGED <<hostUse, hosts, hostEdits, he, he_name, he_addr4, he_addr6, pending, good>>

freeaddrinfo ==
  /\ infos # <<>>
  /\ infos' = Tail(infos)
  /\ allocated' = allocated - 2
  /\ UNCHANGED <<hostUse, hosts, hostEdits, he, he_name, he_addr4, he_addr6, pending, answer, good, hostCalls>>

(* The name of an address getaddrinfo gave. *)
GetNameInfo(enough) ==
  /\ Ready("caller") /\ infos # <<>>
  /\ LET a == Head(infos)
     IN Answer("nameinfo", <<a, enough>>, getnameinfo(a.family, a.addr, a.port, enough), {}, FALSE, 0)
  /\ UNCHANGED <<hostUse, hosts, hostEdits, he, he_name, he_addr4, he_addr6, pending, infos, allocated, good>>

EditHosts ==
  /\ hostUse # "text" /\ hostEdits < MaxHostEdits
  /\ hostEdits' = hostEdits + 1
  /\ hosts' \in HostFiles \ {hosts}
  /\ UNCHANGED <<hostUse, he, he_name, he_addr4, he_addr6, pending, answer, infos, allocated, good, hostCalls>>

(* Functions of texts and addresses alone. *)
Convert ==
  /\ hostUse = "text" /\ answer = <<>>
  /\ \/ \E af \in {"AF_INET", "AF_INET6"}, s \in AddressTexts : Answer("pton", <<af, s>>, inet_pton(af, s), {}, FALSE, 0)
     \/ \E s \in AddressTexts : Answer("addr", s, inet_addr(s), {}, FALSE, 0)
     \/ \E a \in [1 .. 4 -> {0, 1, 255}], e \in BOOLEAN :
          Answer("ntop", <<"AF_INET", a, e>>, inet_ntop("AF_INET", a, e), {}, FALSE, 0)
     \/ \E a \in [1 .. NWords -> AddressWords], e \in BOOLEAN :
          Answer("ntop", <<"AF_INET6", a, e>>, inet_ntop("AF_INET6", a, e), {}, FALSE, 0)
  /\ UNCHANGED <<hostUse, hosts, hostEdits, he, he_name, he_addr4, he_addr6, pending, infos, allocated, good>>
-----------------------------------------------------------------------------

Init ==
  /\ hostUse \in {"text", "static", "caller"}
  /\ hosts \in (IF hostUse = "text" THEN {Missing} ELSE HostFiles) /\ hostEdits = 0
  /\ he = [h_name |-> <<"he_name">>, h_addrtype |-> "AF_UNSPEC", h_addr |-> "he_addr4"]
  /\ he_name = <<>> /\ he_addr4 = Any4 /\ he_addr6 = [i \in 1 .. NWords |-> 0]
  /\ pending = <<>> /\ answer = <<>> /\ infos = <<>> /\ allocated = 0 /\ good = <<>> /\ hostCalls = 0

Next ==
  \/ \E n \in Nodes, room \in HostRooms \cup {0} : gethostbyname(n, room)
  \/ gethostbyname_resolve
  \/ \E a \in Hosts4 : gethostbyaddr("AF_INET", a) \/ \E room \in HostRooms : gethostbyaddr_r("AF_INET", a, room)
  \/ \E a \in Hosts6 : gethostbyaddr("AF_INET6", a) \/ \E room \in HostRooms : gethostbyaddr_r("AF_INET6", a, room)
  \/ gethostbyaddr_refused
  \/ \E n \in Nodes \cup {None}, s \in Services \cup {-1} : GetAddrInfo(n, s)
  \/ freeaddrinfo
  \/ \E e \in BOOLEAN : GetNameInfo(e)
  \/ EditHosts
  \/ Convert
-----------------------------------------------------------------------------

(* What the file says: the addresses of a name, by the first line that has *)
(* it, and the lines of an address.                                        *)
LinesOf(f, P(_)) == {i \in DOMAIN f : f[i].kind = "entry" /\ Quad(f[i].addr) # None /\ P(f[i])}
Addresses(n, f) ==
  LET has(l) == n \in Range(l.names)
  IN {Quad(f[i].addr) : i \in {j \in LinesOf(f, has) : \A k \in LinesOf(f, has) : j <= k}}

Literals(n) == (IF Quad(n) = None THEN {} ELSE {<<"AF_INET", Quad(n)>>})
               \cup (IF Words6(n) = None THEN {} ELSE {<<"AF_INET6", Words6(n)>>})
Known(n, files) == Literals(n) \cup {<<"AF_INET", a>> : a \in UNION {Addresses(n, f) : f \in files}}

TooSmall(room, name, type) == room > 0 /\ room < 25 + Len(name) + AddrSize(type)

(* gethostbyname gives the name asked for with an address the file had for *)
(* it during the call, or that it spells; NULL only if there is none, a    *)
(* call failed, or the buffer is too small.                                *)
ByNameExact ==
  answer # <<>> /\ answer.fn = "byname" =>
    IF answer.ret = None
    THEN \/ Known(answer.arg, answer.files) = {} \/ answer.fault
         \/ \E x \in Known(answer.arg, answer.files) : TooSmall(answer.room, answer.arg, x[1])
    ELSE /\ answer.ret[1].name = answer.arg /\ ~TooSmall(answer.room, answer.arg, answer.ret[1].type)
         /\ <<answer.ret[1].type, answer.ret[1].addr>> \in Known(answer.arg, answer.files)

(* gethostbyaddr gives the address asked for with the first name of its    *)
(* first line, or its text if that line has no name or there is none.      *)
ByAddrExact ==
  answer # <<>> /\ answer.fn = "byaddr" =>
    LET type == answer.arg[1]
        addr == answer.arg[2]
        has(l) == Quad(l.addr) = addr
        f == CHOOSE x \in answer.files : TRUE
        mine == IF type = "AF_INET" THEN LinesOf(f, has) ELSE {}
        name == answer.ret[1].name
        named == mine # {} /\ f[Min(mine)].names # <<>>
        names == UNION {Range(l.names) : l \in Range(f)} \cup {inet_ntop(type, addr, TRUE)}
    IN IF answer.ret = None THEN \E n \in names : TooSmall(answer.room, n, type)
       ELSE /\ answer.ret[1].type = type /\ answer.ret[1].addr = addr
            /\ ~TooSmall(answer.room, name, type)
            /\ \/ named /\ name = f[Min(mine)].names[1]
               \/ (~named \/ answer.fault) /\ WritesText(type, addr, name)

(* What a client reads through the result of the last static lookup that   *)
(* succeeded is what it was given, whatever lookups failed since then.     *)
EntryStays == good # <<>> => Pointed(he) = good

(* getaddrinfo gives an address of the node, and getnameinfo writes the    *)
(* address and the port it gave; no block is lost.                         *)
AddrInfoExact ==
  /\ allocated = 2 * Len(infos)
  /\ answer # <<>> /\ answer.fn = "addrinfo" /\ answer.ret.ret = "0" =>
       /\ answer.ret.info.port = IF answer.arg[2] = -1 THEN 0 ELSE answer.arg[2] % 65536
       /\ <<answer.ret.info.family, answer.ret.info.addr>> \in
            IF answer.arg[1] = None THEN {<<"AF_INET", Any4>>} ELSE Known(answer.arg[1], answer.files)
  /\ answer # <<>> /\ answer.fn = "nameinfo" /\ answer.arg[2] =>
       /\ WritesText(answer.arg[1].family, answer.arg[1].addr, answer.ret.host)
       /\ answer.ret.serv = answer.arg[1].port

(* Texts are read and written as what they mean, and what inet_ntop writes *)
(* inet_pton reads back, except a run of zeros at the end.                 *)
TextsExact ==
  answer # <<>> =>
    /\ answer.fn = "pton" => ReadsText(answer.arg[1], answer.arg[2], answer.ret)
    /\ answer.fn = "addr" => ReadsText("AF_INET", answer.arg, IF answer.ret = <<255, 255, 255, 255>> THEN Quad(answer.arg) ELSE answer.ret)
    /\ answer.fn = "ntop" /\ answer.arg[3] =>
         /\ WritesText(answer.arg[1], answer.arg[2], answer.ret)
         /\ (answer.arg[1] = "AF_INET6" /\ EndsInRun(answer.arg[2])) \/ inet_pton(answer.arg[1], answer.ret) = answer.arg[2]

(* The five: names, addresses and texts of hosts agree. *)
HostsExact == ByNameExact /\ ByAddrExact /\ EntryStays /\ AddrInfoExact /\ TextsExact
=============================================================================
