------------------------------ MODULE StreamProofs -------------------------------
(***************************************************************************)
(* Streams of any kind, with files, requests and buffers of any size.      *)
(* Where the client is and what it has written is spread over the file,    *)
(* the offset of the descriptor and the buffer, and the buffer means       *)
(* different things when it is read from and when it is written to: the    *)
(* invariant says what, for each kind of stream, until a call reports a    *)
(* failure.                                                                *)
(***************************************************************************)
EXTENDS Stdio, TLAPS

Octets == Bytes \cup {0}

Readers == {"fread", "fgetc", "fgets", "getline"}

(* The labels that a call reaches only through flush_buffer. *)
AfterFlush == {"seek", "tell", "sync", "close", "reopen", "rewind"}

IsCall(c) ==
  c = [op |-> c.op, at |-> c.at, ok |-> c.ok, bad |-> c.bad, left |-> c.left, n |-> c.n, cap |-> c.cap, res |-> c.res]

StreamTypes ==
  /\ kind \in {"fd", "cookie", "mem"} /\ access \in {"r", "w", "a", "r+"}
  /\ mode \in {"none", "full", "line"}
  /\ file \in Seq(Octets) /\ off \in Nat
  /\ buf \in Seq(Octets) /\ bufsize \in Nat /\ Len(buf) <= bufsize
  /\ bpos \in 0 .. Len(buf)
  /\ err \in BOOLEAN /\ eof \in BOOLEAN /\ told \in BOOLEAN
  /\ ungot \in Seq(Octets) /\ Len(ungot) <= 1
  /\ want \in Seq(Octets) /\ cur \in Int
  /\ seen = [from |-> seen.from, data |-> seen.data]
  /\ seen.from \in Int /\ seen.data \in Seq(Octets)
  /\ IsCall(call)

(* Only a descriptor has line buffering, and a stream that goes both ways  *)
(* or has callbacks has no buffer.                                         *)
Buffering ==
  /\ mode = "line" => kind = "fd"
  /\ kind = "cookie" \/ (kind = "fd" /\ access = "r+") => bufsize = 0

(* Where flush_buffer was called, and where it goes on. *)
Flushing ==
  \/ call.op = "fwrite" /\ call.ok = "write" /\ call.bad = "short"
  \/ call.op = "fseek" /\ call.ok = "seek" /\ call.bad = "fail"
  \/ call.op = "ftell" /\ call.ok = "tell" /\ call.bad = "fail"
  \/ call.op = "fflush" /\ call.ok = "sync" /\ call.bad = "fail"
  \/ call.op = "rewind" /\ call.ok = "rewind" /\ call.bad = "rewind"
  \/ call.op = "fclose" /\ call.ok = "close" /\ call.bad = "close"
  \/ call.op = "freopen" /\ call.ok = "reopen" /\ call.bad = "reopen"

(* Which call is at which label. *)
Place ==
  \/ call.at = "idle" /\ call.op \in {"none", "return", "closed"}
  \/ call.at = "flush" /\ Flushing
  \/ call.at = "seek" /\ call.op = "fseek"
  \/ call.at = "tell" /\ call.op = "ftell"
  \/ call.at = "sync" /\ call.op = "fflush"
  \/ call.at = "rewind" /\ call.op = "rewind"
  \/ call.at = "close" /\ call.op = "fclose"
  \/ call.at = "reopen" /\ call.op = "freopen"
  \/ call.at = "fail" /\ call.op \in {"fseek", "ftell", "fflush", "getline"}
  \/ call.at \in {"write", "short"} /\ call.op = "fwrite"
  \/ call.at \in {"read", "end"} /\ call.op \in Readers
  \/ call.at = "char" /\ call.op \in Readers \ {"fread"}
  \/ call.at = "store" /\ call.op = "getline"

(* What calls take with them from label to label. *)
Locals ==
  /\ call.op = "fseek" => call.n[1] \in Int
  /\ call.op = "rewind" => kind # "mem"
  /\ call.op = "fwrite" => access # "r" /\ call.left \in Seq(Octets) /\ call.cap \in Nat
  /\ call.op \in Readers =>
       /\ access \notin {"w", "a"}
       /\ call.left \in Seq(Octets) /\ call.n \in Nat /\ call.cap \in Nat
  /\ call.op = "getline" =>
       /\ call.n = 1 /\ call.cap > 0
       /\ call.at = "store" => Len(call.left) <= call.cap
       /\ call.at \notin {"store", "fail"} => Len(call.left) < call.cap

(* A memory stream is its buffer.  What is written to a file is in the     *)
(* file and then in the buffer; what is read from it is in the buffer      *)
(* ahead of the client, and just before the offset in the file.            *)
Meaning ==
  \/ kind = "mem" /\ buf = want /\ bpos = cur
  \/ /\ kind # "mem" /\ Writing
     /\ want = Overlay(file, IF access = "a" THEN Len(file) ELSE off, buf)
     /\ cur = (IF access = "a" /\ buf # <<>> THEN Len(file) ELSE off) + Len(buf)
  \/ /\ kind # "mem" /\ ~Writing
     /\ want = file
     /\ cur + Ahead = off
     /\ buf # <<>> => Len(buf) <= off /\ off <= Len(file) /\ buf = Slice(file, off - Len(buf), Len(buf))

NoLineHeld == mode = "line" /\ Writing /\ call.at # "flush" => \A i \in 1 .. Len(buf) : buf[i] # NL

(* What open_memstream's owner sees, once it is due. *)
Shown ==
  kind = "mem" /\ access = "w" =>
    /\ want = <<>> => pub = <<>>
    /\ \/ call.at \in {"close", "sync"} \/ call.op = "closed"
       \/ call.op = "return" /\ call.left = <<"fflush">>
       => pub = IF want = <<>> THEN <<>> ELSE <<want>>

Sound ==
  /\ Meaning
  /\ call.at \in AfterFlush => kind = "mem" \/ buf = <<>>
  /\ seen.data = Slice(want, seen.from, Len(seen.data))
  /\ NoLineHeld
  /\ Shown

StreamInv == StreamTypes /\ Buffering /\ Place /\ Locals /\ (err \/ told \/ Sound)

(* Facts about sequences that the steps below cite.  A length is a number. *)
LEMMA LengthNat == ASSUME NEW d \in Seq(Octets) PROVE Len(d) \in Nat
OBVIOUS

(* The empty sequence is the one of length 0. *)
LEMMA EmptyBytes == <<>> \in Seq(Octets) /\ Len(<<>>) = 0 /\ \A d \in Seq(Octets) : Len(d) = 0 => d = <<>>
OBVIOUS

(* A byte of a file is a byte. *)
LEMMA ByteAt == ASSUME NEW d \in Seq(Octets), NEW i \in 1 .. Len(d) PROVE d[i] \in Octets
OBVIOUS

(* What clients write may be in a file. *)
LEMMA BytesAreOctets == ASSUME NEW d \in Seq(Bytes) PROVE d \in Seq(Octets)
BY DEF Octets

(* Sequences that agree everywhere are equal. *)
LEMMA SameBytes ==
  ASSUME NEW d \in Seq(Octets), NEW e \in Seq(Octets), Len(d) = Len(e), \A i \in 1 .. Len(d) : d[i] = e[i]
  PROVE  d = e
OBVIOUS

(* One sequence after another. *)
LEMMA Joined ==
  ASSUME NEW d \in Seq(Octets), NEW e \in Seq(Octets)
  PROVE  /\ d \o e \in Seq(Octets) /\ Len(d \o e) = Len(d) + Len(e)
         /\ \A i \in 1 .. Len(d) + Len(e) : (d \o e)[i] = IF i <= Len(d) THEN d[i] ELSE e[i - Len(d)]
OBVIOUS

(* Nothing added to a sequence. *)
LEMMA JoinedToNone == ASSUME NEW d \in Seq(Octets) PROVE d \o <<>> = d /\ <<>> \o d = d
OBVIOUS

(* A part of a sequence. *)
LEMMA PartBytes ==
  ASSUME NEW d, NEW a \in Int, NEW b \in Int, \A i \in a .. b : d[i] \in Octets
  PROVE  /\ SubSeq(d, a, b) \in Seq(Octets)
         /\ Len(SubSeq(d, a, b)) = IF a <= b THEN b - a + 1 ELSE 0
         /\ \A i \in 1 .. b - a + 1 : SubSeq(d, a, b)[i] = d[a + i - 1]
OBVIOUS

(* The whole of it. *)
LEMMA WholePart == ASSUME NEW d \in Seq(Octets) PROVE SubSeq(d, 1, Len(d)) = d
OBVIOUS

(* A function on 1 to m is a sequence. *)
LEMMA FunctionIsSeq ==
  ASSUME NEW S, NEW m \in Nat, NEW f \in [1 .. m -> S]
  PROVE  f \in Seq(S) /\ Len(f) = m
OBVIOUS

(* The larger of two numbers. *)
LEMMA GreaterNat ==
  ASSUME NEW m \in Nat, NEW n \in Int
  PROVE  /\ Greater(m, n) \in Nat /\ Greater(m, n) >= m /\ Greater(m, n) >= n
         /\ Greater(m, n) = m \/ Greater(m, n) = n
BY DEF Greater

(* What a write at an offset leaves: its bytes, those there were, and      *)
(* zeros in a gap.                                                         *)
LEMMA OverlayProperties ==
  ASSUME NEW d \in Seq(Octets), NEW n \in Int, NEW s \in Seq(Octets)
  PROVE  /\ Overlay(d, n, s) \in Seq(Octets)
         /\ s # <<>> =>
              /\ Len(Overlay(d, n, s)) = Greater(Len(d), n + Len(s))
              /\ \A i \in 1 .. Greater(Len(d), n + Len(s)) :
                   Overlay(d, n, s)[i] = IF i > n /\ i <= n + Len(s) THEN s[i - n]
                                         ELSE IF i <= Len(d) THEN d[i] ELSE 0
<1>1. CASE s = <<>>
  BY <1>1 DEF Overlay
<1>2. CASE s # <<>>
  <2> DEFINE m == Greater(Len(d), n + Len(s))
             At(i) == IF i > n /\ i <= n + Len(s) THEN s[i - n] ELSE IF i <= Len(d) THEN d[i] ELSE 0
  <2>1. Len(d) \in Nat /\ Len(s) \in Nat
    BY LengthNat
  <2>2. m \in Nat
    BY <2>1 DEF Greater
  <2>3. ASSUME NEW i \in 1 .. m PROVE At(i) \in Octets
    <3>1. CASE i > n /\ i <= n + Len(s)
      <4>1. i - n \in 1 .. Len(s)
        BY <2>1, <2>2, <3>1
      <4> QED BY <3>1, <4>1, ByteAt
    <3>2. CASE ~(i > n /\ i <= n + Len(s)) /\ i <= Len(d)
      <4>1. i \in 1 .. Len(d)
        BY <2>1, <2>2, <3>2
      <4> QED BY <3>2, <4>1, ByteAt
    <3>3. CASE ~(i > n /\ i <= n + Len(s)) /\ ~(i <= Len(d))
      BY <3>3 DEF Octets
    <3> QED BY <3>1, <3>2, <3>3
  <2> HIDE DEF m
  <2>4. [i \in 1 .. m |-> At(i)] \in [1 .. m -> Octets]
    BY <2>3
  <2> HIDE DEF At
  <2>5. [i \in 1 .. m |-> At(i)] \in Seq(Octets) /\ Len([i \in 1 .. m |-> At(i)]) = m
    BY <2>2, <2>4, FunctionIsSeq
  <2>6. Overlay(d, n, s) = [i \in 1 .. m |-> At(i)]
    BY <1>2, Zenon DEF Overlay, m, At
  <2> QED BY <2>5, <2>6, Zenon DEF At, m
<1> QED BY <1>1, <1>2

(* Two writes, one after the other, are one. *)
LEMMA OverlayJoin ==
  ASSUME NEW d \in Seq(Octets), NEW n \in Nat, NEW s \in Seq(Octets), NEW t \in Seq(Octets)
  PROVE  Overlay(Overlay(d, n, s), n + Len(s), t) = Overlay(d, n, s \o t)
<1>0. Len(s) \in Nat /\ Len(t) \in Nat /\ Len(d) \in Nat /\ n \in Int
  BY LengthNat
<1>1. CASE s = <<>>
  <2>1. s \o t = t /\ Overlay(d, n, s) = d /\ n + Len(s) = n
    BY <1>1, JoinedToNone, EmptyBytes DEF Overlay
  <2> QED BY <2>1
<1>2. CASE t = <<>>
  <2>1. s \o t = s
    BY <1>2, JoinedToNone
  <2> QED BY <1>2, <2>1 DEF Overlay
<1>3. CASE s # <<>> /\ t # <<>>
  <2> DEFINE e == Overlay(d, n, s)
             u == s \o t
  <2>1. e \in Seq(Octets) /\ Len(e) = Greater(Len(d), n + Len(s))
    BY <1>3, OverlayProperties
  <2>2. u \in Seq(Octets) /\ Len(u) = Len(s) + Len(t) /\ u # <<>>
    <3>1. u \in Seq(Octets) /\ Len(u) = Len(s) + Len(t)
      BY Joined
    <3> QED BY <1>0, <1>3, <3>1, EmptyBytes
  <2>3. Len(e) \in Nat /\ Greater(Len(e), n + Len(s) + Len(t)) = Greater(Len(d), n + (Len(s) + Len(t)))
    BY <1>0, <2>1 DEF Greater
  <2>4. ASSUME NEW i \in 1 .. Greater(Len(d), n + (Len(s) + Len(t)))
        PROVE  Overlay(e, n + Len(s), t)[i] = Overlay(d, n, u)[i]
    <3>0. i \in Nat /\ i > 0
      <4>1. Greater(Len(d), n + (Len(s) + Len(t))) \in Nat
        BY <1>0 DEF Greater
      <4> QED BY <4>1
    <3>1. Overlay(e, n + Len(s), t)[i] = IF i > n + Len(s) /\ i <= n + Len(s) + Len(t) THEN t[i - (n + Len(s))]
                                         ELSE IF i <= Len(e) THEN e[i] ELSE 0
      <4>1. n + Len(s) \in Int /\ i \in 1 .. Greater(Len(e), n + Len(s) + Len(t))
        BY <1>0, <2>3
      <4> HIDE DEF e
      <4> QED BY <1>3, <2>1, <4>1, OverlayProperties
    <3>2. Overlay(d, n, u)[i] = IF i > n /\ i <= n + Len(u) THEN u[i - n] ELSE IF i <= Len(d) THEN d[i] ELSE 0
      <4>1. i \in 1 .. Greater(Len(d), n + Len(u))
        BY <2>2
      <4> HIDE DEF u
      <4> QED BY <1>0, <2>2, <4>1, OverlayProperties, Zenon
    <3>3. i <= Len(e) => e[i] = IF i > n /\ i <= n + Len(s) THEN s[i - n] ELSE IF i <= Len(d) THEN d[i] ELSE 0
      <4> SUFFICES ASSUME i <= Len(e) PROVE e[i] = IF i > n /\ i <= n + Len(s) THEN s[i - n] ELSE IF i <= Len(d) THEN d[i] ELSE 0
        OBVIOUS
      <4>1. i \in 1 .. Greater(Len(d), n + Len(s))
        BY <2>1, <2>3, <3>0
      <4> QED BY <1>3, <4>1, OverlayProperties
    <3>4. i > n /\ i <= n + Len(u) => u[i - n] = IF i - n <= Len(s) THEN s[i - n] ELSE t[i - n - Len(s)]
      <4> SUFFICES ASSUME i > n, i <= n + Len(u) PROVE u[i - n] = IF i - n <= Len(s) THEN s[i - n] ELSE t[i - n - Len(s)]
        OBVIOUS
      <4>1. i - n \in 1 .. Len(s) + Len(t)
        BY <1>0, <2>2, <3>0
      <4> QED BY <4>1, Joined
    <3>5. Len(e) >= Len(d) /\ Len(e) >= n + Len(s) /\ (Len(e) = Len(d) \/ Len(e) = n + Len(s))
      BY <1>0, <2>1, GreaterNat
    <3>6. CASE i > n + Len(s) /\ i <= n + Len(s) + Len(t)
      <4>1. i > n /\ i <= n + Len(u) /\ ~(i - n <= Len(s)) /\ i - (n + Len(s)) = i - n - Len(s)
        BY <1>0, <2>2, <3>0, <3>6
      <4> QED BY <3>1, <3>2, <3>4, <3>6, <4>1
    <3>7. CASE i > n /\ i <= n + Len(s)
      <4>1. i > n /\ i <= n + Len(u) /\ i - n <= Len(s) /\ ~(i > n + Len(s)) /\ i <= Len(e)
        BY <1>0, <2>2, <3>0, <3>5, <3>7
      <4> QED BY <3>1, <3>2, <3>3, <3>4, <3>7, <4>1
    <3>8. CASE i <= n \/ i > n + Len(s) + Len(t)
      <4>1. ~(i > n /\ i <= n + Len(u)) /\ ~(i > n /\ i <= n + Len(s)) /\ ~(i > n + Len(s) /\ i <= n + Len(s) + Len(t))
        BY <1>0, <2>2, <3>0, <3>8
      <4>2. CASE i <= Len(d)
        BY <1>0, <3>0, <3>1, <3>2, <3>3, <3>5, <4>1, <4>2
      <4>3. CASE ~(i <= Len(d))
        BY <3>1, <3>2, <3>3, <4>1, <4>3
      <4> QED BY <4>2, <4>3
    <3> QED BY <1>0, <3>0, <3>6, <3>7, <3>8
  <2> DEFINE x == Overlay(e, n + Len(s), t)
             y == Overlay(d, n, u)
  <2>5. x \in Seq(Octets) /\ Len(x) = Greater(Len(e), n + Len(s) + Len(t))
    <3>1. n + Len(s) \in Int
      BY <1>0
    <3> HIDE DEF e
    <3> QED BY <1>3, <2>1, <3>1, OverlayProperties
  <2>6. y \in Seq(Octets) /\ Len(y) = Greater(Len(d), n + (Len(s) + Len(t)))
    <3>1. y \in Seq(Octets) /\ Len(y) = Greater(Len(d), n + Len(u))
      <4> HIDE DEF u
      <4> QED BY <1>0, <2>2, OverlayProperties, Zenon
    <3> QED BY <2>2, <3>1
  <2>7. Len(x) = Len(y) /\ \A i \in 1 .. Len(x) : x[i] = y[i]
    BY <2>3, <2>4, <2>5, <2>6
  <2> HIDE DEF x, y
  <2>8. x = y
    BY <2>5, <2>6, <2>7, SameBytes, Zenon
  <2> QED BY <2>8 DEF x, y
<1> QED BY <1>1, <1>2, <1>3

(* Parts of a sequence. *)
LEMMA SliceProperties ==
  ASSUME NEW d \in Seq(Octets), NEW n \in Nat, NEW k \in Nat, n + k <= Len(d)
  PROVE  /\ Slice(d, n, k) \in Seq(Octets) /\ Len(Slice(d, n, k)) = k
         /\ \A i \in 1 .. k : Slice(d, n, k)[i] = d[n + i]
<1>1. \A i \in n + 1 .. n + k : d[i] \in Octets
  <2>1. ASSUME NEW i \in n + 1 .. n + k PROVE i \in 1 .. Len(d)
    BY LengthNat
  <2> QED BY <2>1, ByteAt
<1>2. Len(Slice(d, n, k)) = IF n + 1 <= n + k THEN n + k - (n + 1) + 1 ELSE 0
  BY <1>1, PartBytes DEF Slice
<1>3. Slice(d, n, k) \in Seq(Octets) /\ \A i \in 1 .. n + k - (n + 1) + 1 : Slice(d, n, k)[i] = d[(n + 1) + i - 1]
  BY <1>1, PartBytes DEF Slice
<1>4. n + k - (n + 1) + 1 = k /\ \A i \in 1 .. k : (n + 1) + i - 1 = n + i
  OBVIOUS
<1> QED BY <1>2, <1>3, <1>4

(* A part of a part. *)
LEMMA SliceOfSlice ==
  ASSUME NEW d \in Seq(Octets), NEW a \in Nat, NEW m \in Nat, a + m <= Len(d),
         NEW n \in Nat, NEW k \in Nat, n + k <= m
  PROVE  Slice(Slice(d, a, m), n, k) = Slice(d, a + n, k)
<1> DEFINE e == Slice(d, a, m)
           x == Slice(e, n, k)
           y == Slice(d, a + n, k)
<1>1. e \in Seq(Octets) /\ Len(e) = m /\ \A i \in 1 .. m : e[i] = d[a + i]
  BY SliceProperties
<1>0. Len(d) \in Nat /\ a + n + k <= Len(d) /\ a + n \in Nat
  BY LengthNat
<1> HIDE DEF e
<1>2. x \in Seq(Octets) /\ Len(x) = k /\ \A i \in 1 .. k : x[i] = e[n + i]
  BY <1>1, SliceProperties
<1>3. y \in Seq(Octets) /\ Len(y) = k /\ \A i \in 1 .. k : y[i] = d[a + n + i]
  BY <1>0, SliceProperties
<1> HIDE DEF x, y
<1>4. ASSUME NEW i \in 1 .. k PROVE x[i] = y[i]
  <2>1. n + i \in 1 .. m /\ a + (n + i) = a + n + i
    OBVIOUS
  <2>2. x[i] = e[n + i] /\ y[i] = d[a + n + i]
    BY <1>2, <1>3
  <2>3. e[n + i] = d[a + (n + i)]
    BY <1>1, <2>1
  <2> QED BY <2>1, <2>2, <2>3
<1>5. x = y
  BY <1>2, <1>3, <1>4, SameBytes
<1> QED BY <1>5 DEF e, x, y

(* A call goes on at a label. *)
LEMMA JumpCall ==
  ASSUME IsCall(call), NEW l, Jump(l)
  PROVE  /\ IsCall(call') /\ call'.at = l
         /\ call'.op = call.op /\ call'.ok = call.ok /\ call'.bad = call.bad
         /\ call'.left = call.left /\ call'.n = call.n /\ call'.cap = call.cap
BY DEF IsCall, Jump

(* A call returns. *)
LEMMA ReturnsCall ==
  ASSUME NEW r, Returns(r)
  PROVE  /\ IsCall(call') /\ call'.at = "idle" /\ call'.op = "return" /\ call'.left = <<call.op>>
         /\ told' = (told \/ r = "fail")
BY Zenon DEF IsCall, Returns, Idle

(* A call begins with flush_buffer. *)
LEMMA FlushFirstCall ==
  ASSUME NEW o, NEW l, NEW n, NEW ignores, call' = FlushFirst(o, l, n, ignores)
  PROVE  /\ IsCall(call') /\ call'.at = "flush" /\ call'.op = o
         /\ call'.ok = l /\ call'.bad = (IF ignores THEN l ELSE "fail") /\ call'.n = n
BY Zenon DEF IsCall, FlushFirst, Idle

(* Calls begin when none is in progress. *)
LEMMA StartIdle ==
  ASSUME Place, NEW c, Start(c)
  PROVE  call.at = "idle" /\ call' = c
BY DEF Place, Flushing, Start, Readers

(* A step that leaves the file, the buffer and what the client may rely on *)
(* as they are.                                                            *)
LEMMA Quiet ==
  ASSUME StreamInv, UNCHANGED <<stream, file, off, buf, bpos, pub, want, cur, seen>>,
         err' \in BOOLEAN, eof' \in BOOLEAN, told' \in BOOLEAN, ungot' \in Seq(Octets), Len(ungot') <= 1,
         err \/ told => err' \/ told',
         IsCall(call'), Place', Locals',
         err' \/ told' \/ (/\ call'.at \notin AfterFlush
                           /\ call.at = "flush" => call'.at = "flush"
                           /\ \/ call.at \in {"close", "sync"}
                              \/ call'.op # "closed" /\ ~(call'.op = "return" /\ call'.left = <<"fflush">>))
  PROVE  StreamInv'
<1>1. StreamTypes'
  BY DEF StreamInv, StreamTypes, stream
<1>2. Buffering'
  BY DEF StreamInv, Buffering, stream
<1>3. err' \/ told' \/ Sound'
  <2> SUFFICES ASSUME ~err', ~told' PROVE Sound'
    OBVIOUS
  <2>1. Sound
    BY DEF StreamInv
  <2>2. Meaning'
    BY <2>1 DEF Sound, Meaning, Writing, Ahead, stream
  <2>3. seen'.data = Slice(want', seen'.from, Len(seen'.data))
    BY <2>1 DEF Sound, Slice
  <2>4. NoLineHeld'
    BY <2>1 DEF Sound, NoLineHeld, Writing, stream
  <2>5. Shown'
    <3>1. call'.at \notin {"close", "sync"}
      BY DEF AfterFlush
    <3> QED BY <2>1, <3>1 DEF Sound, Shown, stream
  <2> QED BY <2>2, <2>3, <2>4, <2>5 DEF Sound
<1> QED BY <1>1, <1>2, <1>3 DEF StreamInv

(* A step that moves the call in progress and nothing else. *)
LEMMA Moves ==
  ASSUME StreamInv, UNCHANGED <<stream, file, off, buf, bpos, err, eof, ungot, pub, ghosts>>,
         IsCall(call'), Place', Locals',
         call'.at \notin AfterFlush, call.at = "flush" => call'.at = "flush",
         \/ call.at \in {"close", "sync"}
         \/ call'.op # "closed" /\ ~(call'.op = "return" /\ call'.left = <<"fflush">>)
  PROVE  StreamInv'
<1>1. UNCHANGED <<stream, file, off, buf, bpos, pub, want, cur, seen>> /\ UNCHANGED <<err, eof, ungot, told>>
  BY DEF ghosts
<1>2. /\ err' \in BOOLEAN /\ eof' \in BOOLEAN /\ told' \in BOOLEAN /\ ungot' \in Seq(Octets) /\ Len(ungot') <= 1
      /\ err \/ told => err' \/ told'
  BY <1>1 DEF StreamInv, StreamTypes
<1> QED BY <1>1, <1>2, Quiet, Zenon

(* The calls that begin with flush_buffer. *)
LEMMA FlushFirstKeeps ==
  ASSUME StreamInv, NEW o, NEW l, NEW n, NEW ignores \in BOOLEAN, Start(FlushFirst(o, l, n, ignores)),
         UNCHANGED <<stream, file, off, buf, bpos, err, eof, ungot, pub, ghosts>>,
         <<o, l, ignores>> \in {<<"fseek", "seek", FALSE>>, <<"ftell", "tell", FALSE>>, <<"fflush", "sync", FALSE>>,
                               <<"rewind", "rewind", TRUE>>, <<"fclose", "close", TRUE>>, <<"freopen", "reopen", TRUE>>},
         o = "fseek" => n[1] \in Int,
         o = "rewind" => kind # "mem"
  PROVE  StreamInv'
<1>1. call.at = "idle" /\ call' = FlushFirst(o, l, n, ignores)
  BY StartIdle, Zenon DEF StreamInv
<1>2. /\ IsCall(call') /\ call'.at = "flush" /\ call'.op = o
      /\ call'.ok = l /\ call'.bad = (IF ignores THEN l ELSE "fail") /\ call'.n = n
  BY <1>1, FlushFirstCall, Zenon
<1>3. Place'
  BY <1>2, Zenon DEF Place, Flushing
<1>4. o \notin {"fwrite", "fread", "fgetc", "fgets", "getline", "closed", "return"}
  BY Zenon
<1>5. Locals'
  BY <1>2, <1>4 DEF Locals, Readers, stream
<1>6. call'.at \notin AfterFlush /\ call'.op # "closed" /\ call'.op # "return"
  BY <1>2, <1>4 DEF AfterFlush
<1> QED BY <1>2, <1>3, <1>5, <1>6, Moves, Zenon

(* fseek begins. *)
LEMMA FseekKeeps == ASSUME StreamInv, Fseek PROVE StreamInv'
<1>1. PICK o \in Offsets, w \in {"set", "cur", "end"} : Start(FlushFirst("fseek", "seek", <<o, w>>, FALSE))
  BY Zenon DEF Fseek
<1>2. <<o, w>>[1] \in Int
  BY StreamAssumption
<1> QED BY <1>1, <1>2, FlushFirstKeeps, Zenon DEF Fseek

(* ftell begins. *)
LEMMA FtellKeeps == ASSUME StreamInv, Ftell PROVE StreamInv'
BY FlushFirstKeeps, Zenon DEF Ftell

(* fflush begins. *)
LEMMA FflushKeeps == ASSUME StreamInv, Fflush PROVE StreamInv'
BY FlushFirstKeeps, Zenon DEF Fflush

(* fclose begins. *)
LEMMA FcloseKeeps == ASSUME StreamInv, Fclose PROVE StreamInv'
BY FlushFirstKeeps, Zenon DEF Fclose

(* freopen begins. *)
LEMMA FreopenKeeps == ASSUME StreamInv, Freopen PROVE StreamInv'
BY FlushFirstKeeps, Zenon DEF Freopen

(* rewind begins, on a stream other than memory. *)
LEMMA RewindKeeps == ASSUME StreamInv, "mem" \notin Rewound, Rewind PROVE StreamInv'
<1>1. kind # "mem"
  BY DEF Rewind
<1> QED BY <1>1, FlushFirstKeeps, Zenon DEF Rewind

(* Between calls. *)
LEMMA Rested ==
  ASSUME IsCall(call'), call'.at = "idle", call'.op \in {"none", "return", "closed"}
  PROVE  Place' /\ Locals' /\ call'.at \notin AfterFlush
BY DEF Place, Locals, Readers, AfterFlush

(* Sequences of one element. *)
LEMMA SingleEqual == ASSUME NEW x, NEW y, <<x>> = <<y>> PROVE x = y
OBVIOUS

(* A return from a call that leaves the stream as it is. *)
LEMMA ReturnsKeeps ==
  ASSUME StreamInv, NEW r, Returns(r), UNCHANGED <<stream, file, off, buf, bpos, pub, want, cur, seen>>,
         err' \in BOOLEAN, eof' \in BOOLEAN, ungot' = ungot, err => err',
         call.at # "flush", call.at = "sync" \/ call.op # "fflush" \/ r = "fail"
  PROVE  StreamInv'
<1>1. /\ IsCall(call') /\ call'.at = "idle" /\ call'.op = "return" /\ call'.left = <<call.op>>
      /\ told' = (told \/ r = "fail")
  BY ReturnsCall, Zenon
<1>2. told' \in BOOLEAN /\ (told => told')
  BY <1>1, Zenon
<1>5. ungot' \in Seq(Octets) /\ Len(ungot') <= 1 /\ (call.at = "sync" => call.at \in {"close", "sync"})
  BY DEF StreamInv, StreamTypes
<1>3. Place' /\ Locals' /\ call'.at \notin AfterFlush
  BY <1>1, Rested, Zenon
<1>4. told' \/ call.at = "sync" \/ ~(call'.left = <<"fflush">>)
  BY <1>1, SingleEqual, Zenon
<1> QED BY <1>1, <1>2, <1>3, <1>4, <1>5, Quiet, Zenon

(* The client takes the result. *)
LEMMA DoneKeeps == ASSUME StreamInv, Done PROVE StreamInv'
<1>1. IsCall(call') /\ call'.at = "idle" /\ call'.op = "none"
  BY Zenon DEF Done, IsCall, Idle
<1>2. call.at # "flush"
  BY DEF Done, StreamInv, Place, Flushing
<1>3. Place' /\ Locals' /\ call'.at \notin AfterFlush
  BY <1>1, Rested, Zenon
<1> QED BY <1>1, <1>2, <1>3, Moves, Zenon DEF Done

(* A call reports a failure. *)
LEMMA FailKeeps == ASSUME StreamInv, Fail PROVE StreamInv'
<1>1. UNCHANGED <<stream, file, off, buf, bpos, pub, want, cur, seen>> /\ err' = err /\ eof' = eof /\ ungot' = ungot
  BY DEF Fail
<1>2. err' \in BOOLEAN /\ eof' \in BOOLEAN /\ call.at # "flush" /\ Returns("fail")
  BY <1>1 DEF Fail, StreamInv, StreamTypes
<1> QED BY <1>1, <1>2, ReturnsKeeps, Zenon

(* lseek fails. *)
LEMMA SeekFailsKeeps == ASSUME StreamInv, SeekFails PROVE StreamInv'
<1>1. UNCHANGED <<stream, file, off, buf, bpos, pub, want, cur, seen>> /\ UNCHANGED <<eof, ungot, told>> /\ err' = TRUE
  BY DEF SeekFails, ghosts
<1>2. eof' \in BOOLEAN /\ told' \in BOOLEAN /\ ungot' \in Seq(Octets) /\ Len(ungot') <= 1
  BY <1>1 DEF StreamInv, StreamTypes
<1>3. /\ IsCall(call') /\ call'.at = "fail"
      /\ call'.op = call.op /\ call'.n = call.n /\ call'.left = call.left /\ call'.cap = call.cap
  BY JumpCall, Zenon DEF SeekFails, StreamInv, StreamTypes
<1>4. call.op \in {"fseek", "ftell"}
  BY DEF SeekFails, StreamInv, Place
<1>5. Place'
  BY <1>3, <1>4 DEF Place
<1>6. Locals'
  BY <1>3, <1>4 DEF StreamInv, Locals, Readers
<1> QED BY <1>1, <1>2, <1>3, <1>5, <1>6, Quiet, Zenon

(* ftell returns. *)
LEMMA TellKeeps == ASSUME StreamInv, Tell PROVE StreamInv'
<1>1. IsCall(call') /\ call'.at = "idle" /\ call'.op = "return" /\ call'.left = <<"ftell">>
  BY Zenon DEF Tell, IsCall, Idle
<1>2. call.at # "flush" /\ call'.left # <<"fflush">>
  BY <1>1 DEF Tell
<1>3. Place' /\ Locals' /\ call'.at \notin AfterFlush
  BY <1>1, Rested, Zenon
<1> QED BY <1>1, <1>2, <1>3, Moves DEF Tell

(* clearerr. *)
LEMMA ClearerrKeeps == ASSUME StreamInv, Clearerr PROVE StreamInv'
<1>1. /\ UNCHANGED <<stream, file, off, buf, bpos, pub, want, cur, seen>>
      /\ err' = FALSE /\ eof' = FALSE /\ ungot' = <<>> /\ told' = (told \/ err)
  BY DEF Clearerr
<1>2. call.at = "idle" /\ call' = [Idle EXCEPT !.op = "return"]
  BY StartIdle, Zenon DEF StreamInv, Clearerr
<1>3. IsCall(call') /\ call'.at = "idle" /\ call'.op = "return" /\ call'.left = <<>>
  BY <1>2, Zenon DEF IsCall, Idle
<1>4. err' \in BOOLEAN /\ eof' \in BOOLEAN /\ told' \in BOOLEAN /\ (err \/ told => err' \/ told')
  BY <1>1, Zenon
<1>7. ungot' \in Seq(Octets) /\ Len(ungot') <= 1
  BY <1>1
<1>5. Place' /\ Locals' /\ call'.at \notin AfterFlush
  BY <1>3, Rested, Zenon
<1>6. call'.left # <<"fflush">> /\ call.at # "flush"
  BY <1>2, <1>3
<1> QED BY <1>1, <1>3, <1>4, <1>5, <1>6, <1>7, Quiet, Zenon

(* ungetc. *)
LEMMA UngetcKeeps == ASSUME StreamInv, Ungetc PROVE StreamInv'
<1>1. /\ UNCHANGED <<stream, file, off, buf, bpos, pub, want, cur, seen>> /\ UNCHANGED <<err, told>>
      /\ eof' = FALSE /\ ungot' = <<seen.data[Len(seen.data)]>>
  BY DEF Ungetc, ghosts
<1>2. call.at = "idle" /\ call' = [Idle EXCEPT !.op = "return"]
  BY StartIdle, Zenon DEF StreamInv, Ungetc
<1>3. IsCall(call') /\ call'.at = "idle" /\ call'.op = "return" /\ call'.left = <<>>
  BY <1>2, Zenon DEF IsCall, Idle
<1>4. seen.data[Len(seen.data)] \in Octets
  <2>1. seen.data \in Seq(Octets) /\ seen.data # <<>>
    BY DEF StreamInv, StreamTypes, Ungetc
  <2>2. Len(seen.data) \in 1 .. Len(seen.data)
    BY <2>1, EmptyBytes
  <2> QED BY <2>1, <2>2, ByteAt
<1>5. ungot' \in Seq(Octets) /\ Len(ungot') <= 1
  BY <1>1, <1>4
<1>6. err' \in BOOLEAN /\ eof' \in BOOLEAN /\ told' \in BOOLEAN
  BY <1>1, Zenon DEF StreamInv, StreamTypes
<1>7. Place' /\ Locals' /\ call'.at \notin AfterFlush
  BY <1>3, Rested, Zenon
<1>8. call'.left # <<"fflush">> /\ call.at # "flush"
  BY <1>2, <1>3
<1> QED BY <1>1, <1>3, <1>5, <1>6, <1>7, <1>8, Quiet

(* fflush returns. *)
LEMMA SyncKeeps == ASSUME StreamInv, Sync PROVE StreamInv'
<1>1. UNCHANGED <<stream, file, off, buf, bpos, pub, want, cur, seen>> /\ err' = err /\ eof' = eof /\ ungot' = ungot
  BY DEF Sync
<1>2. err' \in BOOLEAN /\ eof' \in BOOLEAN /\ call.at = "sync" /\ call.at # "flush"
  BY <1>1 DEF Sync, StreamInv, StreamTypes
<1>9. PICK r : Returns(r)
  BY Zenon DEF Sync
<1> QED BY <1>1, <1>2, <1>9, ReturnsKeeps, Zenon

(* fclose ends. *)
LEMMA CloseKeeps == ASSUME StreamInv, Close PROVE StreamInv'
<1>1. IsCall(call') /\ call'.at = "idle" /\ call'.op = "closed"
  BY Zenon DEF Close, IsCall, Idle
<1>2. call.at # "flush" /\ call.at \in {"close", "sync"}
  BY DEF Close
<1>3. Place' /\ Locals' /\ call'.at \notin AfterFlush
  BY <1>1, Rested, Zenon
<1> QED BY <1>1, <1>2, <1>3, Moves, Zenon DEF Close

(* fwrite begins. *)
LEMMA FwriteKeeps == ASSUME StreamInv, Fwrite PROVE StreamInv'
<1>1. PICK s \in Requests : Start([Idle EXCEPT !.op = "fwrite", !.at = "write", !.left = s])
  BY Zenon DEF Fwrite
<1>2. call.at = "idle" /\ call' = [Idle EXCEPT !.op = "fwrite", !.at = "write", !.left = s]
  BY <1>1, StartIdle, Zenon DEF StreamInv
<1>3. IsCall(call') /\ call'.at = "write" /\ call'.op = "fwrite" /\ call'.left = s /\ call'.cap = 0
  BY <1>2, Zenon DEF IsCall, Idle
<1>4. s \in Seq(Octets)
  BY StreamAssumption, BytesAreOctets
<1>5. Place'
  BY <1>3 DEF Place
<1>6. access' = access /\ access # "r"
  BY DEF Fwrite, stream
<1>7. Locals'
  BY <1>3, <1>4, <1>6 DEF Locals, Readers
<1>8. call'.at \notin AfterFlush /\ call.at # "flush" /\ call'.op # "closed" /\ call'.op # "return"
  BY <1>2, <1>3 DEF AfterFlush
<1> QED BY <1>3, <1>5, <1>7, <1>8, Moves, Zenon DEF Fwrite

(* fwrite finds the buffer full. *)
LEMMA WriteFullKeeps == ASSUME StreamInv, WriteFull PROVE StreamInv'
<1>1. /\ IsCall(call') /\ call'.at = "flush" /\ call'.ok = "write" /\ call'.bad = "short"
      /\ call'.op = call.op /\ call'.left = call.left /\ call'.cap = call.cap
  BY Zenon DEF StreamInv, StreamTypes, IsCall, WriteFull, ThenFlush
<1>2. call.op = "fwrite" /\ access' = access /\ kind' = kind
  BY DEF StreamInv, Place, WriteFull, stream
<1>3. Place'
  BY <1>1, <1>2 DEF Place, Flushing
<1>4. Locals'
  BY <1>1, <1>2 DEF StreamInv, Locals, Readers
<1>5. call'.at \notin AfterFlush /\ call'.op # "closed" /\ call'.op # "return"
  BY <1>1, <1>2 DEF AfterFlush
<1> QED BY <1>1, <1>3, <1>4, <1>5, Moves, Zenon DEF WriteFull

(* newsize is doubled. *)
LEMMA DoubleKeeps == ASSUME StreamInv, Double PROVE StreamInv'
<1>1. /\ IsCall(call') /\ call'.at = "write" /\ call'.cap = 2 * Greater(bufsize, call.cap)
      /\ call'.op = call.op /\ call'.left = call.left
  BY Zenon DEF StreamInv, StreamTypes, IsCall, Double
<1>2. call.op = "fwrite" /\ access' = access /\ kind' = kind /\ call.at # "flush"
  BY DEF StreamInv, Place, Double, stream
<1>3. Place'
  BY <1>1, <1>2 DEF Place
<1>4. bufsize \in Nat /\ call.cap \in Nat
  BY <1>2 DEF StreamInv, StreamTypes, Locals
<1>5. Locals'
  BY <1>1, <1>2, <1>4 DEF StreamInv, Locals, Readers, Greater
<1>6. call'.at \notin AfterFlush /\ call'.op # "closed" /\ call'.op # "return"
  BY <1>1, <1>2 DEF AfterFlush
<1> QED BY <1>1, <1>2, <1>3, <1>5, <1>6, Moves, Zenon DEF Double

(* write or realloc fails: the error flag shows it. *)
LEMMA WriteFailsKeeps == ASSUME StreamInv, WriteFails PROVE StreamInv'
<1>1. UNCHANGED <<stream, file, off, buf, bpos, pub, want, cur, seen>> /\ UNCHANGED <<eof, ungot, told>> /\ err' = TRUE
  BY DEF WriteFails, ghosts
<1>2. eof' \in BOOLEAN /\ told' \in BOOLEAN /\ ungot' \in Seq(Octets) /\ Len(ungot') <= 1
  BY <1>1 DEF StreamInv, StreamTypes
<1>3. /\ IsCall(call') /\ call'.at = "short"
      /\ call'.op = call.op /\ call'.n = call.n /\ call'.left = call.left /\ call'.cap = call.cap
  BY JumpCall, Zenon DEF WriteFails, StreamInv, StreamTypes
<1>4. call.op = "fwrite" /\ access' = access /\ kind' = kind
  BY <1>1 DEF WriteFails, StreamInv, Place, stream
<1>5. Place'
  BY <1>3, <1>4 DEF Place
<1>6. Locals'
  BY <1>3, <1>4 DEF StreamInv, Locals, Readers
<1> QED BY <1>1, <1>2, <1>3, <1>5, <1>6, Quiet, Zenon

(* fwrite returns. *)
LEMMA WrittenKeeps == ASSUME StreamInv, Written PROVE StreamInv'
<1>1. UNCHANGED <<stream, file, off, buf, bpos, pub, want, cur, seen>> /\ err' = err /\ eof' = eof /\ ungot' = ungot
  BY DEF Written
<1>2. err' \in BOOLEAN /\ eof' \in BOOLEAN /\ call.at # "flush" /\ call.op # "fflush"
  BY <1>1 DEF Written, StreamInv, StreamTypes, Place
<1>9. PICK r : Returns(r)
  BY Zenon DEF Written
<1> QED BY <1>1, <1>2, <1>9, ReturnsKeeps, Zenon

(* A read returns. *)
LEMMA ReadDoneKeeps == ASSUME StreamInv, ReadDone PROVE StreamInv'
<1>1. UNCHANGED <<stream, file, off, buf, bpos, pub, want, cur, seen>> /\ err' = err /\ eof' = eof /\ ungot' = ungot
  BY DEF ReadDone
<1>2. err' \in BOOLEAN /\ eof' \in BOOLEAN /\ call.at # "flush" /\ call.op # "fflush"
  BY <1>1 DEF ReadDone, StreamInv, StreamTypes, Place, Readers
<1>9. PICK r : Returns(r)
  BY Zenon DEF ReadDone
<1> QED BY <1>1, <1>2, <1>9, ReturnsKeeps, Zenon

(* A read ends at the end of the file or with an error. *)
LEMMA ReadEndsKeeps == ASSUME StreamInv, ReadEnds PROVE StreamInv'
<1>1. UNCHANGED <<stream, file, off, buf, bpos, pub, want, cur, seen>> /\ ungot' = ungot
  BY DEF ReadEnds
<1>2. call.at # "flush" /\ call.op # "fflush"
  BY DEF ReadEnds, StreamInv, Place, Readers
<1>3. err' \in BOOLEAN /\ eof' \in BOOLEAN /\ (err => err')
  <2>1. err \in BOOLEAN /\ eof \in BOOLEAN
    BY DEF StreamInv, StreamTypes
  <2>2. err' = TRUE \/ err' = err
    BY DEF ReadEnds
  <2>3. eof' = TRUE \/ eof' = eof
    BY DEF ReadEnds
  <2> QED BY <2>1, <2>2, <2>3, Zenon
<1>9. PICK r : Returns(r)
  BY Zenon DEF ReadEnds
<1> QED BY <1>1, <1>2, <1>3, <1>9, ReturnsKeeps, Zenon

(* fread, fgetc, fgets and getline begin. *)
LEMMA FreadKeeps == ASSUME StreamInv, Fread PROVE StreamInv'
<1>1. PICK n \in Counts, o \in {"fread", "fgetc", "fgets", "getline"} :
        Start([Idle EXCEPT !.op = o,
                        !.at = CASE o = "fread" -> "read" [] o = "fgets" /\ n = 1 -> "end" [] OTHER -> "char",
                        !.n = IF o = "fread" THEN n ELSE 1,
                        !.cap = IF o = "getline" /\ n = 0 THEN MemSize ELSE n])
  BY Zenon DEF Fread
<1> DEFINE l == CASE o = "fread" -> "read" [] o = "fgets" /\ n = 1 -> "end" [] OTHER -> "char"
           m == IF o = "fread" THEN n ELSE 1
           c == IF o = "getline" /\ n = 0 THEN MemSize ELSE n
<1>2. m \in Nat /\ c \in Nat /\ (o = "getline" => m = 1 /\ c > 0)
  BY StreamAssumption
<1>3. l \in {"read", "end", "char"} /\ (l = "char" => o # "fread")
  OBVIOUS
<1> HIDE DEF l, m, c
<1>4. call.at = "idle" /\ call' = [Idle EXCEPT !.op = o, !.at = l, !.n = m, !.cap = c]
  BY <1>1, StartIdle, Zenon DEF StreamInv, l, m, c
<1>5. IsCall(call') /\ call'.at = l /\ call'.op = o /\ call'.left = <<>> /\ call'.n = m /\ call'.cap = c
  BY <1>4, Zenon DEF IsCall, Idle
<1>6. access' = access /\ access \notin {"w", "a"}
  BY DEF Fread, stream
<1>7. Place'
  BY <1>3, <1>5 DEF Place, Readers
<1>8. Locals'
  BY <1>2, <1>3, <1>5, <1>6, EmptyBytes DEF Locals, Readers
<1>9. call'.at \notin AfterFlush /\ call.at # "flush" /\ call'.op # "closed" /\ call'.op # "return"
  BY <1>3, <1>4, <1>5 DEF AfterFlush
<1> QED BY <1>5, <1>7, <1>8, <1>9, Moves, Zenon DEF Fread

(* getdelim stores a character. *)
LEMMA StoreKeeps == ASSUME StreamInv, Store PROVE StreamInv'
<1> DEFINE c == IF Len(call.left) >= call.cap THEN 2 * call.cap ELSE call.cap
           l == IF call.left[Len(call.left)] = NL THEN "end" ELSE "char"
<1>1. call.op = "getline" /\ call.left \in Seq(Octets) /\ call.cap \in Nat /\ call.cap > 0 /\ Len(call.left) <= call.cap
      /\ call.n = 1 /\ access \notin {"w", "a"}
  BY DEF Store, StreamInv, Place, Locals, Readers
<1>2. c \in Nat /\ c > 0 /\ Len(call.left) < c
  BY <1>1, LengthNat
<1>3. l \in {"end", "char"}
  OBVIOUS
<1> HIDE DEF c, l
<1>4. call' = [call EXCEPT !.cap = c, !.at = l]
  BY DEF Store, c, l
<1>5. IsCall(call') /\ call'.at = l /\ call'.op = "getline" /\ call'.left = call.left /\ call'.n = call.n /\ call'.cap = c
  BY <1>1, <1>4, Zenon DEF IsCall, StreamInv, StreamTypes
<1>6. access' = access
  BY DEF Store, stream
<1>7. Place'
  BY <1>3, <1>5 DEF Place, Readers
<1>8. Locals'
  BY <1>1, <1>2, <1>3, <1>5, <1>6 DEF Locals, Readers
<1>9. call'.at \notin AfterFlush /\ call.at # "flush" /\ call'.op # "closed" /\ call'.op # "return"
  BY <1>3, <1>5 DEF AfterFlush, Store
<1> QED BY <1>5, <1>7, <1>8, <1>9, Moves, Zenon DEF Store

(* getdelim has no memory. *)
LEMMA StoreFailsKeeps == ASSUME StreamInv, StoreFails PROVE StreamInv'
<1>1. call.op = "getline" /\ call.at = "store"
  BY DEF StoreFails, StreamInv, Place
<1>2. /\ IsCall(call') /\ call'.at = "fail" /\ call'.op = call.op
      /\ call'.left = call.left /\ call'.n = call.n /\ call'.cap = call.cap
  BY JumpCall, Zenon DEF StoreFails, StreamInv, StreamTypes
<1>3. Place'
  BY <1>1, <1>2 DEF Place
<1>4. access' = access
  BY DEF StoreFails, stream
<1>5. Locals'
  BY <1>1, <1>2, <1>4 DEF StreamInv, Locals, Readers
<1>6. call'.at \notin AfterFlush /\ call.at # "flush" /\ call'.op # "closed" /\ call'.op # "return"
  BY <1>1, <1>2 DEF AfterFlush
<1> QED BY <1>2, <1>3, <1>5, <1>6, Moves, Zenon DEF StoreFails

(* Where a read is after it got some bytes; getdelim's buffer has room for *)
(* them.                                                                   *)
LEMMA GotCall ==
  ASSUME IsCall(call), Locals, call.op \in Readers, call.at \in {"char", "read"}, access' = access,
         NEW s \in Seq(Octets), call.op = "fread" => Len(s) <= call.n, call.op = "getline" => Len(s) <= 1,
         call' = Got(s)
  PROVE  /\ IsCall(call') /\ Place' /\ Locals' /\ call'.op = call.op
         /\ call'.at \notin AfterFlush \cup {"flush", "idle"}
<1>0. /\ call.left \in Seq(Octets) /\ call.n \in Nat /\ call.cap \in Nat /\ access \notin {"w", "a"}
      /\ Len(s) \in Nat /\ Len(call.left) \in Nat
      /\ call.left \o s \in Seq(Octets) /\ Len(call.left \o s) = Len(call.left) + Len(s)
  BY LengthNat, Joined DEF Locals
<1>1. CASE call.op = "fread"
  <2> DEFINE l == IF call.n = Len(s) THEN "end" ELSE "read"
             m == call.n - Len(s)
  <2>1. l \in {"end", "read"} /\ m \in Nat
    BY <1>0, <1>1
  <2> HIDE DEF l, m
  <2>2. call' = [call EXCEPT !.n = m, !.at = l]
    BY <1>1, Zenon DEF Got, l, m
  <2>3. /\ IsCall(call') /\ call'.at = l /\ call'.op = "fread"
        /\ call'.left = call.left /\ call'.n = m /\ call'.cap = call.cap
    BY <1>1, <2>2, Zenon DEF IsCall
  <2> QED BY <1>0, <1>1, <2>1, <2>3 DEF Place, Locals, Readers, AfterFlush
<1>2. CASE call.op = "fgetc"
  <2>2. call' = [call EXCEPT !.at = "end"]
    BY <1>2 DEF Got
  <2>3. /\ IsCall(call') /\ call'.at = "end" /\ call'.op = "fgetc"
        /\ call'.left = call.left /\ call'.n = call.n /\ call'.cap = call.cap
    BY <1>2, <2>2 DEF IsCall
  <2> QED BY <1>0, <1>2, <2>3 DEF Place, Locals, Readers, AfterFlush
<1>3. CASE call.op = "fgets"
  <2> DEFINE l == IF s[1] = NL \/ Len(call.left) + 2 >= call.cap THEN "end" ELSE "char"
             t == call.left \o s
  <2>1. l \in {"end", "char"} /\ t \in Seq(Octets)
    BY <1>0
  <2> HIDE DEF l, t
  <2>2. call' = [call EXCEPT !.left = t, !.at = l]
    BY <1>3 DEF Got, l, t
  <2>3. /\ IsCall(call') /\ call'.at = l /\ call'.op = "fgets"
        /\ call'.left = t /\ call'.n = call.n /\ call'.cap = call.cap
    BY <1>3, <2>2, Zenon DEF IsCall
  <2> QED BY <1>0, <1>3, <2>1, <2>3 DEF Place, Locals, Readers, AfterFlush
<1>4. CASE call.op = "getline"
  <2> DEFINE t == call.left \o s
  <2>1. call.n = 1 /\ call.cap > 0 /\ Len(call.left) < call.cap
    BY <1>4 DEF Locals
  <2>4. t \in Seq(Octets) /\ Len(t) <= call.cap
    BY <1>0, <1>4, <2>1
  <2> HIDE DEF t
  <2>2. call' = [call EXCEPT !.left = t, !.at = "store"]
    BY <1>4 DEF Got, t
  <2>3. /\ IsCall(call') /\ call'.at = "store" /\ call'.op = "getline"
        /\ call'.left = t /\ call'.n = call.n /\ call'.cap = call.cap
    BY <1>4, <2>2, Zenon DEF IsCall
  <2> QED BY <1>0, <1>4, <2>1, <2>3, <2>4 DEF Place, Locals, Readers, AfterFlush
<1> QED BY <1>1, <1>2, <1>3, <1>4 DEF Readers

(* fgetc takes what ungetc pushed back, or goes on to read. *)
LEMMA NextCharKeeps == ASSUME StreamInv, NextChar PROVE StreamInv'
<1>1. call.op \in Readers \ {"fread"} /\ call.at = "char" /\ access' = access
  BY DEF NextChar, StreamInv, Place, stream
<1>2. /\ IsCall(call') /\ Place' /\ Locals' /\ call'.op = call.op
      /\ call'.at \notin AfterFlush \cup {"flush", "idle"}
  <2>1. CASE ungot # <<>>
    <3>1. call' = Got(ungot) /\ ungot \in Seq(Octets) /\ Len(ungot) <= 1
      BY <2>1 DEF NextChar, StreamInv, StreamTypes
    <3> QED BY <1>1, <3>1, GotCall DEF StreamInv, StreamTypes
  <2>2. CASE ungot = <<>>
    <3>1. Jump("read")
      BY <2>2 DEF NextChar, Jump
    <3>2. /\ IsCall(call') /\ call'.at = "read" /\ call'.op = call.op
          /\ call'.left = call.left /\ call'.n = call.n /\ call'.cap = call.cap
      BY <3>1, JumpCall, Zenon DEF StreamInv, StreamTypes
    <3> QED BY <1>1, <3>2 DEF StreamInv, Place, Locals, Readers, AfterFlush
  <2> QED BY <2>1, <2>2
<1>3. UNCHANGED <<stream, file, off, buf, bpos, pub, want, cur, seen>> /\ UNCHANGED <<err, eof, told>>
  BY DEF NextChar, ghosts
<1>4. /\ err' \in BOOLEAN /\ eof' \in BOOLEAN /\ told' \in BOOLEAN
      /\ err \/ told => err' \/ told'
  BY <1>3 DEF StreamInv, StreamTypes
<1>5. ungot' \in Seq(Octets) /\ Len(ungot') <= 1
  BY EmptyBytes DEF NextChar
<1>6. call'.op # "closed" /\ call'.op # "return" /\ call.at # "flush" /\ call'.at \notin AfterFlush
  BY <1>1, <1>2 DEF Readers
<1> QED BY <1>2, <1>3, <1>4, <1>5, <1>6, Quiet, Zenon

(* The smaller of two numbers. *)
LEMMA LesserNat ==
  ASSUME NEW m \in Nat, NEW n \in Nat
  PROVE  Lesser(m, n) \in Nat /\ Lesser(m, n) <= m /\ Lesser(m, n) <= n /\ (Lesser(m, n) = m \/ Lesser(m, n) = n)
BY DEF Lesser

(* The beginning of a sequence. *)
LEMMA PrefixProperties ==
  ASSUME NEW d \in Seq(Octets), NEW k \in 0 .. Len(d)
  PROVE  SubSeq(d, 1, k) \in Seq(Octets) /\ Len(SubSeq(d, 1, k)) = k /\ \A i \in 1 .. k : SubSeq(d, 1, k)[i] = d[i]
<1>1. k \in Nat /\ 0 \in Nat /\ 0 + k <= Len(d) /\ 0 + 1 = 1 /\ 0 + k = k /\ \A i \in 1 .. k : 0 + i = i
  BY LengthNat
<1>2. Slice(d, 0, k) = SubSeq(d, 1, k)
  BY <1>1 DEF Slice
<1> QED BY <1>1, <1>2, SliceProperties

(* Nothing is a part of every sequence. *)
LEMMA EmptySlice ==
  ASSUME NEW d \in Seq(Octets)
  PROVE  <<>> = Slice(d, 0, Len(<<>>))
<1>1. Len(<<>>) = 0 /\ 0 + 0 <= Len(d)
  BY LengthNat, EmptyBytes
<1>2. Slice(d, 0, 0) \in Seq(Octets) /\ Len(Slice(d, 0, 0)) = 0
  BY <1>1, SliceProperties
<1> QED BY <1>1, <1>2, EmptyBytes

(* What write leaves is a file. *)
LEMMA KernelWriteTypes ==
  ASSUME file \in Seq(Octets), off \in Nat, NEW s \in Seq(Octets), KernelWrite(s)
  PROVE  file' \in Seq(Octets) /\ off' \in Nat
<1> DEFINE at == IF access = "a" /\ s # <<>> THEN Len(file) ELSE off
<1>1. at \in Nat /\ at \in Int /\ Len(s) \in Nat
  BY LengthNat
<1>2. file' = Overlay(file, at, s) /\ off' = at + Len(s)
  BY DEF KernelWrite
<1> HIDE DEF at
<1> QED BY <1>1, <1>2, OverlayProperties

(* Where a call is after flush_buffer. *)
LEMMA AfterFlushCall ==
  ASSUME StreamInv, call.at = "flush", NEW l \in {call.ok, call.bad}, Jump(l), kind' = kind, access' = access
  PROVE  /\ IsCall(call') /\ Place' /\ Locals' /\ call'.op = call.op
         /\ call'.at \in AfterFlush \cup {"write", "short", "fail"}
         /\ call'.op \notin {"closed", "return"}
<1>1. IsCall(call) /\ Flushing /\ Locals
  BY DEF StreamInv, StreamTypes, Place
<1>2. /\ IsCall(call') /\ call'.at = l /\ call'.op = call.op
      /\ call'.left = call.left /\ call'.n = call.n /\ call'.cap = call.cap
  BY <1>1, JumpCall, Zenon
<1>3. Place'
  BY <1>1, <1>2 DEF Flushing, Place
<1>4. Locals'
  BY <1>1, <1>2 DEF Flushing, Locals, Readers
<1>5. l \in AfterFlush \cup {"write", "short", "fail"} /\ call.op \notin {"closed", "return"}
  BY <1>1 DEF Flushing, AfterFlush
<1> QED BY <1>2, <1>3, <1>4, <1>5

(* flush_buffer fails: the error flag shows it. *)
LEMMA FlushFailsKeeps == ASSUME StreamInv, FlushFails PROVE StreamInv'
<1>1. IsCall(call') /\ Place' /\ Locals'
  BY AfterFlushCall DEF FlushFails, stream
<1>2. PICK k \in IF kind = "mem" \/ access = "r" THEN {0} ELSE 0 .. Len(buf) - 1 : KernelWrite(SubSeq(buf, 1, k))
  BY DEF FlushFails
<1>3. buf \in Seq(Octets) /\ file \in Seq(Octets) /\ off \in Nat /\ k \in 0 .. Len(buf)
  BY LengthNat DEF StreamInv, StreamTypes
<1>4. file' \in Seq(Octets) /\ off' \in Nat
  BY <1>2, <1>3, PrefixProperties, KernelWriteTypes, Zenon
<1>5. UNCHANGED <<stream, buf, bpos, eof, ungot, pub, want, cur, seen, told>> /\ err' = TRUE
  BY DEF FlushFails, ghosts
<1>6. StreamTypes'
  BY <1>1, <1>4, <1>5 DEF StreamInv, StreamTypes, stream
<1>7. Buffering'
  BY <1>5 DEF StreamInv, Buffering, stream
<1> QED BY <1>1, <1>5, <1>6, <1>7 DEF StreamInv

(* Only what is written stays in the buffer until it is flushed. *)
LEMMA BufferedWrites ==
  ASSUME StreamTypes, Buffering, kind # "mem", access # "r", bufsize # 0
  PROVE  kind = "fd" /\ Writing
BY DEF StreamTypes, Buffering, Writing

(* flush_buffer: the buffer's bytes go where the client believes them to   *)
(* be.                                                                     *)
LEMMA FlushKeeps == ASSUME StreamInv, Flush PROVE StreamInv'
<1>0. StreamTypes /\ Buffering /\ call.at = "flush" /\ kind' = kind /\ access' = access /\ mode' = mode
  BY DEF StreamInv, Flush
<1>1. /\ IsCall(call') /\ Place' /\ Locals'
      /\ call'.at \in AfterFlush \cup {"write", "short", "fail"} /\ call'.op \notin {"closed", "return"}
  BY <1>0, AfterFlushCall DEF Flush
<1>2. UNCHANGED <<err, eof, ungot, want, cur, seen, told>>
  BY DEF Flush, ghosts
<1>3. buf \in Seq(Octets) /\ file \in Seq(Octets) /\ off \in Nat /\ bufsize \in Nat /\ Len(buf) \in Nat
      /\ Len(buf) <= bufsize
  BY <1>0, LengthNat DEF StreamTypes
<1>4. CASE kind = "mem"
  <2>1. /\ bufsize' = IF buf = <<>> THEN bufsize ELSE Greater(bufsize, Len(buf) + 1)
        /\ Publish /\ UNCHANGED <<file, off, buf, bpos>>
    BY <1>4 DEF Flush
  <2>2. bufsize' \in Nat /\ bufsize' >= bufsize
    BY <1>3, <2>1 DEF Greater
  <2>3. StreamTypes'
    BY <1>0, <1>1, <1>2, <1>3, <2>1, <2>2 DEF StreamTypes
  <2>4. Buffering'
    BY <1>0, <1>4 DEF Buffering
  <2>5. Sound => Sound'
    <3> SUFFICES ASSUME Sound PROVE Sound'
      OBVIOUS
    <3>1. buf = want /\ bpos = cur
      BY <1>4 DEF Sound, Meaning
    <3>2. Meaning'
      BY <1>0, <1>2, <1>4, <2>1, <3>1 DEF Meaning
    <3>3. seen'.data = Slice(want', seen'.from, Len(seen'.data))
      BY <1>2 DEF Sound
    <3>4. NoLineHeld'
      BY <1>0, <1>4 DEF NoLineHeld, Buffering
    <3>5. Shown'
      BY <1>0, <1>2, <2>1, <3>1 DEF Sound, Shown, Publish
    <3> QED BY <1>0, <1>4, <3>2, <3>3, <3>4, <3>5 DEF Sound
  <2> QED BY <1>1, <1>2, <2>3, <2>4, <2>5 DEF StreamInv
<1>5. CASE kind # "mem"
  <2>1. /\ buf = <<>> \/ access # "r"
        /\ IF buf = <<>> THEN UNCHANGED <<file, off, bpos>> ELSE KernelWrite(buf) /\ bpos' = 0
        /\ buf' = <<>>
        /\ UNCHANGED <<bufsize, pub>>
    BY <1>5 DEF Flush
  <2>2. buf' \in Seq(Octets) /\ Len(buf') = 0 /\ bpos' = 0
    <3>1. buf' \in Seq(Octets) /\ Len(buf') = 0
      BY <2>1, EmptyBytes
    <3>2. CASE buf = <<>>
      <4>1. Len(buf) = 0 /\ bpos \in 0 .. Len(buf)
        BY <1>0, <3>2, EmptyBytes DEF StreamTypes
      <4> QED BY <2>1, <3>1, <3>2, <4>1
    <3> QED BY <2>1, <3>1, <3>2
  <2>3. file' \in Seq(Octets) /\ off' \in Nat
    BY <1>3, <2>1, KernelWriteTypes
  <2>4. StreamTypes'
    BY <1>0, <1>1, <1>2, <1>3, <2>1, <2>2, <2>3 DEF StreamTypes
  <2>5. Buffering'
    BY <1>0, <2>1 DEF Buffering
  <2>6. Sound => Sound'
    <3> SUFFICES ASSUME Sound PROVE Sound'
      OBVIOUS
    <3>1. Meaning'
      <4>1. CASE buf = <<>>
        <5>1. file' = file /\ off' = off /\ buf' = buf /\ bpos' = bpos
          BY <2>1, <4>1
        <5> QED BY <1>0, <1>2, <5>1 DEF Sound, Meaning, Writing, Ahead
      <4>2. CASE buf # <<>>
        <5>1. bufsize # 0 /\ access # "r"
          BY <1>3, <2>1, <4>2, EmptyBytes
        <5>2. Writing
          BY <1>0, <1>5, <5>1, BufferedWrites
        <5>3. /\ want = Overlay(file, IF access = "a" THEN Len(file) ELSE off, buf)
              /\ cur = (IF access = "a" /\ buf # <<>> THEN Len(file) ELSE off) + Len(buf)
          BY <1>5, <5>2 DEF Sound, Meaning
        <5>4. file' = want /\ off' = cur
          BY <2>1, <4>2, <5>3 DEF KernelWrite
        <5>5. cur \in Int /\ Overlay(file', IF access' = "a" THEN Len(file') ELSE off', buf') = file'
          BY <1>0, <2>1 DEF Overlay, StreamTypes
        <5>6. cur' = (IF access' = "a" /\ buf' # <<>> THEN Len(file') ELSE off') + Len(buf')
          BY <1>2, <2>1, <2>2, <2>3, <5>4, <5>5
        <5>7. Writing' /\ kind' # "mem"
          BY <1>0, <1>5, <5>2 DEF Writing
        <5> QED BY <1>2, <5>4, <5>5, <5>6, <5>7 DEF Meaning
      <4> QED BY <4>1, <4>2
    <3>2. seen'.data = Slice(want', seen'.from, Len(seen'.data))
      BY <1>2 DEF Sound
    <3>3. NoLineHeld'
      BY <2>2 DEF NoLineHeld
    <3>4. Shown'
      BY <1>0, <1>5 DEF Shown
    <3> QED BY <2>1, <3>1, <3>2, <3>3, <3>4 DEF Sound
  <2> QED BY <1>1, <1>2, <2>4, <2>5, <2>6 DEF StreamInv
<1> QED BY <1>4, <1>5

(* Nothing more. *)
LEMMA AddZero == ASSUME NEW n \in Nat PROVE n = n + 0 /\ n + (0 - 0) = n
OBVIOUS

(* The empty sequence. *)
LEMMA NoneYet == ASSUME NEW s, s = <<>> PROVE s \in Seq(Octets) /\ Len(s) = 0 /\ Len(s) <= 1
BY EmptyBytes

(* Where fseek counts from. *)
LEMMA BaseInt ==
  ASSUME NEW a \in Int, NEW b \in Int, NEW c \in Int
  PROVE  Base(a, b, c) \in Int
BY DEF Base

(* After flush_buffer nothing is pending in a file's stream. *)
LEMMA NothingPending ==
  ASSUME StreamTypes, Sound, kind # "mem", buf = <<>>
  PROVE  want = file /\ cur = off
<1>1. Len(buf) = 0 /\ bpos \in 0 .. Len(buf) /\ cur \in Int /\ off \in Nat
  BY EmptyBytes DEF StreamTypes
<1>2. CASE Writing
  <2>1. /\ want = Overlay(file, IF access = "a" THEN Len(file) ELSE off, buf)
        /\ cur = (IF access = "a" /\ buf # <<>> THEN Len(file) ELSE off) + Len(buf)
    BY <1>2 DEF Sound, Meaning
  <2> QED BY <1>1, <2>1 DEF Overlay
<1>3. CASE ~Writing
  <2>1. want = file /\ cur + Ahead = off
    BY <1>3 DEF Sound, Meaning
  <2> QED BY <1>1, <2>1 DEF Ahead
<1> QED BY <1>2, <1>3

(* And a stream with nothing pending that is where its descriptor is. *)
LEMMA MeaningWithoutBuffer ==
  ASSUME kind' # "mem", buf' = <<>>, bpos' = 0, want' = file', cur' = off', off' \in Nat
  PROVE  Meaning'
<1>1. Len(buf') = 0
  BY EmptyBytes
<1>2. want' = Overlay(file', IF access' = "a" THEN Len(file') ELSE off', buf')
  BY DEF Overlay
<1>3. /\ cur' = (IF access' = "a" /\ buf' # <<>> THEN Len(file') ELSE off') + Len(buf')
      /\ cur' + (Len(buf') - bpos') = off'
  <2>1. (IF access' = "a" /\ buf' # <<>> THEN Len(file') ELSE off') = off'
    BY Zenon
  <2>2. off' = off' + 0 /\ off' + (0 - 0) = off'
    BY AddZero, Zenon
  <2> QED BY <1>1, <2>1, <2>2, Zenon
<1>4. Ahead' = Len(buf') - bpos'
  BY DEF Ahead
<1> QED BY <1>2, <1>3, <1>4, Zenon DEF Meaning

(* fseek on a memory stream. *)
LEMMA SeekMemKeeps == ASSUME StreamInv, SeekMem PROVE StreamInv'
<1> DEFINE p == Base(0, bpos, Len(buf)) + call.n[1]
           q == IF p < 0 \/ p > Len(buf) THEN Len(buf) ELSE p
<1>1. bpos' = q /\ cur' = q /\ eof' = (q >= Len(buf)) /\ ungot' = <<>> /\ Returns("ok")
  BY DEF SeekMem
<1>2. call.op = "fseek" /\ call.n[1] \in Int /\ kind = "mem"
  BY DEF SeekMem, StreamInv, Place, Locals
<1>3. bpos \in Int /\ Len(buf) \in Nat
  BY LengthNat DEF StreamInv, StreamTypes
<1>4. Base(0, bpos, Len(buf)) \in Int
  BY <1>3, BaseInt
<1>5. q \in 0 .. Len(buf) /\ q \in Int
  BY <1>2, <1>3, <1>4
<1> HIDE DEF p, q
<1>6. UNCHANGED <<stream, file, off, buf, err, pub, want, seen>>
  BY DEF SeekMem
<1>7. IsCall(call') /\ call'.at = "idle" /\ call'.op = "return" /\ call'.left = <<"fseek">>
      /\ told' = (told \/ "ok" = "fail")
  BY <1>1, <1>2, ReturnsCall, Zenon
<1>8. told' = told
  BY <1>7 DEF StreamInv, StreamTypes
<1>9. Place' /\ Locals' /\ call'.at \notin AfterFlush
  BY <1>7, Rested, Zenon
<1>10. ungot' \in Seq(Octets) /\ Len(ungot') <= 1 /\ eof' \in BOOLEAN
  BY <1>1, EmptyBytes
<1>11. StreamTypes'
  BY <1>1, <1>5, <1>6, <1>7, <1>8, <1>10 DEF StreamInv, StreamTypes, stream
<1>12. Buffering'
  BY <1>6 DEF StreamInv, Buffering, stream
<1>13. Sound => Sound'
  <2> SUFFICES ASSUME Sound PROVE Sound'
    OBVIOUS
  <2>1. Meaning'
    BY <1>1, <1>2, <1>6 DEF Sound, Meaning, stream
  <2>2. seen'.data = Slice(want', seen'.from, Len(seen'.data))
    BY <1>6 DEF Sound
  <2>3. NoLineHeld'
    BY <1>2, <1>6 DEF StreamInv, Buffering, NoLineHeld, stream
  <2>4. call'.left # <<"fflush">>
    <3>1. "fseek" # "fflush"
      OBVIOUS
    <3> QED BY <1>7, <3>1, SingleEqual, Zenon
  <2>5. Shown'
    BY <1>6, <1>7, <2>4 DEF Sound, Shown, stream
  <2> QED BY <1>9, <2>1, <2>2, <2>3, <2>5 DEF Sound
<1> QED BY <1>6, <1>8, <1>9, <1>11, <1>12, <1>13 DEF StreamInv

(* fseek on a file, after the flush. *)
LEMMA SeekKeeps == ASSUME StreamInv, Seek PROVE StreamInv'
<1>1. call.op = "fseek" /\ call.n[1] \in Int /\ kind # "mem" /\ call.at = "seek"
  BY DEF Seek, StreamInv, Place, Locals
<1>2. UNCHANGED <<stream, file, err, pub, want, seen>> /\ Returns("ok")
      /\ buf' = <<>> /\ bpos' = 0 /\ eof' = FALSE /\ ungot' = <<>>
      /\ off' = Base(0, off, Len(file)) + call.n[1] /\ off' >= 0
      /\ cur' = Base(0, cur, Len(want)) + call.n[1]
  BY DEF Seek
<1>3. /\ off \in Int /\ cur \in Int /\ Len(file) \in Int /\ Len(want) \in Int /\ 0 \in Int
      /\ bufsize \in Nat /\ want \in Seq(Octets) /\ told \in BOOLEAN
  BY LengthNat DEF StreamInv, StreamTypes
<1>4. Base(0, off, Len(file)) \in Int /\ Base(0, cur, Len(want)) \in Int
  BY <1>3, BaseInt, Zenon
<1>5. off' \in Nat /\ cur' \in Int
  BY <1>1, <1>2, <1>4
<1>7. IsCall(call') /\ call'.at = "idle" /\ call'.op = "return" /\ told' = (told \/ "ok" = "fail")
  BY <1>1, <1>2, ReturnsCall, Zenon
<1>8. told' = told
  BY <1>3, <1>7
<1>9. Place' /\ Locals' /\ call'.at \notin AfterFlush
  BY <1>7, Rested, Zenon
<1>10. ungot' \in Seq(Octets) /\ Len(ungot') <= 1 /\ eof' \in BOOLEAN
       /\ buf' \in Seq(Octets) /\ Len(buf') = 0
  BY <1>2, NoneYet, Zenon
<1>11. StreamTypes'
  <2>1. UNCHANGED <<kind, access, bufsize, mode, file, err, want, seen>> /\ bpos' = 0
    BY <1>2 DEF stream
  <2>2. IsCall(call')
    BY <1>7
  <2> QED BY <1>3, <1>5, <1>8, <1>10, <2>1, <2>2 DEF StreamInv, StreamTypes
<1>12. Buffering'
  BY <1>2 DEF StreamInv, Buffering, stream
<1>13. Sound => Sound'
  <2> SUFFICES ASSUME Sound PROVE Sound'
    OBVIOUS
  <2>0. want = file /\ cur = off
    <3>1. StreamTypes /\ buf = <<>>
      BY <1>1 DEF Sound, AfterFlush, StreamInv
    <3> QED BY <1>1, <3>1, NothingPending
  <2>1. kind' # "mem" /\ want' = file' /\ cur' = off'
    BY <1>1, <1>2, <2>0 DEF stream
  <2>2. Meaning'
    BY <1>2, <1>5, <2>1, MeaningWithoutBuffer
  <2>3. seen'.data = Slice(want', seen'.from, Len(seen'.data))
    BY <1>2 DEF Sound
  <2>4. NoLineHeld' /\ Shown'
    BY <1>10, <2>1 DEF NoLineHeld, Shown
  <2> QED BY <1>9, <2>2, <2>3, <2>4 DEF Sound
<1> QED BY <1>2, <1>8, <1>9, <1>11, <1>12, <1>13 DEF StreamInv

(* rewind, after the flush. *)
LEMMA RewindTo0Keeps == ASSUME StreamInv, RewindTo0 PROVE StreamInv'
<1>1. kind # "mem" /\ call.at = "rewind"
  BY DEF RewindTo0, StreamInv, Place, Locals
<1>2. UNCHANGED <<stream, file, pub, want, seen>>
      /\ buf' = <<>> /\ bpos' = 0 /\ err' = FALSE /\ eof' = FALSE /\ ungot' = <<>> /\ cur' = 0
      /\ off' \in {0, off} /\ told' = (told \/ err \/ off' # 0)
      /\ call' = [Idle EXCEPT !.op = "return", !.left = <<"rewind">>]
  BY DEF RewindTo0
<1>3. off' \in Nat /\ bufsize \in Nat /\ told' \in BOOLEAN
  BY <1>2 DEF StreamInv, StreamTypes
<1>4. IsCall(call') /\ call'.at = "idle" /\ call'.op = "return"
  BY <1>2, Zenon DEF IsCall, Idle
<1>5. Place' /\ Locals' /\ call'.at \notin AfterFlush
  BY <1>4, Rested, Zenon
<1>6. ungot' \in Seq(Octets) /\ Len(ungot') <= 1 /\ eof' \in BOOLEAN /\ err' \in BOOLEAN
      /\ buf' \in Seq(Octets) /\ Len(buf') = 0
  BY <1>2, NoneYet, Zenon
<1>7. StreamTypes'
  <2>1. UNCHANGED <<kind, access, bufsize, mode, file, want, seen>> /\ bpos' = 0 /\ cur' = 0
    BY <1>2 DEF stream
  <2>2. IsCall(call')
    BY <1>4
  <2> QED BY <1>3, <1>6, <2>1, <2>2 DEF StreamInv, StreamTypes
<1>8. Buffering'
  BY <1>2 DEF StreamInv, Buffering, stream
<1>9. err' \/ told' \/ Sound'
  <2> SUFFICES ASSUME ~told' PROVE Sound'
    OBVIOUS
  <2>0. ~told /\ ~err /\ off' = 0
    BY <1>2, Zenon
  <2>1. Sound /\ StreamTypes
    BY <2>0 DEF StreamInv
  <2>2. want = file
    <3>1. buf = <<>>
      BY <1>1, <2>1 DEF Sound, AfterFlush
    <3> QED BY <1>1, <2>1, <3>1, NothingPending
  <2>3. kind' # "mem" /\ want' = file' /\ cur' = off'
    BY <1>1, <1>2, <2>0, <2>2 DEF stream
  <2>4. Meaning'
    BY <1>2, <1>3, <2>3, MeaningWithoutBuffer
  <2>5. seen'.data = Slice(want', seen'.from, Len(seen'.data))
    BY <1>2, <2>1 DEF Sound
  <2>6. NoLineHeld' /\ Shown'
    BY <1>6, <2>3 DEF NoLineHeld, Shown
  <2> QED BY <1>5, <2>4, <2>5, <2>6 DEF Sound
<1> QED BY <1>5, <1>7, <1>8, <1>9 DEF StreamInv

(* freopen, after the flush: a new stream. *)
LEMMA ReopenKeeps == ASSUME StreamInv, Reopen PROVE StreamInv'
<1>1. kind' = "fd" /\ file' = want' /\ off' = 0 /\ cur' = 0 /\ buf' = <<>> /\ bpos' = 0 /\ bufsize' = 0
      /\ mode' = "none" /\ err' = FALSE /\ eof' = FALSE /\ ungot' = <<>> /\ told' = FALSE
      /\ call' = [Idle EXCEPT !.op = "return", !.left = <<"freopen">>]
      /\ seen' = [from |-> 0, data |-> <<>>]
  BY DEF Reopen
<1>2. access' \in {"r", "w", "a", "r+"}
  BY StreamAssumption DEF Reopen
<1>3. want' \in Seq(Octets)
  <2>1. PICK d \in Contents : want' = IF access' = "w" THEN <<>> ELSE d
    BY DEF Reopen
  <2>2. d \in Seq(Octets)
    BY StreamAssumption, BytesAreOctets
  <2> QED BY <2>1, <2>2, EmptyBytes
<1>4. IsCall(call') /\ call'.at = "idle" /\ call'.op = "return"
  BY <1>1, Zenon DEF IsCall, Idle
<1>5. Place' /\ Locals' /\ call'.at \notin AfterFlush
  BY <1>4, Rested, Zenon
<1>6. ungot' \in Seq(Octets) /\ Len(ungot') <= 1 /\ buf' \in Seq(Octets) /\ Len(buf') = 0
      /\ seen'.from = 0 /\ seen'.data = <<>> /\ <<>> \in Seq(Octets)
  BY <1>1, EmptyBytes
<1>7. StreamTypes'
  <2>1. seen' = [from |-> seen'.from, data |-> seen'.data] /\ err' \in BOOLEAN /\ eof' \in BOOLEAN /\ told' \in BOOLEAN
    BY <1>1, Zenon
  <2>2. IsCall(call')
    BY <1>4
  <2>3. kind' = "fd" /\ file' = want' /\ off' = 0 /\ cur' = 0 /\ bpos' = 0 /\ bufsize' = 0 /\ mode' = "none"
    BY <1>1
  <2> QED BY <1>2, <1>3, <1>6, <2>1, <2>2, <2>3 DEF StreamTypes
<1>8. Buffering'
  BY <1>1 DEF Buffering
<1>9. Meaning'
  BY <1>1, MeaningWithoutBuffer
<1>10. seen'.data = Slice(want', seen'.from, Len(seen'.data))
  BY <1>3, <1>6, EmptySlice
<1>11. NoLineHeld' /\ Shown'
  BY <1>1 DEF NoLineHeld, Shown
<1> QED BY <1>5, <1>7, <1>8, <1>9, <1>10, <1>11 DEF StreamInv, Sound

(* setvbuf. *)
LEMMA SetvbufKeeps == ASSUME StreamInv, Setvbuf PROVE StreamInv'
<1>1. PICK n \in BufSizes, m \in {"full", "line"} :
        /\ kind = "fd" /\ access # "r+" /\ buf = <<>>
        /\ Start([Idle EXCEPT !.op = "return"])
        /\ bufsize' = n /\ mode' = m /\ buf' = <<>> /\ bpos' = 0
        /\ UNCHANGED <<kind, access, file, off, err, eof, ungot, pub, ghosts>>
  BY DEF Setvbuf
<1>2. n \in Nat /\ UNCHANGED <<want, cur, seen, told>>
  BY <1>1, StreamAssumption DEF ghosts
<1>3. call' = [Idle EXCEPT !.op = "return"]
  BY <1>1, StartIdle DEF StreamInv
<1>4. IsCall(call') /\ call'.at = "idle" /\ call'.op = "return"
  BY <1>3, Zenon DEF IsCall, Idle
<1>5. Place' /\ Locals' /\ call'.at \notin AfterFlush
  BY <1>4, Rested, Zenon
<1>6. buf' \in Seq(Octets) /\ Len(buf') = 0
  BY <1>1, EmptyBytes
<1>7. StreamTypes'
  BY <1>1, <1>2, <1>4, <1>6 DEF StreamInv, StreamTypes
<1>8. Buffering'
  BY <1>1 DEF Buffering
<1>9. Sound => Sound'
  <2> SUFFICES ASSUME Sound PROVE Sound'
    OBVIOUS
  <2>1. want = file /\ cur = off /\ off \in Nat
    <3>1. StreamTypes /\ kind # "mem" /\ buf = <<>>
      BY <1>1 DEF StreamInv
    <3> QED BY <3>1, NothingPending DEF StreamTypes
  <2>2. Meaning'
    BY <1>1, <1>2, <2>1, MeaningWithoutBuffer
  <2>3. seen'.data = Slice(want', seen'.from, Len(seen'.data))
    BY <1>2 DEF Sound
  <2>4. NoLineHeld' /\ Shown'
    BY <1>1, <1>6 DEF NoLineHeld, Shown
  <2> QED BY <1>5, <2>2, <2>3, <2>4 DEF Sound
<1> QED BY <1>1, <1>2, <1>5, <1>7, <1>8, <1>9 DEF StreamInv

(* What Accept leaves. *)
LEMMA AcceptTypes ==
  ASSUME StreamTypes, call.left \in Seq(Octets), NEW k \in 0 .. Len(call.left), Accept(k)
  PROVE  /\ want' \in Seq(Octets) /\ cur' \in Int
         /\ seen' = [from |-> seen'.from, data |-> seen'.data] /\ seen'.from \in Int /\ seen'.data \in Seq(Octets)
         /\ seen'.data = Slice(want', seen'.from, Len(seen'.data))
<1> DEFINE p == IF access = "a" /\ kind # "mem" THEN Len(want) ELSE cur
           s == SubSeq(call.left, 1, k)
<1>1. s \in Seq(Octets) /\ Len(s) = k
  BY PrefixProperties
<1>2. p \in Int /\ k \in Int /\ want \in Seq(Octets)
  BY LengthNat DEF StreamTypes
<1>3. want' = Overlay(want, p, s) /\ cur' = p + k /\ seen' = [from |-> 0, data |-> <<>>]
  BY DEF Accept
<1> HIDE DEF p, s
<1>4. want' \in Seq(Octets)
  BY <1>1, <1>2, <1>3, OverlayProperties
<1>5. seen' = [from |-> seen'.from, data |-> seen'.data] /\ seen'.from = 0 /\ seen'.data = <<>>
  BY <1>3
<1>6. <<>> \in Seq(Octets) /\ <<>> = Slice(want', 0, Len(<<>>))
  BY <1>4, EmptySlice, EmptyBytes
<1> QED BY <1>2, <1>3, <1>4, <1>5, <1>6

(* What fwrite has still to write. *)
LEMMA RestProperties ==
  ASSUME call.left \in Seq(Octets), NEW k \in 0 .. Len(call.left)
  PROVE  Rest(k) \in Seq(Octets)
<1>1. Len(call.left) \in Nat /\ k \in Nat /\ Len(call.left) - k \in Nat /\ k + (Len(call.left) - k) = Len(call.left)
  BY LengthNat
<1>2. Rest(k) = Slice(call.left, k, Len(call.left) - k)
  BY <1>1 DEF Rest, Slice
<1>3. k + (Len(call.left) - k) <= Len(call.left)
  BY <1>1
<1> QED BY <1>1, <1>2, <1>3, SliceProperties

(* fwrite to memory: there is room for all of it. *)
LEMMA WriteMemKeeps == ASSUME StreamInv, WriteMem PROVE StreamInv'
<1> DEFINE needed == bpos + Len(call.left)
           room == Greater(bufsize, call.cap)
<1>1. /\ call.at = "write" /\ kind = "mem" /\ call.left # <<>> /\ needed <= room
      /\ bufsize' = room /\ buf' = Overlay(buf, bpos, call.left) /\ bpos' = needed
      /\ Accept(Len(call.left)) /\ call' = [call EXCEPT !.left = <<>>]
      /\ UNCHANGED <<kind, access, mode, file, off, err, eof, ungot, pub, told>>
  BY DEF WriteMem
<1>2. /\ call.op = "fwrite" /\ access # "r" /\ call.left \in Seq(Octets) /\ call.cap \in Nat
      /\ StreamTypes /\ IsCall(call)
  BY <1>1 DEF StreamInv, Place, Locals, StreamTypes
<1>3. /\ Len(call.left) \in Nat /\ Len(call.left) \in 0 .. Len(call.left) /\ Len(buf) \in Nat /\ bpos \in Nat
      /\ bpos \in Int /\ bpos <= Len(buf) /\ buf \in Seq(Octets) /\ bufsize \in Nat /\ Len(buf) <= bufsize
      /\ Len(call.left) # 0
  BY <1>1, <1>2, LengthNat, EmptyBytes DEF StreamTypes
<1>4. /\ want' \in Seq(Octets) /\ cur' \in Int
      /\ seen' = [from |-> seen'.from, data |-> seen'.data] /\ seen'.from \in Int /\ seen'.data \in Seq(Octets)
      /\ seen'.data = Slice(want', seen'.from, Len(seen'.data))
  BY <1>1, <1>2, <1>3, AcceptTypes
<1>5. buf' \in Seq(Octets) /\ Len(buf') = Greater(Len(buf), bpos + Len(call.left))
  BY <1>1, <1>2, <1>3, OverlayProperties, Zenon
<1>6. room \in Nat /\ Len(buf') <= room /\ needed \in 0 .. Len(buf') /\ Len(buf') # 0
  BY <1>1, <1>2, <1>3, <1>5 DEF Greater
<1>7. IsCall(call') /\ call'.at = "write" /\ call'.op = "fwrite" /\ call'.left = <<>> /\ call'.cap = call.cap
  BY <1>1, <1>2 DEF IsCall
<1>8. Place'
  BY <1>7 DEF Place
<1>9. Locals'
  BY <1>1, <1>2, <1>7, EmptyBytes DEF Locals, Readers
<1> HIDE DEF needed, room
<1>10. StreamTypes'
  <2>1. UNCHANGED <<kind, access, mode, file, off, err, eof, ungot, told>> /\ bufsize' = room /\ bpos' = needed
    BY <1>1
  <2>2. IsCall(call')
    BY <1>7
  <2> QED BY <1>2, <1>4, <1>5, <1>6, <2>1, <2>2 DEF StreamTypes
<1>11. Buffering'
  BY <1>1 DEF StreamInv, Buffering
<1>12. Sound => Sound'
  <2> SUFFICES ASSUME Sound PROVE Sound'
    OBVIOUS
  <2>1. buf = want /\ bpos = cur
    BY <1>1 DEF Sound, Meaning
  <2>2. want' = Overlay(want, cur, SubSeq(call.left, 1, Len(call.left))) /\ cur' = cur + Len(call.left)
    BY <1>1 DEF Accept
  <2>3. SubSeq(call.left, 1, Len(call.left)) = call.left
    BY <1>2, WholePart
  <2>4. Meaning'
    BY <1>1, <2>1, <2>2, <2>3, Zenon DEF Meaning, needed
  <2>5. NoLineHeld'
    BY <1>1 DEF StreamInv, Buffering, NoLineHeld
  <2>6. want' # <<>>
    <3>1. want' = buf'
      BY <1>1, <2>1, <2>2, <2>3, Zenon
    <3> QED BY <1>6, <3>1, EmptyBytes
  <2>7. Shown'
    BY <1>7, <2>6 DEF Shown
  <2>8. call'.at \notin AfterFlush
    BY <1>7 DEF AfterFlush
  <2> QED BY <1>4, <2>4, <2>5, <2>7, <2>8 DEF Sound
<1> QED BY <1>1, <1>8, <1>9, <1>10, <1>11, <1>12 DEF StreamInv

(* fwrite without a buffer. *)
LEMMA WriteThroughKeeps == ASSUME StreamInv, WriteThrough PROVE StreamInv'
<1>1. PICK k \in 1 .. Len(call.left) :
        KernelWrite(SubSeq(call.left, 1, k)) /\ Accept(k) /\ call' = [call EXCEPT !.left = Rest(k)]
  BY DEF WriteThrough
<1>2. /\ call.at = "write" /\ kind # "mem" /\ bufsize = 0
      /\ UNCHANGED <<stream, buf, bpos, err, eof, ungot, pub, told>>
  BY DEF WriteThrough
<1>3. /\ call.op = "fwrite" /\ access # "r" /\ call.left \in Seq(Octets) /\ call.cap \in Nat
      /\ StreamTypes /\ IsCall(call) /\ file \in Seq(Octets) /\ off \in Nat
  BY <1>2 DEF StreamInv, Place, Locals, StreamTypes
<1> DEFINE s == SubSeq(call.left, 1, k)
<1>4. k \in 0 .. Len(call.left) /\ k # 0
  BY <1>3, LengthNat
<1>5. s \in Seq(Octets) /\ Len(s) = k
  BY <1>3, <1>4, PrefixProperties
<1> HIDE DEF s
<1>6. /\ want' \in Seq(Octets) /\ cur' \in Int
      /\ seen' = [from |-> seen'.from, data |-> seen'.data] /\ seen'.from \in Int /\ seen'.data \in Seq(Octets)
      /\ seen'.data = Slice(want', seen'.from, Len(seen'.data))
  BY <1>1, <1>3, <1>4, AcceptTypes
<1>7. KernelWrite(s) /\ want' = Overlay(want, IF access = "a" /\ kind # "mem" THEN Len(want) ELSE cur, s)
      /\ cur' = (IF access = "a" /\ kind # "mem" THEN Len(want) ELSE cur) + k
  BY <1>1 DEF s, Accept
<1>8. file' \in Seq(Octets) /\ off' \in Nat
  BY <1>3, <1>5, <1>7, KernelWriteTypes
<1>9. Rest(k) \in Seq(Octets)
  BY <1>3, <1>4, RestProperties
<1>10. IsCall(call') /\ call'.at = "write" /\ call'.op = "fwrite" /\ call'.left = Rest(k) /\ call'.cap = call.cap
  BY <1>1, <1>2, <1>3 DEF IsCall
<1>11. Place'
  BY <1>10 DEF Place
<1>12. Locals'
  BY <1>2, <1>3, <1>9, <1>10 DEF Locals, Readers, stream
<1>13. StreamTypes'
  <2>1. UNCHANGED <<kind, access, mode, bufsize, buf, bpos, err, eof, ungot, told>>
    BY <1>2 DEF stream
  <2>2. IsCall(call')
    BY <1>10
  <2> QED BY <1>3, <1>6, <1>8, <2>1, <2>2 DEF StreamTypes
<1>14. Buffering'
  BY <1>2 DEF StreamInv, Buffering, stream
<1>15. Sound => Sound'
  <2> SUFFICES ASSUME Sound PROVE Sound'
    OBVIOUS
  <2>1. buf = <<>> /\ bpos = 0
    <3>1. Len(buf) = 0 /\ buf \in Seq(Octets) /\ bpos = 0
      BY <1>2, <1>3, LengthNat DEF StreamTypes
    <3> QED BY <3>1, EmptyBytes
  <2>2. want = file /\ cur = off
    BY <1>2, <1>3, <2>1, NothingPending
  <2>3. s # <<>>
    BY <1>4, <1>5, EmptyBytes
  <2>4. want' = file' /\ cur' = off'
    BY <1>2, <1>5, <1>7, <2>2, <2>3 DEF KernelWrite
  <2>5. kind' # "mem" /\ buf' = <<>> /\ bpos' = 0
    BY <1>2, <2>1 DEF stream
  <2>6. Meaning'
    BY <1>8, <2>4, <2>5, MeaningWithoutBuffer
  <2>7. Len(buf') = 0
    BY <2>5, EmptyBytes
  <2>8. NoLineHeld' /\ Shown'
    BY <2>5, <2>7 DEF NoLineHeld, Shown
  <2>9. call'.at \notin AfterFlush
    BY <1>10 DEF AfterFlush
  <2> QED BY <1>6, <2>6, <2>8, <2>9 DEF Sound
<1> QED BY <1>2, <1>11, <1>12, <1>13, <1>14, <1>15 DEF StreamInv

(* fwrite into the buffer: what is there and what is added are one write;  *)
(* a newline is followed by a flush.                                       *)
LEMMA WriteBufferedKeeps == ASSUME StreamInv, WriteBuffered PROVE StreamInv'
<1> DEFINE k == Portion
           c == [call EXCEPT !.left = Rest(k)]
           s == SubSeq(call.left, 1, k)
<1>1. /\ call.at = "write" /\ bufsize > 0 /\ kind = "fd" /\ call.left # <<>> /\ Len(buf) < bufsize
      /\ buf' = buf \o s /\ Accept(k) /\ call' = IF FlushNow(k) THEN ThenFlush(c) ELSE c
      /\ UNCHANGED <<stream, file, off, bpos, err, eof, ungot, pub, told>>
  BY DEF WriteBuffered
<1>2. /\ call.op = "fwrite" /\ access # "r" /\ call.left \in Seq(Octets) /\ call.cap \in Nat
      /\ StreamTypes /\ Buffering /\ IsCall(call) /\ file \in Seq(Octets) /\ off \in Nat /\ buf \in Seq(Octets)
      /\ bufsize \in Nat /\ Len(buf) \in Nat /\ bpos \in 0 .. Len(buf)
  BY <1>1, LengthNat DEF StreamInv, Place, Locals, StreamTypes
<1>3. Writing /\ access \in {"w", "a"}
  BY <1>1, <1>2, BufferedWrites DEF Writing
<1>4. k \in 1 .. Len(call.left) /\ k <= bufsize - Len(buf) /\ k \in 0 .. Len(call.left) /\ (mode = "line" => k = 1)
  <2>1. Len(call.left) \in Nat /\ Len(call.left) # 0 /\ bufsize - Len(buf) \in Nat /\ bufsize - Len(buf) # 0
    BY <1>1, <1>2, LengthNat, EmptyBytes
  <2> QED BY <2>1 DEF Portion, Lesser
<1> HIDE DEF k
<1>5. s \in Seq(Octets) /\ Len(s) = k /\ \A i \in 1 .. k : s[i] = call.left[i]
  BY <1>2, <1>4, PrefixProperties
<1> HIDE DEF s
<1>6. /\ want' \in Seq(Octets) /\ cur' \in Int
      /\ seen' = [from |-> seen'.from, data |-> seen'.data] /\ seen'.from \in Int /\ seen'.data \in Seq(Octets)
      /\ seen'.data = Slice(want', seen'.from, Len(seen'.data))
  BY <1>1, <1>2, <1>4, AcceptTypes
<1>7. buf' \in Seq(Octets) /\ Len(buf') = Len(buf) + k
      /\ \A i \in 1 .. Len(buf) + k : buf'[i] = IF i <= Len(buf) THEN buf[i] ELSE s[i - Len(buf)]
  BY <1>1, <1>2, <1>5, Joined, Zenon
<1>8. Rest(k) \in Seq(Octets)
  BY <1>2, <1>4, RestProperties
<1>9. /\ IsCall(call') /\ call'.op = "fwrite" /\ call'.left = Rest(k) /\ call'.cap = call.cap
      /\ \/ FlushNow(k) /\ call'.at = "flush" /\ call'.ok = "write" /\ call'.bad = "short"
         \/ ~FlushNow(k) /\ call'.at = "write"
  BY <1>1, <1>2, Zenon DEF IsCall, ThenFlush
<1>10. Place'
  BY <1>9 DEF Place, Flushing
<1>11. Locals'
  BY <1>1, <1>2, <1>8, <1>9 DEF Locals, Readers, stream
<1>12. StreamTypes'
  <2>1. UNCHANGED <<kind, access, mode, bufsize, file, off, bpos, err, eof, ungot, told>>
    BY <1>1 DEF stream
  <2>2. IsCall(call')
    BY <1>9
  <2>3. Len(buf') <= bufsize /\ bpos \in 0 .. Len(buf')
    BY <1>2, <1>4, <1>7
  <2> QED BY <1>2, <1>6, <1>7, <2>1, <2>2, <2>3 DEF StreamTypes
<1>13. Buffering'
  BY <1>1, <1>2 DEF Buffering, stream
<1>14. Sound => Sound'
  <2> SUFFICES ASSUME Sound PROVE Sound'
    OBVIOUS
  <2> DEFINE at == IF access = "a" THEN Len(file) ELSE off
             p == IF access = "a" /\ kind # "mem" THEN Len(want) ELSE cur
  <2>0. at \in Nat
    BY <1>2, LengthNat
  <2>1. want = Overlay(file, at, buf) /\ cur = (IF access = "a" /\ buf # <<>> THEN Len(file) ELSE off) + Len(buf)
    BY <1>1, <1>3 DEF Sound, Meaning
  <2>2. want' = Overlay(want, p, s) /\ cur' = p + k
    BY <1>1 DEF Accept, s
  <2>3. p = at + Len(buf)
    <3>1. CASE access = "w"
      BY <1>3, <2>1, <3>1
    <3>2. CASE access = "a" /\ buf = <<>>
      <4>1. Len(buf) = 0 /\ want = file /\ Len(file) \in Nat
        BY <1>2, <2>1, <3>2, EmptyBytes, LengthNat DEF Overlay
      <4> QED BY <1>1, <3>2, <4>1
    <3>3. CASE access = "a" /\ buf # <<>>
      <4>1. at \in Int /\ at = Len(file) /\ Len(file) \in Nat
        BY <1>2, <3>3, LengthNat
      <4> HIDE DEF at
      <4>2. Len(want) = Greater(Len(file), at + Len(buf))
        BY <1>2, <2>1, <3>3, <4>1, OverlayProperties
      <4> QED BY <1>1, <1>2, <3>3, <4>1, <4>2 DEF Greater
    <3> QED BY <1>3, <3>1, <3>2, <3>3
  <2> HIDE DEF p
  <2>4. want' = Overlay(file, at, buf')
    <3> HIDE DEF at
    <3>1. Overlay(Overlay(file, at, buf), at + Len(buf), s) = Overlay(file, at, buf \o s)
      <4>1. file \in Seq(Octets) /\ buf \in Seq(Octets) /\ s \in Seq(Octets)
        BY <1>2, <1>5
      <4> QED BY <2>0, <4>1, OverlayJoin, Zenon
    <3> QED BY <1>1, <2>1, <2>2, <2>3, <3>1, Zenon
  <2>5. cur' = at + Len(buf') /\ buf' # <<>>
    <3> HIDE DEF at
    <3>1. at + Len(buf) + k = at + (Len(buf) + k) /\ Len(buf) + k # 0
      BY <1>2, <1>4, <2>0
    <3> QED BY <1>7, <2>2, <2>3, <3>1, EmptyBytes, Zenon
  <2>6. access' = access /\ file' = file /\ off' = off /\ kind' = kind /\ mode' = mode
    BY <1>1 DEF stream
  <2>7. Meaning'
    <3>1. Writing' /\ kind' # "mem"
      BY <1>1, <1>3, <2>6 DEF Writing
    <3>2. want' = Overlay(file', IF access' = "a" THEN Len(file') ELSE off', buf')
      BY <2>4, <2>6
    <3>3. cur' = (IF access' = "a" /\ buf' # <<>> THEN Len(file') ELSE off') + Len(buf')
      BY <2>5, <2>6
    <3> QED BY <3>1, <3>2, <3>3 DEF Meaning
  <2>8. NoLineHeld'
    <3> SUFFICES ASSUME mode' = "line", call'.at # "flush", NEW i \in 1 .. Len(buf') PROVE buf'[i] # NL
      BY DEF NoLineHeld
    <3>1. mode = "line" /\ k = 1 /\ ~FlushNow(k)
      BY <1>4, <1>9, <2>6
    <3>2. call.left[1] # NL
      BY <3>1 DEF FlushNow
    <3>3. i \in 1 .. Len(buf) + 1
      BY <1>7, <3>1
    <3>4. CASE i <= Len(buf)
      <4>1. i \in 1 .. Len(buf) /\ \A j \in 1 .. Len(buf) : buf[j] # NL
        BY <1>1, <1>2, <1>3, <3>1, <3>3, <3>4 DEF Sound, NoLineHeld
      <4> QED BY <1>7, <3>1, <3>3, <3>4, <4>1
    <3>5. CASE ~(i <= Len(buf))
      <4>1. i = Len(buf) + 1 /\ i - Len(buf) = 1
        BY <1>2, <3>3, <3>5
      <4> QED BY <1>5, <1>7, <3>1, <3>2, <3>3, <3>5, <4>1
    <3> QED BY <3>4, <3>5
  <2>9. Shown' /\ call'.at \notin AfterFlush
    BY <1>1, <1>9, <2>6 DEF Shown, AfterFlush
  <2> QED BY <1>6, <2>7, <2>8, <2>9 DEF Sound
<1> QED BY <1>1, <1>10, <1>11, <1>12, <1>13, <1>14 DEF StreamInv

(* What a read leaves when it takes the bytes s from where the client is. *)
LEMMA TakeKeeps ==
  ASSUME StreamInv, NEW k \in Nat, NEW s \in Seq(Octets), Len(s) = k, k <= call.n, Take(s), call.at = "read",
         UNCHANGED <<stream, file, buf, err, eof, ungot, pub, want, told>>,
         off' \in Nat, bpos' \in 0 .. Len(buf'),
         Sound => Meaning' /\ s = Slice(want, cur, k)
  PROVE  StreamInv'
<1>1. /\ call.op \in Readers /\ StreamTypes /\ Locals /\ IsCall(call) /\ cur \in Int /\ access' = access
      /\ call.n \in Nat /\ (call.op = "getline" => call.n = 1) /\ access \notin {"w", "a"} /\ Len(s) \in Nat
  BY DEF StreamInv, StreamTypes, Place, Locals, stream
<1>2. seen' = [from |-> cur, data |-> s] /\ cur' = cur + k /\ call' = Got(s)
  BY DEF Take
<1>3. IsCall(call') /\ Place' /\ Locals' /\ call'.op = call.op
      /\ call'.at \notin AfterFlush \cup {"flush", "idle"}
  <2>1. (call.op = "fread" => Len(s) <= call.n) /\ (call.op = "getline" => Len(s) <= 1) /\ call.at \in {"char", "read"}
    BY <1>1
  <2> QED BY <1>1, <1>2, <2>1, GotCall, Zenon
<1>4. /\ seen' = [from |-> seen'.from, data |-> seen'.data] /\ seen'.from = cur /\ seen'.data = s
      /\ cur' \in Int
  BY <1>1, <1>2
<1>5. StreamTypes'
  <2>1. UNCHANGED <<kind, access, mode, bufsize, file, buf, err, eof, ungot, want, told>>
    BY DEF stream
  <2>2. IsCall(call')
    BY <1>3
  <2>3. seen'.from \in Int /\ seen'.data \in Seq(Octets)
    BY <1>1, <1>4
  <2> QED BY <1>1, <1>4, <2>1, <2>2, <2>3 DEF StreamTypes
<1>6. Buffering'
  BY DEF StreamInv, Buffering, stream
<1>7. Sound => Sound'
  <2> SUFFICES ASSUME Sound PROVE Sound'
    OBVIOUS
  <2>1. seen'.data = Slice(want', seen'.from, Len(seen'.data))
    BY <1>4
  <2>2. NoLineHeld' /\ Shown'
    BY <1>1 DEF NoLineHeld, Writing, Shown
  <2> QED BY <1>3, <2>1, <2>2 DEF Sound
<1> QED BY <1>3, <1>5, <1>6, <1>7 DEF StreamInv

(* A read from the buffer. *)
LEMMA ReadBufferedKeeps == ASSUME StreamInv, ReadBuffered PROVE StreamInv'
<1> DEFINE k == Lesser(call.n, Ahead)
           s == Slice(buf, bpos, k)
<1>1. /\ call.at = "read" /\ Ahead > 0 /\ Take(s) /\ bpos' = bpos + k
      /\ UNCHANGED <<stream, file, off, buf, err, eof, ungot, pub, want, told>>
  BY DEF ReadBuffered
<1>2. /\ call.op \in Readers /\ call.n \in Nat /\ access \notin {"w", "a"} /\ buf \in Seq(Octets) /\ Len(buf) \in Nat
      /\ bpos \in 0 .. Len(buf) /\ bpos \in Nat /\ Ahead \in Nat /\ off \in Nat /\ cur \in Int
      /\ file \in Seq(Octets) /\ Len(file) \in Nat
  BY <1>1, LengthNat DEF StreamInv, StreamTypes, Place, Locals, Ahead
<1>3. k \in Nat /\ k <= call.n /\ k <= Ahead
  BY <1>2, LesserNat, Zenon
<1> HIDE DEF k
<1>4. bpos + k <= Len(buf) /\ bpos' \in 0 .. Len(buf')
  BY <1>1, <1>2, <1>3 DEF Ahead
<1>5. s \in Seq(Octets) /\ Len(s) = k
  <2>1. buf \in Seq(Octets) /\ bpos \in Nat /\ k \in Nat /\ bpos + k <= Len(buf)
    BY <1>2, <1>3, <1>4
  <2> QED BY <2>1, SliceProperties, Zenon
<1>6. ASSUME Sound PROVE Meaning' /\ s = Slice(want, cur, k)
  <2>1. CASE kind = "mem"
    <3>1. buf = want /\ bpos = cur
      BY <1>6, <2>1 DEF Sound, Meaning
    <3>2. cur' = cur + k
      BY <1>1, <1>5 DEF Take
    <3> QED BY <1>1, <2>1, <3>1, <3>2 DEF Meaning, stream
  <2>2. CASE kind # "mem"
    <3>1. /\ want = file /\ cur + Ahead = off
          /\ buf # <<>> => Len(buf) <= off /\ off <= Len(file) /\ buf = Slice(file, off - Len(buf), Len(buf))
      BY <1>2, <1>6, <2>2 DEF Sound, Meaning, Writing
    <3>2. buf # <<>>
      <4>1. Len(buf) # 0
        BY <1>1, <1>2 DEF Ahead
      <4> QED BY <4>1, EmptyBytes
    <3>3. off - Len(buf) \in Nat /\ off - Len(buf) + Len(buf) <= Len(file) /\ off - Len(buf) + bpos = cur
      BY <1>2, <3>1, <3>2 DEF Ahead
    <3>4. Slice(Slice(file, off - Len(buf), Len(buf)), bpos, k) = Slice(file, off - Len(buf) + bpos, k)
      BY <1>2, <1>3, <1>4, <3>3, SliceOfSlice
    <3>5. s = Slice(want, cur, k)
      BY <3>1, <3>2, <3>3, <3>4, Zenon
    <3>6. cur' = cur + k
      BY <1>1, <1>5 DEF Take
    <3>7. cur' + Ahead' = off'
      <4>1. Ahead' = Len(buf) - (bpos + k)
        BY <1>1 DEF Ahead
      <4> QED BY <1>1, <1>2, <1>3, <3>1, <3>6, <4>1 DEF Ahead
    <3>8. ~Writing' /\ kind' # "mem"
      BY <1>1, <1>2, <2>2 DEF Writing, stream
    <3> QED BY <1>1, <3>1, <3>5, <3>7, <3>8 DEF Meaning
  <2> QED BY <2>1, <2>2
<1>7. off' \in Nat
  BY <1>1, <1>2
<1> HIDE DEF s
<1> QED BY <1>1, <1>3, <1>4, <1>5, <1>6, <1>7, TakeKeeps

(* A read without a buffer. *)
LEMMA ReadThroughKeeps == ASSUME StreamInv, ReadThrough PROVE StreamInv'
<1>1. PICK k \in 1 .. call.n : KernelRead(call.n, k) /\ Take(Slice(file, off, k))
  BY DEF ReadThrough
<1>2. /\ call.at = "read" /\ kind # "mem" /\ bufsize = 0
      /\ UNCHANGED <<stream, file, buf, bpos, err, eof, ungot, pub, want, told>>
  BY DEF ReadThrough
<1>3. /\ call.n \in Nat /\ off \in Nat /\ cur \in Int /\ file \in Seq(Octets) /\ Len(file) \in Nat
      /\ bpos \in 0 .. Len(buf) /\ buf \in Seq(Octets) /\ Len(buf) \in Nat /\ Len(buf) <= bufsize
      /\ StreamTypes
  BY <1>2, LengthNat DEF StreamInv, StreamTypes, Place, Locals
<1>4. k \in Nat /\ k <= call.n /\ off + k <= Len(file) /\ off' = off + k
  BY <1>1, <1>3 DEF KernelRead, Lesser
<1> DEFINE s == Slice(file, off, k)
<1>5. s \in Seq(Octets) /\ Len(s) = k
  BY <1>3, <1>4, SliceProperties, Zenon
<1>6. ASSUME Sound PROVE Meaning' /\ s = Slice(want, cur, k)
  <2>1. buf = <<>> /\ bpos = 0
    <3>1. Len(buf) = 0 /\ bpos = 0
      BY <1>2, <1>3
    <3> QED BY <1>3, <3>1, EmptyBytes
  <2>2. want = file /\ cur = off
    BY <1>2, <1>3, <1>6, <2>1, NothingPending
  <2>3. cur' = off'
    BY <1>1, <1>4, <1>5, <2>2 DEF Take
  <2>4. kind' # "mem" /\ buf' = <<>> /\ bpos' = 0 /\ want' = file' /\ off' \in Nat
    BY <1>2, <1>3, <1>4, <2>1, <2>2 DEF stream
  <2>5. Meaning'
    BY <2>3, <2>4, MeaningWithoutBuffer
  <2> QED BY <2>2, <2>5
<1>7. off' \in Nat /\ bpos' \in 0 .. Len(buf')
  BY <1>2, <1>3, <1>4
<1>8. Take(s)
  BY <1>1
<1> HIDE DEF s
<1> QED BY <1>2, <1>4, <1>5, <1>6, <1>7, <1>8, TakeKeeps

(* A stream and a call that stay as they are. *)
LEMMA SameCall ==
  ASSUME Buffering, Place, Locals, kind' = kind, access' = access, bufsize' = bufsize, mode' = mode, call' = call
  PROVE  Buffering' /\ Place' /\ Locals'
<1>1. Buffering'
  BY DEF Buffering
<1>2. Place'
  BY DEF Place, Flushing
<1>3. Locals'
  BY DEF Locals
<1> QED BY <1>1, <1>2, <1>3

(* The buffer is filled again when it is used up. *)
LEMMA RefillKeeps == ASSUME StreamInv, Refill PROVE StreamInv'
<1>1. PICK k \in 1 .. bufsize : KernelRead(bufsize, k) /\ buf' = Slice(file, off, k)
  BY DEF Refill
<1>2. /\ call.at = "read" /\ kind = "fd" /\ Ahead = 0 /\ bpos' = 0 /\ call' = call
      /\ UNCHANGED <<stream, file, err, eof, ungot, pub, want, cur, seen, told>>
  BY DEF Refill, ghosts
<1>3. /\ access \notin {"w", "a"} /\ off \in Nat /\ cur \in Int /\ file \in Seq(Octets) /\ Len(file) \in Nat
      /\ bufsize \in Nat /\ StreamTypes
  BY <1>2, LengthNat DEF StreamInv, StreamTypes, Place, Locals
<1>4. k \in Nat /\ k <= bufsize /\ off + k <= Len(file) /\ off' = off + k /\ off' \in Nat
  BY <1>1, <1>3 DEF KernelRead, Lesser
<1>5. buf' \in Seq(Octets) /\ Len(buf') = k
  BY <1>1, <1>3, <1>4, SliceProperties
<1>6. StreamTypes'
  <2>1. UNCHANGED <<kind, access, mode, bufsize, file, err, eof, ungot, want, cur, seen, told, call>> /\ bpos' = 0
    BY <1>2 DEF stream
  <2>2. bpos' \in 0 .. Len(buf') /\ Len(buf') <= bufsize
    BY <1>4, <1>5, <2>1
  <2> QED BY <1>3, <1>4, <1>5, <2>1, <2>2 DEF StreamTypes
<1>7. Buffering' /\ Place' /\ Locals'
  <2>1. kind' = kind /\ access' = access /\ bufsize' = bufsize /\ mode' = mode /\ call' = call
    BY <1>2 DEF stream
  <2> QED BY <2>1, SameCall, Zenon DEF StreamInv
<1>8. Sound => Sound'
  <2> SUFFICES ASSUME Sound PROVE Sound'
    OBVIOUS
  <2>1. want = file /\ cur + Ahead = off
    BY <1>2, <1>3 DEF Sound, Meaning, Writing
  <2>2. ~Writing' /\ kind' # "mem" /\ want' = file'
    BY <1>2, <1>3, <2>1 DEF Writing, stream
  <2>3. cur' + Ahead' = off'
    BY <1>2, <1>3, <1>4, <1>5, <2>1 DEF Ahead
  <2>4. Len(buf') <= off' /\ off' <= Len(file') /\ off' - Len(buf') = off
    BY <1>2, <1>3, <1>4, <1>5
  <2>5. buf' = Slice(file', off' - Len(buf'), Len(buf'))
    BY <1>1, <1>2, <1>5, <2>4
  <2>6. Meaning'
    BY <2>2, <2>3, <2>4, <2>5 DEF Meaning
  <2>7. seen'.data = Slice(want', seen'.from, Len(seen'.data))
    BY <1>2 DEF Sound
  <2>8. NoLineHeld' /\ Shown' /\ call'.at \notin AfterFlush
    BY <1>2, <2>2 DEF NoLineHeld, Shown, AfterFlush, stream
  <2> QED BY <2>6, <2>7, <2>8, Zenon DEF Sound
<1> QED BY <1>2, <1>6, <1>7, <1>8 DEF StreamInv

(* A new stream is sound. *)
LEMMA StreamInitInv == StreamInit => StreamInv
<1> SUFFICES ASSUME StreamInit PROVE StreamInv
  OBVIOUS
<1>1. PICK s \in Streams, d \in Contents :
        /\ kind = s[1] /\ access = s[2]
        /\ \/ kind = "fd" /\ OpenFile(d) /\ Unbuffered
           \/ kind = "cookie" /\ OpenCookie(d) /\ Unbuffered
           \/ kind = "mem" /\ OpenMem(d)
  BY DEF StreamInit
<1>2. kind \in {"fd", "cookie", "mem"} /\ access \in {"r", "w", "a", "r+"}
  BY <1>1, StreamAssumption
<1>3. d \in Seq(Octets) /\ Len(d) \in Nat
  <2>1. d \in Seq(Octets)
    BY StreamAssumption, BytesAreOctets
  <2> QED BY <2>1, LengthNat
<1>4. <<>> \in Seq(Octets) /\ Len(<<>>) = 0
  BY EmptyBytes
<1>5. off = 0 /\ err = FALSE /\ eof = FALSE /\ ungot = <<>> /\ pub = <<>> /\ call = Idle
      /\ seen = [from |-> 0, data |-> <<>>] /\ told = FALSE
  BY DEF StreamInit
<1>6. IsCall(call) /\ call.at = "idle" /\ call.op = "none"
  BY <1>5, Zenon DEF IsCall, Idle
<1>7. Place /\ Locals /\ call.at \notin AfterFlush
  BY <1>6 DEF Place, Locals, Readers, AfterFlush
<1>8. seen = [from |-> seen.from, data |-> seen.data] /\ seen.from = 0 /\ seen.data = <<>>
  BY <1>5
<1>9. ungot \in Seq(Octets) /\ Len(ungot) <= 1
  BY <1>4, <1>5
<1>12. off \in Nat /\ err \in BOOLEAN /\ eof \in BOOLEAN /\ told \in BOOLEAN
      /\ seen.from \in Int /\ seen.data \in Seq(Octets) /\ seen = [from |-> seen.from, data |-> seen.data]
  <2>1. 0 \in Int /\ 0 \in Nat
    OBVIOUS
  <2>2. off \in Nat /\ seen.from \in Int
    BY <1>5, <1>8, <2>1, Zenon
  <2>3. err \in BOOLEAN /\ eof \in BOOLEAN /\ told \in BOOLEAN
    BY <1>5, Zenon
  <2>4. seen.data \in Seq(Octets)
    BY <1>4, <1>8, Zenon
  <2> QED BY <1>8, <2>2, <2>3, <2>4, Zenon
<1>13. IsCall(call)
  BY <1>6
<1>14. CASE kind # "mem"
  <2>1. want \in Seq(Octets) /\ file = want /\ buf = <<>> /\ cur = 0 /\ bufsize = 0 /\ bpos = 0 /\ mode = "none"
    BY <1>1, <1>3, <1>4, <1>14, Zenon DEF OpenFile, OpenCookie, Unbuffered
  <2>2. Len(buf) = 0 /\ buf \in Seq(Octets)
    BY <1>4, <2>1
  <2>3. StreamTypes
    <3>1. file \in Seq(Octets) /\ want \in Seq(Octets) /\ cur \in Int /\ bufsize \in Nat /\ Len(buf) <= bufsize
          /\ bpos \in 0 .. Len(buf) /\ mode \in {"none", "full", "line"}
      BY <2>1, <2>2
    <3> QED BY <1>2, <1>9, <1>12, <1>13, <2>2, <3>1 DEF StreamTypes
  <2>4. Buffering
    BY <2>1 DEF Buffering
  <2>5. want = Overlay(file, IF access = "a" THEN Len(file) ELSE off, buf)
    BY <2>1 DEF Overlay
  <2>6. cur = (IF access = "a" /\ buf # <<>> THEN Len(file) ELSE off) + Len(buf) /\ cur + Ahead = off
    BY <1>5, <2>1, <2>2 DEF Ahead
  <2>7. Meaning
    BY <1>14, <2>1, <2>5, <2>6 DEF Meaning
  <2>8. seen.data = Slice(want, seen.from, Len(seen.data))
    BY <1>8, <2>1, EmptySlice
  <2>9. NoLineHeld /\ Shown
    BY <1>14, <2>1 DEF NoLineHeld, Shown
  <2> QED BY <1>7, <2>3, <2>4, <2>7, <2>8, <2>9 DEF StreamInv, Sound
<1>11. CASE kind = "mem"
  <2>1. /\ access # "w" => d # <<>>
        /\ want = IF access = "w" THEN <<>> ELSE d
        /\ file = <<>> /\ buf = want
        /\ bufsize = IF access = "w" THEN MemSize ELSE Len(d)
        /\ bpos = IF access = "a" THEN Len(d) ELSE 0
        /\ cur = bpos /\ mode = "full"
    BY <1>1, <1>11 DEF OpenMem
  <2>2. buf \in Seq(Octets) /\ want \in Seq(Octets) /\ file \in Seq(Octets)
    BY <1>3, <1>4, <2>1
  <2>3. bufsize \in Nat /\ Len(buf) <= bufsize /\ bpos \in 0 .. Len(buf) /\ cur \in Int
    BY <1>3, <1>4, <2>1, StreamAssumption
  <2>4. StreamTypes
    <3>1. mode \in {"none", "full", "line"}
      BY <2>1
    <3> QED BY <1>2, <1>9, <1>12, <1>13, <2>2, <2>3, <3>1 DEF StreamTypes
  <2>5. Buffering
    BY <1>11, <2>1 DEF Buffering
  <2>6. Meaning
    BY <1>11, <2>1 DEF Meaning
  <2>7. seen.data = Slice(want, seen.from, Len(seen.data))
    BY <1>8, <2>2, EmptySlice
  <2>8. NoLineHeld /\ Shown
    BY <1>5, <1>6, <2>1 DEF NoLineHeld, Shown
  <2> QED BY <1>7, <2>4, <2>5, <2>6, <2>7, <2>8 DEF StreamInv, Sound
<1> QED BY <1>11, <1>14

(* Every step keeps the invariant. *)
LEMMA StreamStep == ASSUME StreamInv, "mem" \notin Rewound, [StreamNext]_streamVars PROVE StreamInv'
<1>1. ASSUME UNCHANGED streamVars PROVE StreamInv'
  <2>1. /\ UNCHANGED <<kind, access, bufsize, mode, file, off, buf, bpos, err, eof, ungot, pub, call>>
        /\ UNCHANGED <<want, cur, seen, told>>
    BY <1>1 DEF streamVars, stream, ghosts
  <2>2. StreamTypes'
    BY <2>1 DEF StreamInv, StreamTypes
  <2>3. Buffering' /\ Place' /\ Locals'
    BY <2>1, SameCall, Zenon DEF StreamInv
  <2>4. Sound => Sound'
    BY <2>1 DEF Sound, Meaning, Writing, Ahead, NoLineHeld, Shown
  <2> QED BY <2>1, <2>2, <2>3, <2>4 DEF StreamInv
<1>2. ASSUME Done \/ Flush \/ FlushFails \/ Fail \/ Fseek \/ SeekMem \/ Seek \/ SeekFails \/ Ftell \/ Tell
      PROVE  StreamInv'
  BY <1>2, DoneKeeps, FlushKeeps, FlushFailsKeeps, FailKeeps, FseekKeeps, SeekMemKeeps, SeekKeeps, SeekFailsKeeps,
     FtellKeeps, TellKeeps, Zenon
<1>3. ASSUME Rewind \/ RewindTo0 \/ Fflush \/ Sync \/ Fclose \/ Close \/ Freopen \/ Reopen \/ Setvbuf \/ Ungetc \/ Clearerr
      PROVE  StreamInv'
  BY <1>3, RewindKeeps, RewindTo0Keeps, FflushKeeps, SyncKeeps, FcloseKeeps, CloseKeeps, FreopenKeeps, ReopenKeeps,
     SetvbufKeeps, UngetcKeeps, ClearerrKeeps, Zenon
<1>4. ASSUME Fwrite \/ Double \/ WriteMem \/ WriteFull \/ WriteBuffered \/ WriteThrough \/ WriteFails \/ Written
      PROVE  StreamInv'
  BY <1>4, FwriteKeeps, DoubleKeeps, WriteMemKeeps, WriteFullKeeps, WriteBufferedKeeps, WriteThroughKeeps,
     WriteFailsKeeps, WrittenKeeps, Zenon
<1>5. ASSUME Fread \/ Store \/ StoreFails \/ NextChar \/ ReadBuffered \/ Refill \/ ReadThrough \/ ReadEnds \/ ReadDone
      PROVE  StreamInv'
  BY <1>5, FreadKeeps, StoreKeeps, StoreFailsKeeps, NextCharKeeps, ReadBufferedKeeps, RefillKeeps, ReadThroughKeeps,
     ReadEndsKeeps, ReadDoneKeeps, Zenon
<1> QED BY <1>1, <1>2, <1>3, <1>4, <1>5, Zenon DEF StreamNext

(* And so it always holds. *)
LEMMA StreamInvHolds == ASSUME "mem" \notin Rewound PROVE StreamSpec => []StreamInv
<1>1. StreamInv /\ [StreamNext]_streamVars => StreamInv'
  BY StreamStep
<1> QED BY <1>1, StreamInitInv, PTL DEF StreamSpec

(* PositionExact for any file, requests, buffer sizes and number of calls, *)
(* over every short write and error: the offset corrected by the buffer is *)
(* where the client is, as long as rewind is not called on a memory        *)
(* stream.                                                                 *)
THEOREM PositionKept == ASSUME "mem" \notin Rewound PROVE StreamSpec => []PositionExact
<1>1. StreamInv => PositionExact
  BY DEF StreamInv, StreamTypes, Sound, Meaning, PositionExact
<1> QED BY <1>1, StreamInvHolds, PTL

(* LossReported in the same generality: no byte that fwrite accepted is    *)
(* dropped, doubled or misplaced unless the error flag or a failed call    *)
(* shows it.                                                               *)
THEOREM LossesReported == ASSUME "mem" \notin Rewound PROVE StreamSpec => []LossReported
<1>1. StreamInv => LossReported
  <2> SUFFICES ASSUME StreamInv, ~err, ~told PROVE LossReported
    BY DEF LossReported
  <2>1. Sound /\ StreamTypes
    BY DEF StreamInv
  <2>2. Flushed = want
    BY <2>1 DEF Sound, Meaning, Flushed, Overlay
  <2>3. call.at \in AfterFlush => kind = "mem" \/ file = want
    BY <2>1, NothingPending DEF Sound
  <2> QED BY <2>2, <2>3 DEF LossReported, AfterFlush
<1> QED BY <1>1, StreamInvHolds, PTL

(* StreamExact in the same generality: buffers never overflow, reads give  *)
(* the bytes at the client's position, line buffering holds no line back,  *)
(* and the owner of an open_memstream buffer sees what was written after   *)
(* fflush and fclose.                                                      *)
THEOREM ReadsAndFlushesExact == ASSUME "mem" \notin Rewound PROVE StreamSpec => []StreamExact
<1>1. StreamInv => StreamExact
  <2> SUFFICES ASSUME StreamInv PROVE StreamExact
    OBVIOUS
  <2>1. StreamTypeOK
    BY DEF StreamInv, StreamTypes, Octets, Locals, StreamTypeOK
  <2>2. ReadExact
    BY DEF StreamInv, Sound, ReadExact
  <2>3. Visible
    <3> SUFFICES ASSUME ~err, ~told PROVE Visible
      BY DEF Visible
    <3>1. NoLineHeld /\ Shown /\ Place
      BY DEF StreamInv, Sound
    <3>2. call.op = "return" => call.at # "flush"
      BY <3>1 DEF Place, Flushing
    <3> QED BY <3>1, <3>2 DEF NoLineHeld, Shown, Visible
  <2> QED BY <2>1, <2>2, <2>3 DEF StreamExact
<1> QED BY <1>1, StreamInvHolds, PTL
=============================================================================
