--------------------------------- MODULE Stdio ---------------------------------
(***************************************************************************)
(* One FILE (src/stdio.c, memstream.c, fopencookie.c, getline.c) and what  *)
(* is behind it: a descriptor, the callbacks of fopencookie, or memory.    *)
(* A call is begun by an action of its own and then goes through the       *)
(* labels of call.at; every read, write and lseek is one step, and may     *)
(* fail or fall short.  buf holds the buflen valid bytes of stream->buf,   *)
(* and bufsize is 0 without a buffer.                                      *)
(***************************************************************************)
EXTENDS Integers, Sequences

CONSTANTS Bytes, NL,     \* bytes, the newline among them
          Contents,      \* what a file opened for reading or updating holds
          Streams,       \* pairs <<kind, access>> that clients open
          Requests,      \* what clients write: sequences of bytes
          Counts,        \* how much they read
          Offsets,       \* where they seek to
          BufSizes,      \* sizes given to setvbuf
          MemSize,       \* initial size of a memory stream's buffer
          Rewound,       \* kinds of streams that clients rewind
          Faults,        \* whether system calls and allocations may fail
          MaxLen,        \* bound: length of a file
          MaxCalls         \* bound: calls made

ASSUME StreamAssumption ==
  /\ Contents \subseteq Seq(Bytes) /\ Requests \subseteq Seq(Bytes)
  /\ Streams \subseteq {"fd", "cookie", "mem"} \X {"r", "w", "a", "r+"}
  /\ Counts \subseteq Nat /\ Offsets \subseteq Int
  /\ BufSizes \subseteq Nat \ {0} /\ MemSize \in Nat \ {0} /\ MaxCalls \in Nat

VARIABLES
  kind,       \* "fd", "cookie" or "mem"
  access,     \* "r", "w", "a" or "r+"
  file, off,  \* the file and the offset of the descriptor
  buf, bpos, bufsize, mode,
  err, eof,
  ungot,      \* the pushed-back character, or none
  pub,        \* what *bufp and *sizep of a memory stream show
  call,       \* the call in progress
  want, cur,  \* what the file should hold, and where the client is in it
  seen,       \* what was last read, and where from
  told,       \* some call has reported a failure, or rewind has hidden one
  calls

stream == <<kind, access, bufsize, mode>>
ghosts == <<want, cur, seen, told>>
streamVars == <<stream, file, off, buf, bpos, err, eof, ungot, pub, call, ghosts, calls>>

Lesser(m, n) == IF m < n THEN m ELSE n
Greater(m, n) == IF m > n THEN m ELSE n

(* The bytes of d with those of s put at offset n. *)
Overlay(d, n, s) ==
  IF s = <<>> THEN d
  ELSE [i \in 1 .. Greater(Len(d), n + Len(s)) |->
          IF i > n /\ i <= n + Len(s) THEN s[i - n]
          ELSE IF i <= Len(d) THEN d[i] ELSE 0]

Slice(d, n, k) == SubSeq(d, n + 1, n + k)

Idle == [op |-> "none", at |-> "idle", ok |-> "idle", bad |-> "idle",
         left |-> <<>>, n |-> 0, cap |-> 0, res |-> "ok"]

(* fopen: truncation, and the offset is 0 even for appending. *)
OpenFile(d) ==
  /\ want = IF access = "w" THEN <<>> ELSE d
  /\ file = want /\ buf = <<>> /\ cur = 0

(* fopen, fdopen and fopencookie leave a new stream without a buffer. *)
Unbuffered == bufsize = 0 /\ bpos = 0 /\ mode = "none"

(* fopencookie and funopen: the callbacks keep a file of their own. *)
OpenCookie(d) == want = d /\ file = d /\ buf = <<>> /\ cur = 0

(* open_memstream and open_wmemstream ("w"), and fmemopen. *)
OpenMem(d) ==
  /\ access # "w" => d # <<>>
  /\ want = IF access = "w" THEN <<>> ELSE d
  /\ file = <<>> /\ buf = want
  /\ bufsize = IF access = "w" THEN MemSize ELSE Len(d)
  /\ bpos = IF access = "a" THEN Len(d) ELSE 0
  /\ cur = bpos /\ mode = "full"

StreamInit ==
  /\ \E s \in Streams, d \in Contents :
        /\ kind = s[1] /\ access = s[2]
        /\ \/ kind = "fd" /\ OpenFile(d) /\ Unbuffered
           \/ kind = "cookie" /\ OpenCookie(d) /\ Unbuffered
           \/ kind = "mem" /\ OpenMem(d)
  /\ off = 0
  /\ err = FALSE /\ eof = FALSE /\ ungot = <<>> /\ pub = <<>>
  /\ call = Idle
  /\ seen = [from |-> 0, data |-> <<>>] /\ told = FALSE
  /\ calls = 0
-----------------------------------------------------------------------------
Start(c) ==
  /\ call.op = "none" /\ calls < MaxCalls
  /\ calls' = calls + 1
  /\ call' = c

Jump(l) == call' = [call EXCEPT !.at = l]

(* A call that starts with flush_buffer and goes on at l, also after a     *)
(* failure if it does not look at the result.                              *)
FlushFirst(o, l, n, ignores) ==
  [Idle EXCEPT !.op = o, !.at = "flush", !.ok = l, !.bad = IF ignores THEN l ELSE "fail", !.n = n]

Returns(r) ==
  /\ call' = [Idle EXCEPT !.op = "return", !.res = r, !.left = <<call.op>>]
  /\ told' = (told \/ r = "fail")

(* The client has its result. *)
Done ==
  /\ call.op = "return"
  /\ call' = Idle
  /\ UNCHANGED <<stream, file, off, buf, bpos, err, eof, ungot, pub, ghosts, calls>>
-----------------------------------------------------------------------------
(* write(2) of the sequence s. *)
KernelWrite(s) ==
  LET at == IF access = "a" /\ s # <<>> THEN Len(file) ELSE off IN
  /\ file' = Overlay(file, at, s)
  /\ off' = at + Len(s)

Publish == pub' = IF buf = <<>> THEN pub ELSE <<buf>>

(* flush_buffer; a memory stream grows by a terminator and is published. *)
Flush ==
  /\ call.at = "flush"
  /\ CASE kind = "mem" ->
            /\ bufsize' = IF buf = <<>> THEN bufsize ELSE Greater(bufsize, Len(buf) + 1)
            /\ Publish
            /\ UNCHANGED <<file, off, buf, bpos>>
       [] OTHER ->
            /\ buf = <<>> \/ access # "r"
            /\ IF buf = <<>> THEN UNCHANGED <<file, off, bpos>> ELSE KernelWrite(buf) /\ bpos' = 0
            /\ buf' = <<>>
            /\ UNCHANGED <<bufsize, pub>>
  /\ Jump(call.ok)
  /\ UNCHANGED <<kind, access, mode, err, eof, ungot, ghosts, calls>>

(* Variant: the error flag is not set. *)
FlushFailsSilently ==
  /\ call.at = "flush" /\ buf # <<>> /\ kind = "fd" /\ Faults
  /\ \E k \in 0 .. Len(buf) - 1 : KernelWrite(SubSeq(buf, 1, k))
  /\ Jump(call.bad)
  /\ UNCHANGED <<stream, buf, bpos, err, eof, ungot, pub, ghosts, calls>>

(* An error after k bytes, or the realloc of a memory stream: the buffer   *)
(* stays as it is.                                                         *)
FlushFails ==
  /\ call.at = "flush" /\ buf # <<>>
  /\ Faults \/ (kind # "mem" /\ access = "r")
  /\ \E k \in IF kind = "mem" \/ access = "r" THEN {0} ELSE 0 .. Len(buf) - 1 :
        KernelWrite(SubSeq(buf, 1, k))
  /\ err' = TRUE
  /\ Jump(call.bad)
  /\ UNCHANGED <<stream, buf, bpos, eof, ungot, pub, ghosts, calls>>

Fail ==
  /\ call.at = "fail"
  /\ Returns("fail")
  /\ UNCHANGED <<stream, file, off, buf, bpos, err, eof, ungot, pub, want, cur, seen, calls>>
-----------------------------------------------------------------------------
(* Variant: fseek drops the buffer instead of flushing it. *)
FseekUnflushed == \E o \in Offsets, w \in {"set", "cur", "end"} :
  /\ Start([Idle EXCEPT !.op = "fseek", !.at = "seek", !.n = <<o, w>>])
  /\ UNCHANGED <<stream, file, off, buf, bpos, err, eof, ungot, pub, ghosts>>

(* fseek, fseeko and fsetpos; whence w is "set", "cur" or "end". *)
Fseek == \E o \in Offsets, w \in {"set", "cur", "end"} :
  /\ Start(FlushFirst("fseek", "seek", <<o, w>>, FALSE))
  /\ UNCHANGED <<stream, file, off, buf, bpos, err, eof, ungot, pub, ghosts>>

Base(set, here, end) == CASE call.n[2] = "set" -> set
                          [] call.n[2] = "cur" -> here
                          [] OTHER -> end

(* A memory stream ends up at its end when the offset is out of range, a   *)
(* negative one included: it is converted to size_t.                       *)
SeekMem ==
  /\ call.at = "seek" /\ kind = "mem"
  /\ LET p == Base(0, bpos, Len(buf)) + call.n[1]
         q == IF p < 0 \/ p > Len(buf) THEN Len(buf) ELSE p
     IN bpos' = q /\ cur' = q /\ eof' = (q >= Len(buf))
  /\ ungot' = <<>>
  /\ Returns("ok")
  /\ UNCHANGED <<stream, file, off, buf, err, pub, want, seen, calls>>

(* lseek, or the seek callback. *)
Seek ==
  /\ call.at = "seek" /\ kind # "mem"
  /\ Base(0, off, Len(file)) + call.n[1] >= 0
  /\ off' = Base(0, off, Len(file)) + call.n[1]
  /\ cur' = Base(0, cur, Len(want)) + call.n[1]
  /\ buf' = <<>> /\ bpos' = 0
  /\ eof' = FALSE /\ ungot' = <<>>
  /\ Returns("ok")
  /\ UNCHANGED <<stream, file, err, pub, want, seen, calls>>

SeekFails ==
  /\ call.at \in {"seek", "tell"} /\ kind # "mem"
  /\ Faults \/ (call.at = "seek" /\ Base(0, off, Len(file)) + call.n[1] < 0)
  /\ err' = TRUE
  /\ Jump("fail")
  /\ UNCHANGED <<stream, file, off, buf, bpos, eof, ungot, pub, ghosts, calls>>

(* ftell, ftello and fgetpos report the offset after a flush. *)
Ftell ==
  /\ Start(FlushFirst("ftell", "tell", <<>>, FALSE))
  /\ UNCHANGED <<stream, file, off, buf, bpos, err, eof, ungot, pub, ghosts>>

Position == IF kind = "mem" THEN bpos ELSE off

Tell ==
  /\ call.at = "tell"
  /\ call' = [Idle EXCEPT !.op = "return", !.left = <<"ftell">>, !.n = Position]
  /\ UNCHANGED <<stream, file, off, buf, bpos, err, eof, ungot, pub, ghosts, calls>>

(* rewind forgets errors, that of its own lseek too, and the contents of a *)
(* memory stream.                                                          *)
Rewind ==
  /\ kind \in Rewound
  /\ Start(FlushFirst("rewind", "rewind", <<>>, TRUE))
  /\ UNCHANGED <<stream, file, off, buf, bpos, err, eof, ungot, pub, ghosts>>

RewindTo0 ==
  /\ call.at = "rewind"
  /\ off' \in {0} \cup (IF Faults THEN {off} ELSE {})
  /\ told' = (told \/ err \/ off' # 0)
  /\ cur' = 0
  /\ buf' = <<>> /\ bpos' = 0
  /\ err' = FALSE /\ eof' = FALSE /\ ungot' = <<>>
  /\ call' = [Idle EXCEPT !.op = "return", !.left = <<"rewind">>]
  /\ UNCHANGED <<stream, file, pub, want, seen, calls>>

(* fflush calls fsync on the descriptor, which a cookie stream has not. *)
Fflush ==
  /\ Start(FlushFirst("fflush", "sync", <<>>, FALSE))
  /\ UNCHANGED <<stream, file, off, buf, bpos, err, eof, ungot, pub, ghosts>>

Sync ==
  /\ call.at = "sync"
  /\ Returns(IF kind = "cookie" THEN "fail" ELSE "ok")
  /\ UNCHANGED <<stream, file, off, buf, bpos, err, eof, ungot, pub, want, cur, seen, calls>>

(* fclose does not report what flush_buffer says. *)
Fclose ==
  /\ Start(FlushFirst("fclose", "close", <<>>, TRUE))
  /\ UNCHANGED <<stream, file, off, buf, bpos, err, eof, ungot, pub, ghosts>>

Close ==
  /\ call.at = "close"
  /\ call' = [Idle EXCEPT !.op = "closed"]
  /\ UNCHANGED <<stream, file, off, buf, bpos, err, eof, ungot, pub, ghosts, calls>>

(* freopen puts a new stream in the place of the old one. *)
Freopen ==
  /\ Start(FlushFirst("freopen", "reopen", <<>>, TRUE))
  /\ UNCHANGED <<stream, file, off, buf, bpos, err, eof, ungot, pub, ghosts>>

Reopen ==
  /\ call.at = "reopen"
  /\ \E s \in Streams : s[1] = "fd" /\ access' = s[2]
  /\ \E d \in Contents : want' = IF access' = "w" THEN <<>> ELSE d
  /\ file' = want' /\ kind' = "fd"
  /\ off' = 0 /\ cur' = 0
  /\ buf' = <<>> /\ bpos' = 0 /\ bufsize' = 0 /\ mode' = "none"
  /\ err' = FALSE /\ eof' = FALSE /\ ungot' = <<>>
  /\ call' = [Idle EXCEPT !.op = "return", !.left = <<"freopen">>]
  /\ seen' = [from |-> 0, data |-> <<>>] /\ told' = FALSE
  /\ UNCHANGED <<pub, calls>>
-----------------------------------------------------------------------------
(* setvbuf, setbuf, setbuffer and setlinebuf drop the buffer there was, so *)
(* clients call them first, and not for streams that have their own buffer *)
(* or go both ways.                                                        *)
Setvbuf == \E n \in BufSizes, m \in {"full", "line"} :
  /\ kind = "fd" /\ access # "r+" /\ buf = <<>> /\ cur = 0 /\ bufsize = 0
  /\ Start([Idle EXCEPT !.op = "return"])
  /\ bufsize' = n /\ mode' = m
  /\ buf' = <<>> /\ bpos' = 0
  /\ UNCHANGED <<kind, access, file, off, err, eof, ungot, pub, ghosts>>

(* ungetc holds one character; a client pushes back what it has just read. *)
Ungetc ==
  /\ ungot = <<>> /\ seen.data # <<>>
  /\ Start([Idle EXCEPT !.op = "return"])
  /\ ungot' = <<seen.data[Len(seen.data)]>> /\ eof' = FALSE
  /\ UNCHANGED <<stream, file, off, buf, bpos, err, pub, ghosts>>

Clearerr ==
  /\ err \/ eof \/ ungot # <<>>
  /\ Start([Idle EXCEPT !.op = "return"])
  /\ err' = FALSE /\ eof' = FALSE /\ ungot' = <<>>
  /\ told' = (told \/ err)
  /\ UNCHANGED <<stream, file, off, buf, bpos, pub, want, cur, seen>>
-----------------------------------------------------------------------------
(* fwrite, fputc and fputs. *)
Fwrite == \E s \in Requests :
  /\ access # "r" /\ Len(want) + Len(s) <= MaxLen
  /\ Start([Idle EXCEPT !.op = "fwrite", !.at = "write", !.left = s])
  /\ UNCHANGED <<stream, file, off, buf, bpos, err, eof, ungot, pub, ghosts>>

(* The next k bytes are taken from the client. *)
Accept(k) ==
  LET p == IF access = "a" /\ kind # "mem" THEN Len(want) ELSE cur IN
  /\ want' = Overlay(want, p, SubSeq(call.left, 1, k))
  /\ cur' = p + k
  /\ seen' = [from |-> 0, data |-> <<>>]

Rest(k) == SubSeq(call.left, k + 1, Len(call.left))

(* The loop that doubles newsize, which is cap here. *)
Double ==
  LET newsize == Greater(bufsize, call.cap) IN
  /\ call.at = "write" /\ kind = "mem" /\ newsize < bpos + Len(call.left)
  /\ call' = [call EXCEPT !.cap = 2 * newsize]
  /\ UNCHANGED <<stream, file, off, buf, bpos, err, eof, ungot, pub, ghosts, calls>>

WriteMem ==
  LET needed == bpos + Len(call.left)
      room == Greater(bufsize, call.cap)
  IN
  /\ call.at = "write" /\ kind = "mem" /\ call.left # <<>> /\ needed <= room
  /\ bufsize' = room
  /\ buf' = Overlay(buf, bpos, call.left)
  /\ bpos' = needed
  /\ Accept(Len(call.left))
  /\ call' = [call EXCEPT !.left = <<>>]
  /\ UNCHANGED <<kind, access, mode, file, off, err, eof, ungot, pub, told, calls>>

(* What goes into the buffer at once, and whether it is flushed then. *)
Portion == IF mode = "line" THEN 1 ELSE Lesser(Len(call.left), bufsize - Len(buf))

FlushNow(k) == Len(buf) + k = bufsize \/ (mode = "line" /\ call.left[k] = NL)

ThenFlush(c) == [c EXCEPT !.at = "flush", !.ok = "write", !.bad = "short"]

WriteFull ==
  /\ call.at = "write" /\ bufsize > 0 /\ kind = "fd" /\ call.left # <<>>
  /\ Len(buf) = bufsize
  /\ call' = ThenFlush(call)
  /\ UNCHANGED <<stream, file, off, buf, bpos, err, eof, ungot, pub, ghosts, calls>>

WriteBuffered ==
  LET k == Portion
      c == [call EXCEPT !.left = Rest(k)]
  IN
  /\ call.at = "write" /\ bufsize > 0 /\ kind = "fd" /\ call.left # <<>>
  /\ Len(buf) < bufsize
  /\ buf' = buf \o SubSeq(call.left, 1, k)
  /\ Accept(k)
  /\ call' = IF FlushNow(k) THEN ThenFlush(c) ELSE c
  /\ UNCHANGED <<stream, file, off, bpos, err, eof, ungot, pub, told, calls>>

WriteThrough ==
  /\ call.at = "write" /\ kind # "mem" /\ bufsize = 0 /\ call.left # <<>>
  /\ \E k \in 1 .. Len(call.left) :
        KernelWrite(SubSeq(call.left, 1, k)) /\ Accept(k) /\ call' = [call EXCEPT !.left = Rest(k)]
  /\ UNCHANGED <<stream, buf, bpos, err, eof, ungot, pub, told, calls>>

(* write fails, or the realloc of a memory stream. *)
WriteFails ==
  /\ call.at = "write" /\ call.left # <<>> /\ Faults
  /\ IF kind = "mem" THEN bpos + Len(call.left) \in bufsize + 1 .. call.cap ELSE bufsize = 0
  /\ err' = TRUE
  /\ Jump("short")
  /\ UNCHANGED <<stream, file, off, buf, bpos, eof, ungot, pub, ghosts, calls>>

(* Everything is written, or counted as written: a flush that fails after  *)
(* the last byte shows in the error flag only.                             *)
Written ==
  /\ call.at = "short" \/ (call.at = "write" /\ call.left = <<>>)
  /\ Returns(IF call.left = <<>> THEN "ok" ELSE "fail")
  /\ UNCHANGED <<stream, file, off, buf, bpos, err, eof, ungot, pub, want, cur, seen, calls>>
-----------------------------------------------------------------------------
(* fread asks for n bytes and passes over a pushed-back character; fgetc,  *)
(* fgets with room for n, and getdelim with a buffer of n (0: none yet)    *)
(* read characters.                                                        *)
Fread == \E n \in Counts : \E o \in {"fread", "fgetc", "fgets", "getline"} :
  /\ access \notin {"w", "a"}
  /\ o = "fgetc" => n = 1
  /\ o \in {"fread", "fgets"} => n > 0
  /\ Start([Idle EXCEPT !.op = o,
                        !.at = CASE o = "fread" -> "read" [] o = "fgets" /\ n = 1 -> "end" [] OTHER -> "char",
                        !.n = IF o = "fread" THEN n ELSE 1,
                        !.cap = IF o = "getline" /\ n = 0 THEN MemSize ELSE n])
  /\ UNCHANGED <<stream, file, off, buf, bpos, err, eof, ungot, pub, ghosts>>

(* What becomes of the call when it gets the bytes s. *)
Got(s) ==
  CASE call.op = "fread" ->
         [call EXCEPT !.n = call.n - Len(s), !.at = IF call.n = Len(s) THEN "end" ELSE "read"]
    [] call.op = "fgetc" -> [call EXCEPT !.at = "end"]
    [] call.op = "fgets" ->
         [call EXCEPT !.left = call.left \o s,
                      !.at = IF s[1] = NL \/ Len(call.left) + 2 >= call.cap THEN "end" ELSE "char"]
    [] OTHER -> [call EXCEPT !.left = call.left \o s, !.at = "store"]

(* getdelim stores a character after making room for it and a terminator. *)
Store ==
  /\ call.at = "store"
  /\ call' = [call EXCEPT !.cap = IF Len(call.left) >= call.cap THEN 2 * call.cap ELSE call.cap,
                          !.at = IF call.left[Len(call.left)] = NL THEN "end" ELSE "char"]
  /\ UNCHANGED <<stream, file, off, buf, bpos, err, eof, ungot, pub, ghosts, calls>>

StoreFails ==
  /\ call.at = "store" /\ Len(call.left) >= call.cap /\ Faults
  /\ Jump("fail")
  /\ UNCHANGED <<stream, file, off, buf, bpos, err, eof, ungot, pub, ghosts, calls>>

(* fgetc takes the pushed-back character first. *)
NextChar ==
  /\ call.at = "char"
  /\ call' = IF ungot # <<>> THEN Got(ungot) ELSE [call EXCEPT !.at = "read"]
  /\ ungot' = <<>>
  /\ UNCHANGED <<stream, file, off, buf, bpos, err, eof, pub, ghosts, calls>>

Take(s) ==
  /\ seen' = [from |-> cur, data |-> s]
  /\ cur' = cur + Len(s)
  /\ call' = Got(s)

Ahead == Len(buf) - bpos

(* Variant: bufpos is not advanced. *)
ReadBufferedAgain ==
  /\ call.at = "read" /\ bufsize > 0 /\ Ahead > 0
  /\ Take(Slice(buf, bpos, Lesser(call.n, Ahead)))
  /\ UNCHANGED <<stream, file, off, buf, bpos, err, eof, ungot, pub, want, told, calls>>

ReadBuffered ==
  LET k == Lesser(call.n, Ahead) IN
  /\ call.at = "read" /\ bufsize > 0 /\ Ahead > 0
  /\ Take(Slice(buf, bpos, k))
  /\ bpos' = bpos + k
  /\ UNCHANGED <<stream, file, off, buf, err, eof, ungot, pub, want, told, calls>>

(* read(2) of at most n bytes gives k of them, at least 1 before the end. *)
KernelRead(n, k) ==
  /\ k \in 1 .. Lesser(n, Len(file) - off)
  /\ off' = off + k

Refill ==
  /\ call.at = "read" /\ bufsize > 0 /\ kind = "fd" /\ Ahead = 0
  /\ \E k \in 1 .. bufsize : KernelRead(bufsize, k) /\ buf' = Slice(file, off, k)
  /\ bpos' = 0
  /\ UNCHANGED <<stream, file, err, eof, ungot, pub, call, ghosts, calls>>

ReadThrough ==
  /\ call.at = "read" /\ kind # "mem" /\ bufsize = 0
  /\ \E k \in 1 .. call.n : KernelRead(call.n, k) /\ Take(Slice(file, off, k))
  /\ UNCHANGED <<stream, file, buf, bpos, err, eof, ungot, pub, want, told, calls>>

(* The end of the file, or an error of read. *)
NoMore == Ahead = 0 /\ (kind = "mem" \/ off >= Len(file))

ReadEnds ==
  /\ call.at = "read" /\ Ahead = 0
  /\ \/ NoMore /\ eof' = TRUE /\ UNCHANGED err
     \/ Faults /\ kind # "mem" /\ err' = TRUE /\ UNCHANGED eof
  /\ Returns(IF call.left # <<>> THEN "ok" ELSE IF err' # err THEN "fail" ELSE "eof")
  /\ UNCHANGED <<stream, file, off, buf, bpos, ungot, pub, want, cur, seen, calls>>

ReadDone ==
  /\ call.at = "end"
  /\ Returns("ok")
  /\ UNCHANGED <<stream, file, off, buf, bpos, err, eof, ungot, pub, want, cur, seen, calls>>
-----------------------------------------------------------------------------
StreamNext ==
  \/ Done \/ Flush \/ FlushFails \/ Fail
  \/ Fseek \/ SeekMem \/ Seek \/ SeekFails \/ Ftell \/ Tell
  \/ Rewind \/ RewindTo0 \/ Fflush \/ Sync \/ Fclose \/ Close \/ Freopen \/ Reopen
  \/ Setvbuf \/ Ungetc \/ Clearerr
  \/ Fwrite \/ Double \/ WriteMem \/ WriteFull \/ WriteBuffered \/ WriteThrough \/ WriteFails \/ Written
  \/ Fread \/ Store \/ StoreFails \/ NextChar \/ ReadBuffered \/ Refill \/ ReadThrough \/ ReadEnds
  \/ ReadDone

StreamSpec == StreamInit /\ [][StreamNext]_streamVars
-----------------------------------------------------------------------------
(* A buffer never holds more than setvbuf, open_memstream or realloc made  *)
(* room for, bufpos never passes buflen, and getdelim's buffer has room    *)
(* for the line and its terminator when a character has been stored.       *)
StreamTypeOK ==
  /\ kind \in {"fd", "cookie", "mem"} /\ access \in {"r", "w", "a", "r+"}
  /\ mode \in {"none", "full", "line"}
  /\ file \in Seq(Bytes \cup {0}) /\ off \in Nat
  /\ buf \in Seq(Bytes \cup {0}) /\ bufsize \in Nat /\ Len(buf) <= bufsize
  /\ bpos \in 0 .. Len(buf)
  /\ err \in BOOLEAN /\ eof \in BOOLEAN /\ told \in BOOLEAN
  /\ call.op = "getline" /\ call.at \notin {"store", "fail"} => Len(call.left) < call.cap

Writing == access \in {"w", "a"}

(* What the file would be after a flush_buffer. *)
Flushed ==
  CASE kind = "mem" -> buf
    [] kind # "mem" /\ Writing /\ buf # <<>> -> Overlay(file, IF access = "a" THEN Len(file) ELSE off, buf)
    [] OTHER -> file

(* The descriptor's offset, corrected by what is in the buffer, is where   *)
(* the client of fread, fwrite, fseek and ftell is.                        *)
PositionExact == ~err /\ ~told =>
  CASE kind = "mem" -> cur = bpos
    [] kind # "mem" /\ Writing -> cur = (IF access = "a" /\ buf # <<>> THEN Len(file) ELSE off) + Len(buf)
    [] OTHER -> cur + Ahead = off

(* No accepted byte is dropped, doubled or misplaced by the buffering      *)
(* without an error flag or a failed call to show it, as long as the       *)
(* stream is open (fclose reports close only).  fseek, ftell, fflush,      *)
(* fclose and freopen go on only with everything written.                  *)
LossReported == err \/ told \/
  /\ Flushed = want
  /\ call.at \in {"seek", "tell", "sync", "close", "reopen", "rewind"} => kind = "mem" \/ file = want

(* fread, fgetc, fgets and getline give the bytes at the client's position *)
ReadExact == ~err /\ ~told => seen.data = Slice(want, seen.from, Len(seen.data))

(* What must be visible outside the stream is: a line-buffered stream      *)
(* holds no complete line back after fwrite, and after fflush or fclose    *)
(* the owner of an open_memstream buffer sees what was written.            *)
Visible == err \/ told \/
  /\ call.op = "return" /\ mode = "line" /\ Writing => \A i \in 1 .. Len(buf) : buf[i] # NL
  /\ /\ kind = "mem" /\ access = "w"
     /\ call.at = "close" \/ call.op = "closed" \/ (call.op = "return" /\ call.left = <<"fflush">>)
     => pub = IF want = <<>> THEN <<>> ELSE <<want>>

(* See StreamTypeOK, ReadExact and Visible. *)
StreamExact == StreamTypeOK /\ ReadExact /\ Visible
=============================================================================
