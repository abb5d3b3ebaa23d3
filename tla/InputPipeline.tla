--------------------------- MODULE InputPipeline ---------------------------
(***************************************************************************)
(* The read side of the iobuf filter engine (src/common/iobuf.c) over a    *)
(* file opened with iobuf_open: one IOBUF_INPUT node whose filter is       *)
(* file_filter.  The file holds the bytes 1..N (distinct values, so a      *)
(* lost, duplicated or reordered byte is visible); read() may return a     *)
(* short count, end of file, or an error at any call.                      *)
(*                                                                         *)
(* Modelled: underflow_target with its buffer compaction, pending-EOF     *)
(* latch, sticky error and zero-copy route into the caller's buffer;      *)
(* iobuf_readbyte, iobuf_read (with and without a read limit, with and    *)
(* without a destination buffer), iobuf_peek, iobuf_skip_rest,            *)
(* iobuf_set_limit, iobuf_tell, iobuf_read_line; file_filter's UNDERFLOW with its          *)
(* delayed EOF / delayed error and its PEEK read-ahead (IOBUF_IOCTL_PEEK). *)
(*                                                                         *)
(* A call that loops in the code (iobuf_read, iobuf_peek, iobuf_skip_rest,*)
(* iobuf_read_line) is a start step plus one step per loop iteration; the *)
(* pipeline is single-threaded, so no other call runs while op # "idle".  *)
(***************************************************************************)
EXTENDS Iobuf

CONSTANTS
    PeekSize,   \* sizeof file_filter_ctx_t.peeked
    MaxReq,     \* largest buffer length a caller passes
    LimitValues,\* values a caller passes to iobuf_set_limit
    NLs,        \* the bytes of the file that are '\n'
    LineMax,    \* *max_length the caller passes to iobuf_read_line
    LineChunk,  \* the buffer iobuf_read_line allocates first and adds (256)
    LineBig     \* from this length on it adds LineBig instead (1024)

N == Len(Src)

(* The file's bytes are distinct and none is a return marker.             *)
ASSUME /\ N > 0 /\ Src = [i \in 1..N |-> i]
       /\ PeekSize \in Nat \ {0} /\ MaxReq \in Nat \ {0}
       /\ LimitValues \subseteq Nat
       /\ NLs \subseteq 1..N /\ LineMax >= 2 /\ LineChunk >= 2 /\ LineBig >= LineChunk

(* The '\n' that iobuf_read_line writes over the last byte of a truncated *)
(* line; 0 is no byte of the file.                                        *)
NewLine == 0

VARIABLES
    f,          \* file_filter_ctx_t plus the descriptor's offset
    h,          \* the iobuf node (struct iobuf_struct)
    op,         \* the API call in progress, "idle" between calls
    call,       \* arguments and loop state of the call in progress
    ret,        \* result of the last call
    delivered,  \* history: every byte handed to (or skipped by) the caller
    peekres,    \* history: bytes returned by the last peek
    rl          \* the caller's read_line buffer (len, line) and MAX, the
                \* bytes the call consumed (got), and done: the last call
                \* was iobuf_read_line and it has returned

vars == <<f, h, op, call, ret, delivered, peekres, rl>>

(* A call other than iobuf_read_line starts.                              *)
NotLine == rl' = [rl EXCEPT !.done = FALSE]

(* The node's filter is file_filter and nothing is chained below it.      *)
FileFilt(fs) == [size \in 1..BufSize + MaxReq |-> FileUnderflow(fs, size)]

Under(hd, fs, clear, target, edlen) ==
    Underflow(hd, fs, FileFilt(fs), FALSE, clear, target, edlen)

ReadByteOf(hd, fs) == ReadByteResults(hd, fs, FileFilt(fs), FALSE)

-----------------------------------------------------------------------------
Idle == op = "idle"

ReadByte ==
    /\ Idle
    /\ \E r \in ReadByteOf(h, f) :
         /\ h' = r.h /\ f' = r.env /\ ret' = r.res
         /\ delivered' = IF r.res = EOF THEN delivered
                         ELSE Append(delivered, r.res)
    /\ peekres' = <<>>
    /\ UNCHANGED <<op, call>> /\ NotLine

(* iobuf_read(A, BUF, LEN): a read limit sends it byte by byte through    *)
(* iobuf_readbyte; otherwise it resets the drain descriptor and sets the  *)
(* "external drain preferred" hint.  NULLBUF: BUF is NULL (skip bytes).   *)
ReadStart ==
    /\ Idle
    /\ \E len \in 1..MaxReq, nullbuf \in BOOLEAN :
         /\ call' = [req |-> len, n |-> 0, nullbuf |-> nullbuf]
         /\ IF h.nlimit # 0
            THEN op' = "readlim" /\ UNCHANGED h
            ELSE /\ op' = "read"
                 /\ h' = [h EXCEPT !.preferred = ~nullbuf /\ len >= ZC]
    /\ ret' = NONE /\ peekres' = <<>>
    /\ UNCHANGED <<f, delivered>> /\ NotLine

(* One iteration of iobuf_read's read-limit loop.                         *)
ReadLimIter ==
    /\ op = "readlim"
    /\ \E r \in ReadByteOf(h, f) :
         /\ h' = r.h /\ f' = r.env
         /\ IF r.res = EOF
            THEN /\ ret' = IF call.n = 0 THEN EOF ELSE call.n
                 /\ op' = "idle" /\ UNCHANGED <<call, delivered>>
            ELSE /\ delivered' = Append(delivered, r.res)
                 /\ call' = [call EXCEPT !.n = @ + 1]
                 /\ IF call.n + 1 = call.req
                    THEN ret' = call.n + 1 /\ op' = "idle"
                    ELSE UNCHANGED <<ret, op>>
    /\ UNCHANGED <<peekres, rl>>

(* One iteration of iobuf_read's main do-while loop: drain the internal   *)
(* buffer, and if the request is still short set up the external drain    *)
(* (whole multiples of ZC) and call underflow(A, 1).                      *)
ReadIter ==
    /\ op = "read"
    /\ LET size == Min({Len(h.buf) - h.start, call.req - call.n})
           drained == SubSeq(h.buf, h.start + 1, h.start + size)
           hd == [h EXCEPT !.start = @ + size]
           n1 == call.n + size
           edlen == IF call.nullbuf THEN 0
                    ELSE ((call.req - n1) \div ZC) * ZC
       IN
       IF n1 >= call.req
       THEN /\ h' = [hd EXCEPT !.nbytes = @ + n1]
            /\ ret' = n1 /\ op' = "idle"
            /\ delivered' = delivered \o drained
            /\ UNCHANGED <<f, call>>
       ELSE \E u \in Under(hd, f, TRUE, 1, edlen) :
              /\ f' = u.env
              /\ IF u.res = EOF
                 THEN /\ h' = [u.h EXCEPT !.nbytes = @ + n1]
                      /\ ret' = IF n1 > 0 THEN n1 ELSE EOF
                      /\ op' = "idle"
                      /\ delivered' = delivered \o drained
                      /\ UNCHANGED call
                 ELSE LET got == IF edlen > 0 /\ u.h.used > 0 THEN u.ext
                                 ELSE <<u.res>>
                          n2 == n1 + Len(got)
                      IN /\ delivered' = delivered \o drained \o got
                         /\ IF n2 < call.req
                            THEN /\ h' = u.h /\ call' = [call EXCEPT !.n = n2]
                                 /\ UNCHANGED <<ret, op>>
                            ELSE /\ h' = [u.h EXCEPT !.nbytes = @ + n2]
                                 /\ ret' = n2 /\ op' = "idle"
                                 /\ UNCHANGED call
    /\ UNCHANGED <<peekres, rl>>

(* iobuf_peek(A, BUF, LEN): LEN is capped at the buffer size.             *)
PeekStart ==
    /\ Idle
    /\ \E len \in 1..MaxReq :
         call' = [req |-> Min({len, BufSize}), n |-> 0, nullbuf |-> FALSE]
    /\ op' = "peek" /\ ret' = NONE /\ peekres' = <<>>
    /\ UNCHANGED <<f, h, delivered>> /\ NotLine

(* Mutant: the bytes are copied from the start of d.buf, not from d.start. *)
PeekFinishFromZero(hd) ==
    LET n == Min({Len(hd.buf) - hd.start, call.req}) IN
    /\ h' = hd /\ op' = "idle"
    /\ ret' = IF n = 0 THEN EOF ELSE n
    /\ peekres' = SubSeq(hd.buf, 1, n)

(* The end of iobuf_peek: copy out what is buffered, EOF if nothing.      *)
PeekFinish(hd) ==
    LET n == Min({Len(hd.buf) - hd.start, call.req}) IN
    /\ h' = hd /\ op' = "idle"
    /\ ret' = IF n = 0 THEN EOF ELSE n
    /\ peekres' = SubSeq(hd.buf, hd.start + 1, hd.start + n)

(* One iteration of iobuf_peek's fill loop: while fewer than LEN bytes    *)
(* are buffered call underflow_target(A, 0, LEN) and unget the byte it    *)
(* returns (d.start = 0); stop at EOF.                                    *)
PeekIter ==
    /\ op = "peek"
    /\ IF call.req > Len(h.buf) - h.start
       THEN \E u \in Under(h, f, FALSE, call.req, 0) :
              /\ f' = u.env
              /\ IF u.res = EOF
                 THEN PeekFinish(u.h)
                 ELSE /\ h' = [u.h EXCEPT !.start = 0]
                      /\ UNCHANGED <<op, ret, peekres>>
       ELSE PeekFinish(h) /\ UNCHANGED f
    /\ UNCHANGED <<call, delivered, rl>>

(* iobuf_ioctl(A, IOBUF_IOCTL_PEEK, LEN, BUF) right after iobuf_open      *)
(* (is_file_compressed): file_filter's PEEK reads up to PeekSize bytes    *)
(* ahead into its own buffer; a short read latches EOF or the error like  *)
(* UNDERFLOW does, an error with nothing read is dropped.                 *)
IoctlPeek ==
    /\ Idle
    /\ h.filter = "file" /\ h.nbytes = 0 /\ h.buf = <<>>
    /\ f.pos = 0 /\ f.peeked = <<>> /\ f.errs = 0 /\ ~f.eof_seen
    /\ \E len \in 1..PeekSize, o \in FileRead(f, PeekSize) :
         /\ f' = [o.env EXCEPT !.peeked = o.data]
         /\ ret' = Min({Len(o.data), len})
         /\ peekres' = SubSeq(o.data, 1, Min({Len(o.data), len}))
    /\ UNCHANGED <<h, op, call, delivered>> /\ NotLine

(* iobuf_skip_rest(A, N, PARTIAL).  PARTIAL: skip to EOF.                 *)
SkipStart ==
    /\ Idle
    /\ \E n \in 1..MaxReq, partial \in BOOLEAN :
         call' = [req |-> IF partial THEN -1 ELSE n, n |-> 0, nullbuf |-> TRUE]
    /\ op' = "skip" /\ ret' = NONE /\ peekres' = <<>>
    /\ UNCHANGED <<f, h, delivered>> /\ NotLine

(* Mutant: the two conditions joined by && instead of ||.                 *)
SkipByByteAnd(hd) == hd.nofast /\ hd.start >= Len(hd.buf)

(* iobuf_skip_rest goes through iobuf_readbyte when the fast path is off  *)
(* or nothing is buffered.                                                *)
SkipByByte(hd) == hd.nofast \/ hd.start >= Len(hd.buf)

(* One iteration of iobuf_skip_rest: by iobuf_readbyte when the fast     *)
(* path is off or nothing is buffered, else by jumping over the buffered *)
(* bytes (at most the REMAINING ones).  call.req = -1 marks PARTIAL.      *)
SkipIter ==
    /\ op = "skip"
    /\ LET partial == call.req = -1
           remaining == call.req - call.n
       IN
       IF SkipByByte(h)
       THEN \E r \in ReadByteOf(h, f) :
              /\ h' = r.h /\ f' = r.env
              /\ IF r.res = EOF
                 THEN op' = "idle" /\ UNCHANGED <<call, delivered>>
                 ELSE /\ delivered' = Append(delivered, r.res)
                      /\ call' = [call EXCEPT !.n = @ + 1]
                      /\ op' = IF ~partial /\ remaining = 1 THEN "idle" ELSE op
       ELSE LET count == IF partial THEN Len(h.buf) - h.start
                         ELSE Min({Len(h.buf) - h.start, remaining})
            IN /\ h' = [h EXCEPT !.nbytes = @ + count, !.start = @ + count]
               /\ delivered' = delivered \o SubSeq(h.buf, h.start + 1, h.start + count)
               /\ call' = [call EXCEPT !.n = @ + count]
               /\ op' = IF ~partial /\ remaining = count THEN "idle" ELSE op
               /\ UNCHANGED f
    /\ UNCHANGED <<ret, peekres, rl>>

(* Mutant: the bytes read so far are dropped instead of moved to ntotal.  *)
SetLimitNoCarry ==
    /\ Idle
    /\ \E v \in LimitValues :
         h' = [h EXCEPT !.nofast = (v # 0), !.nlimit = v, !.nbytes = 0]
    /\ ret' = NONE /\ peekres' = <<>>
    /\ UNCHANGED <<f, op, call, delivered>> /\ NotLine

(* iobuf_set_limit(A, NLIMIT): a non-zero limit turns the fast path off;  *)
(* the bytes read so far move from nbytes into ntotal.                    *)
SetLimit ==
    /\ Idle
    /\ \E v \in LimitValues :
         h' = [h EXCEPT !.nofast = (v # 0), !.nlimit = v,
                        !.ntotal = @ + h.nbytes, !.nbytes = 0]
    /\ ret' = NONE /\ peekres' = <<>>
    /\ UNCHANGED <<f, op, call, delivered>> /\ NotLine

-----------------------------------------------------------------------------
(* iobuf_read_line(A, &BUF, &LENGTH, &MAX) with MAX = LineMax.  The       *)
(* caller keeps BUF and LENGTH from its last call; without a buffer, or   *)
(* with one of at most one byte, it gets LineChunk bytes (MAX if that is  *)
(* smaller).                                                              *)
ReadLineStart ==
    /\ Idle
    /\ rl' = [len |-> IF rl.len <= 1 THEN Min({LineChunk, LineMax}) ELSE rl.len,
              line |-> <<>>, max |-> LineMax, got |-> <<>>, done |-> FALSE]
    /\ op' = "readline" /\ ret' = NONE /\ peekres' = <<>>
    /\ UNCHANGED <<f, h, call, delivered>>

(* Mutant: the new length is not capped at MAX.                           *)
LineGrowUncapped(len) == len + (IF len < LineBig THEN LineChunk ELSE LineBig)

(* The buffer grows by LineChunk below LineBig bytes, by LineBig from     *)
(* then on, and never past MAX (xrealloc).                                *)
LineGrow(len) == Min({len + (IF len < LineBig THEN LineChunk ELSE LineBig), rl.max})

(* The call returns the line R: ret is the byte count without the NUL.    *)
LineReturn(r) == op' = "idle" /\ ret' = Len(r.line) /\ rl' = [r EXCEPT !.done = TRUE]

(* The bytes CHUNK were copied to the line (FOUND: it ends in '\n', and  *)
(* the loop breaks).  Otherwise, when no room is left for "\n\0" the      *)
(* buffer grows, or, at MAX, the rest of the line is to be skipped.       *)
LineTake(chunk, found) ==
    LET r == [rl EXCEPT !.line = @ \o chunk, !.got = @ \o chunk]
        full == Len(r.line) = rl.len - 1
    IN /\ delivered' = delivered \o chunk
       /\ IF found THEN LineReturn(r)
          ELSE IF full /\ rl.len = rl.max
          THEN op' = "skipline" /\ rl' = r /\ UNCHANGED ret
          ELSE /\ rl' = IF full THEN [r EXCEPT !.len = LineGrow(rl.len)] ELSE r
               /\ UNCHANGED <<op, ret>>

(* Mutant: the fast path copies up to the end of the buffer, leaving no   *)
(* room for the terminator.                                               *)
LineRoomAll(n) == rl.len - n

(* The bytes the fast path may still copy when N are in the line.         *)
LineRoom(n) == rl.len - 1 - n

(* The fast path is taken with no read limit, bytes buffered and room.    *)
LineFast(hd) == ~hd.nofast /\ hd.start < Len(hd.buf) /\ Len(rl.line) < rl.len - 1

(* One iteration of iobuf_read_line's loop.  Fast path: memchr for '\n'  *)
(* in the buffered bytes that fit, copy through it or all of them.  Else  *)
(* iobuf_readbyte, where EOF (or a read error) ends the line.             *)
ReadLineIter ==
    /\ op = "readline"
    /\ IF LineFast(h)
       THEN LET win == SubSeq(h.buf, h.start + 1,
                              h.start + Min({Len(h.buf) - h.start, LineRoom(Len(rl.line))}))
                nl == {i \in 1..Len(win) : win[i] \in NLs}
                size == IF nl = {} THEN Len(win) ELSE Min(nl)
            IN /\ h' = [h EXCEPT !.start = @ + size, !.nbytes = @ + size]
               /\ LineTake(SubSeq(win, 1, size), nl # {})
               /\ UNCHANGED f
       ELSE \E r \in ReadByteOf(h, f) :
              /\ h' = r.h /\ f' = r.env
              /\ IF r.res = EOF THEN LineReturn(rl) /\ UNCHANGED delivered
                 ELSE LineTake(<<r.res>>, r.res \in NLs)
    /\ UNCHANGED <<call, peekres>>

(* The line R cut at MAX: its last byte becomes '\n', *MAX is set to 0.   *)
LineTruncate(r) == [r EXCEPT !.line = [r.line EXCEPT ![Len(r.line)] = NewLine], !.max = 0]

(* The iobuf_get macro: iobuf_readbyte when the fast path is off or      *)
(* nothing is buffered, else the next buffered byte.                      *)
GetByByte(hd) == hd.nofast \/ hd.start >= Len(hd.buf)

(* One iteration of the skip at MAX: iobuf_get until EOF or '\n'; then    *)
(* the line is cut and the call returns.                                  *)
SkipLineIter ==
    /\ op = "skipline"
    /\ \E r \in IF GetByByte(h) THEN ReadByteOf(h, f)
                ELSE {[h |-> [h EXCEPT !.start = @ + 1, !.nbytes = @ + 1], env |-> f,
                       res |-> h.buf[h.start + 1], pop |-> FALSE]} :
         LET r1 == IF r.res = EOF THEN rl ELSE [rl EXCEPT !.got = Append(@, r.res)]
         IN /\ h' = r.h /\ f' = r.env
            /\ delivered' = IF r.res = EOF THEN delivered ELSE Append(delivered, r.res)
            /\ IF r.res = EOF \/ r.res \in NLs
               THEN LineReturn(LineTruncate(r1))
               ELSE rl' = r1 /\ UNCHANGED <<op, ret>>
    /\ UNCHANGED <<call, peekres>>

(* iobuf_tell *)
Tell == h.ntotal + h.nbytes

-----------------------------------------------------------------------------
(* iobuf_open (do_open + iobuf_alloc + file_filter INIT): a fresh input    *)
(* node over an unread descriptor.                                        *)
Init ==
    /\ f = FreshFile
    /\ h = FreshNode("file")
    /\ op = "idle"
    /\ call = [req |-> 0, n |-> 0, nullbuf |-> FALSE]
    /\ ret = NONE
    /\ delivered = <<>>
    /\ peekres = <<>>
    /\ rl = [len |-> 0, line |-> <<>>, max |-> LineMax, got |-> <<>>, done |-> FALSE]

Next ==
    \/ ReadByte \/ ReadStart \/ ReadLimIter \/ ReadIter
    \/ PeekStart \/ PeekIter \/ IoctlPeek
    \/ SkipStart \/ SkipIter \/ SetLimit
    \/ ReadLineStart \/ ReadLineIter \/ SkipLineIter

(* The caller may stop calling at any time; a call in progress runs its   *)
(* loop to the end (single-threaded code, no blocking inside the loop     *)
(* other than read(), which the file always answers).                     *)
Fairness ==
    /\ WF_vars(ReadLimIter) /\ WF_vars(ReadIter)
    /\ WF_vars(PeekIter) /\ WF_vars(SkipIter)
    /\ WF_vars(ReadLineIter) /\ WF_vars(SkipLineIter)

Spec == Init /\ [][Next]_vars /\ Fairness

-----------------------------------------------------------------------------
TypeOK ==
    /\ f.pos \in 0..N /\ f.errs \in 0..MaxErrors
    /\ f.eof_seen \in BOOLEAN /\ f.delayed \in {"none", "eof", "err"}
    /\ f.peeked \in Seq(1..N) /\ Len(f.peeked) <= PeekSize
    /\ f.upeeked \in 0..Len(f.peeked)
    /\ h.filter \in {"file", "none"}
    /\ h.filter_eof \in BOOLEAN /\ h.error \in BOOLEAN
    /\ h.buf \in Seq(1..N)
    /\ 0 <= h.start /\ h.start <= Len(h.buf) /\ Len(h.buf) <= BufSize
    /\ h.preferred \in BOOLEAN /\ h.used \in 0..N
    /\ h.nbytes \in 0..N /\ h.ntotal \in 0..N
    /\ h.nlimit \in LimitValues /\ h.nofast \in BOOLEAN
    /\ op \in {"idle", "read", "readlim", "peek", "skip", "readline", "skipline"}
    /\ delivered \in Seq(1..N)
    /\ rl.len \in Nat /\ rl.line \in Seq(0..N) /\ rl.max \in {0, LineMax}
    /\ rl.got \in Seq(1..N) /\ rl.done \in BOOLEAN

(* Every byte the caller receives or skips, through the internal buffer, *)
(* the zero-copy route, file_filter's read-ahead or after a delayed EOF,  *)
(* is the next byte of the file: nothing lost, duplicated or reordered.   *)
DeliveredInOrder == IsPrefix(delivered, Src)

(* A read call reports EOF only when the whole file has been delivered,  *)
(* or a read error was recorded on the node, or the read limit is used   *)
(* up; a latched EOF or a delayed error never cuts the stream short.      *)
NoPrematureEOF ==
    ret = EOF =>
        \/ Len(delivered) = N
        \/ h.error
        \/ h.nlimit > 0 /\ h.nbytes >= h.nlimit

(* iobuf_peek and the PEEK ioctl return exactly the bytes the next reads  *)
(* will deliver, and consume none of them.                                *)
PeekMatchesNextBytes ==
    peekres = SubSeq(Src, Len(delivered) + 1, Len(delivered) + Len(peekres))

(* Between calls iobuf_tell equals the number of bytes the caller has     *)
(* read or skipped, whichever route (drain, zero-copy, skip, limit) they  *)
(* took and across iobuf_set_limit.                                       *)
TellCountsDelivered == Idle => Tell = Len(delivered)

(* Every iobuf_read, iobuf_skip_rest and iobuf_read_line call returns.   *)
ReadReturns == (op \in {"read", "readlim", "skip", "readline", "skipline"}) ~> Idle

(* A line ends with its '\n'.                                             *)
LineEnds(got) == got # <<>> /\ Last(got) \in NLs

(* A line of the stream that does not fit MAX bytes with "\n\0"; one cut *)
(* by EOF needs only the NUL, but the code keeps room for both.           *)
Truncated(got, m) == Len(got) >= (IF LineEnds(got) THEN m ELSE m - 1)

(* The reference: the line as iobuf_read_line's contract returns it.      *)
RefLine(got, m) ==
    IF Truncated(got, m) THEN SubSeq(got, 1, m - 2) \o <<NewLine>> ELSE got

(* iobuf_read_line returns the next line of the stream: it consumed the   *)
(* bytes up to and including the first '\n', or up to the end of the      *)
(* stream (EOF, a read error, the read limit), and returned them, or, if *)
(* they do not fit MAX, their first MAX-2 bytes and '\n' with *MAX = 0;  *)
(* whichever mix of memchr fast path, byte reads, underflows, growth of   *)
(* the caller's buffer and skipping at MAX produced it.                   *)
ReadLineExact ==
    rl.done =>
      /\ \A i \in 1..Len(rl.got) - 1 : rl.got[i] \notin NLs
      /\ LineEnds(rl.got) \/ Len(delivered) = N \/ h.error \/ LimitReached(h)
      /\ rl.line = RefLine(rl.got, LineMax)
      /\ rl.max = IF Truncated(rl.got, LineMax) THEN 0 ELSE LineMax

(* During and after iobuf_read_line the line leaves a byte of the         *)
(* caller's buffer free: the fast path's copy, the byte reads and the     *)
(* growth test keep fewer than LENGTH bytes stored, so the NUL written at *)
(* the end (and the '\n' written over the last byte at MAX) stay in BUF.  *)
BufferRoom ==
    (op \in {"readline", "skipline"} \/ rl.done) => Len(rl.line) <= rl.len - 1

(* Every iobuf_peek call returns.                                         *)
PeekReturns == (op = "peek") ~> Idle

=============================================================================
