---------------------------- MODULE FilterChain ----------------------------
(***************************************************************************)
(* A two-node input chain of the iobuf engine (src/common/iobuf.c): the  *)
(* caller opens a file, reads the first length octet of an OpenPGP packet *)
(* with a partial body, and calls iobuf_set_partial_body_length_mode,     *)
(* which pushes block_filter in front of the file node.  The caller then  *)
(* reads through the head; when block_filter reports EOF with nothing     *)
(* buffered, underflow_target copies the file node over the head (the     *)
(* "pop in underflow") and later reads reach the bytes after the packet.  *)
(*                                                                         *)
(* The head's filter call is one step: block_filter's UNDERFLOW runs its  *)
(* header and data loops to the end, reading the file node with iobuf_get *)
(* and iobuf_read, which call the file node's underflow_target and        *)
(* file_filter in turn (the Iobuf operators).  The pipeline is            *)
(* single-threaded, so nothing else runs during that call.                *)
(***************************************************************************)
EXTENDS Iobuf, FiniteSets

CONSTANTS
    MaxReq,     \* largest buffer length a caller passes to iobuf_read/peek
    MaxEofs     \* the caller stops calling after this many EOF results

ASSUME /\ Len(Src) > 0 /\ MaxReq \in Nat \ {0} /\ MaxEofs \in Nat \ {0}
       /\ \A i \in 1..Len(Src) : Src[i] \in 0..255

VARIABLES
    f,          \* file_filter_ctx_t of the file node, with the fd offset
    h,          \* the head node (what the caller's iobuf_t points to)
    lo,         \* the file node chained below the head while pushed
    ctx,        \* block_filter_ctx_t of the head while pushed
    pushed,     \* block_filter is in the chain
    op,         \* the API call in progress, "idle" between calls
    call,       \* arguments and loop state of the call in progress
    ret,        \* result of the last call
    got         \* history: bytes and EOF results the caller received

vars == <<f, h, lo, ctx, pushed, op, call, ret, got>>

NoNode == FreshNode("none")
NoCtx == [size |-> 0, partial |-> 0, first_c |-> 0, eof |-> FALSE]

(* What the head's filter works on: its context, the chained node and the *)
(* file below that.                                                       *)
Env == [ctx |-> ctx, lo |-> lo, fs |-> f]

LowFilt(fs) == [size \in 1..BufSize + MaxReq |-> FileUnderflow(fs, size)]

-----------------------------------------------------------------------------
(* iobuf_get(chain): iobuf_readbyte on the file node.                     *)
ChainGet(env) ==
    {[c |-> r.res, env |-> [env EXCEPT !.lo = r.h, !.fs = r.env]] :
        r \in ReadByteResults(env.lo, env.fs, LowFilt(env.fs), FALSE)}

(* The do-while loop of iobuf_read(A, BUF, REQ) on the file node, with     *)
(* ACC the bytes copied so far: drain the buffer, then underflow(A, 1)    *)
(* with the external drain set up for whole multiples of ZC.              *)
RECURSIVE LowReadLoop(_, _, _, _)
LowReadLoop(hd, fs, req, acc) ==
    LET size == Min({Len(hd.buf) - hd.start, req - Len(acc)})
        hd1 == [hd EXCEPT !.start = @ + size]
        acc1 == acc \o SubSeq(hd.buf, hd.start + 1, hd.start + size)
        edlen == ((req - Len(acc1)) \div ZC) * ZC
    IN  IF Len(acc1) >= req
        THEN {[h |-> [hd1 EXCEPT !.nbytes = @ + req], fs |-> fs, data |-> acc1]}
        ELSE UNION {IF u.res = EOF
                    THEN {[h |-> [u.h EXCEPT !.nbytes = @ + Len(acc1)],
                           fs |-> u.env, data |-> acc1]}
                    ELSE LowReadLoop(u.h, u.env, req,
                           acc1 \o (IF edlen > 0 /\ u.h.used > 0
                                    THEN u.ext ELSE <<u.res>>))
                    : u \in Underflow(hd1, fs, LowFilt(fs), FALSE, TRUE, 1, edlen)}

(* iobuf_read(chain, p, K) on the file node (no read limit is set on it): *)
(* the drain hint, then the loop; N is the count (0 for EOF).             *)
ChainRead(env, k) ==
    {[n |-> Len(o.data), data |-> o.data,
      env |-> [env EXCEPT !.lo = o.h, !.fs = o.fs]] :
        o \in LowReadLoop([env.lo EXCEPT !.preferred = k >= ZC], env.fs, k, <<>>)}

-----------------------------------------------------------------------------
(* block_filter, IOBUFCTRL_UNDERFLOW.  An outcome is [rc, data, env].     *)
Ret(rc, acc, env) == [rc |-> rc, data |-> acc, env |-> env]

(* The first octet of a length header: the one the caller consumed before *)
(* the push (first_c), else iobuf_get(chain).                             *)
FirstOctet(env) ==
    IF env.ctx.first_c # 0
    THEN {[c |-> env.ctx.first_c, env |-> [env EXCEPT !.ctx.first_c = 0]]}
    ELSE ChainGet(env)

(* The four octets after a 255 header, big-endian; EOF if one is missing. *)
RECURSIVE GetLen4(_, _, _)
GetLen4(env, k, len) ==
    IF k = 0 THEN {[c |-> len, env |-> env]}
    ELSE UNION {IF g.c = EOF THEN {[c |-> EOF, env |-> g.env]}
                ELSE GetLen4(g.env, k - 1, len * 256 + g.c) : g \in ChainGet(env)}

(* The length header starting with octet C: a final length (partial = 2) *)
(* of one, two or five octets, or the next partial chunk of 2^(C & 0x1f). *)
(* ST = "err": a length octet is missing (GPG_ERR_BAD_DATA).              *)
LenHeader(env, c) ==
    LET final(sz, e) == [st |-> "ok",
                         env |-> [e EXCEPT !.ctx.size = sz, !.ctx.partial = 2]]
    IN  IF c < 192 THEN {final(c, env)}
        ELSE IF c < 224
        THEN {IF g.c = EOF THEN [st |-> "err", env |-> g.env]
              ELSE final((c - 192) * 256 + g.c + 192, g.env) : g \in ChainGet(env)}
        ELSE IF c = 255
        THEN {IF g.c = EOF THEN [st |-> "err", env |-> g.env]
              ELSE final(g.c, g.env) : g \in GetLen4(env, 4, 0)}
        ELSE {[st |-> "ok", env |-> [env EXCEPT !.ctx.size = 2 ^ (c % 32)]]}

(* Mutant: the whole rest of the chunk is read, whatever the room left.   *)
NeededWholeChunk(size, c) == c.size

(* The bytes of the current chunk to read now: no more than SIZE.         *)
Needed(size, c) == Min({size, c.size})

(* The loop "while (!rc && size)": read a header when the chunk is done,  *)
(* stop with EOF after the final chunk, else copy from the chain; a short *)
(* read (end of file or error below) is GPG_ERR_BAD_DATA and the bytes of *)
(* that read are dropped.                                                 *)
RECURSIVE BlockLoop(_, _, _)
BlockLoop(env, size, acc) ==
    LET stopEof(e) == {Ret(IF acc = <<>> THEN "eof" ELSE "ok", acc,
                           [e EXCEPT !.ctx.eof = TRUE])}
    IN
    IF size = 0 THEN {Ret("ok", acc, env)}
    ELSE IF env.ctx.size # 0
    THEN LET k == Needed(size, env.ctx) IN
         UNION {IF r.n < k THEN {Ret("err", acc, r.env)}
                ELSE BlockLoop([r.env EXCEPT !.ctx.size = @ - r.n],
                               size - r.n, acc \o r.data)
                : r \in ChainRead(env, k)}
    ELSE IF env.ctx.partial = 2 THEN stopEof(env)
    ELSE UNION {IF g.c = EOF THEN {Ret("err", acc, g.env)}
                ELSE UNION {IF l.st = "err" THEN {Ret("err", acc, l.env)}
                            ELSE IF l.env.ctx.size = 0 THEN stopEof(l.env)
                            ELSE BlockLoop(l.env, size, acc)
                            : l \in LenHeader(g.env, g.c)}
                : g \in FirstOctet(env)}

BlockUnderflow(env, size) ==
    IF env.ctx.eof THEN {Ret("eof", <<>>, env)} ELSE BlockLoop(env, size, <<>>)

(* The head's filter: block_filter while pushed, else file_filter.         *)
HeadFilt(env) ==
    IF pushed
    THEN [size \in 1..BufSize + MaxReq |-> BlockUnderflow(env, size)]
    ELSE [size \in 1..BufSize + MaxReq |->
            {[o EXCEPT !.env = [env EXCEPT !.fs = o.env]] :
                o \in FileUnderflow(env.fs, size)}]

-----------------------------------------------------------------------------
Idle == op = "idle"

(* The caller reads the packet's first length octet with iobuf_get, then *)
(* pushes block_filter and reads the body through the head, then the rest *)
(* of the file; it stops after MaxEofs EOF results.                       *)
CanCall == Len(SelectSeq(got, LAMBDA x : x = EOF)) < MaxEofs
InBody == pushed \/ Len(got) > 1

(* Mutant: the head is left in place when underflow_target unlinks it.    *)
InstallNoSplice(hn, env, pop, k) ==
    /\ f' = env.fs
    /\ h' = [hn EXCEPT !.nbytes = @ + k]
    /\ lo' = env.lo /\ ctx' = env.ctx /\ UNCHANGED pushed

(* Store the result of an underflow on the head: the new head HN and the  *)
(* filter's state ENV; if POP, the chained node's copy becomes the head   *)
(* (memcpy (a, b, sizeof *a)).  K bytes are then added to the head's       *)
(* nbytes ("a->nbytes += n" of iobuf_read, after the underflow returned). *)
Install(hn, env, pop, k) ==
    /\ f' = env.fs
    /\ IF pop
       THEN /\ h' = [env.lo EXCEPT !.nbytes = @ + k]
            /\ lo' = NoNode /\ ctx' = NoCtx /\ pushed' = FALSE
       ELSE /\ h' = [hn EXCEPT !.nbytes = @ + k]
            /\ lo' = env.lo /\ ctx' = env.ctx /\ UNCHANGED pushed

(* iobuf_readbyte / iobuf_get on the head.                                *)
ReadByte ==
    /\ Idle /\ CanCall /\ (InBody \/ got = <<>>)
    /\ \E r \in ReadByteResults(h, Env, HeadFilt(Env), pushed) :
         /\ Install(r.h, r.env, r.pop, 0)
         /\ ret' = r.res /\ got' = Append(got, r.res)
    /\ UNCHANGED <<op, call>>

(* iobuf_read(A, BUF, LEN) with a buffer: no read limit is set on the     *)
(* head, so it resets the drain descriptor and sets the drain hint.       *)
ReadStart ==
    /\ Idle /\ CanCall /\ InBody
    /\ \E len \in 1..MaxReq :
         /\ call' = [req |-> len, n |-> 0]
         /\ h' = [h EXCEPT !.preferred = len >= ZC]
    /\ op' = "read" /\ ret' = NONE
    /\ UNCHANGED <<f, lo, ctx, pushed, got>>

(* One iteration of iobuf_read's do-while loop on the head.               *)
ReadIter ==
    /\ op = "read"
    /\ LET size == Min({Len(h.buf) - h.start, call.req - call.n})
           drained == SubSeq(h.buf, h.start + 1, h.start + size)
           hd == [h EXCEPT !.start = @ + size]
           n1 == call.n + size
           edlen == ((call.req - n1) \div ZC) * ZC
       IN
       IF n1 >= call.req
       THEN /\ h' = [hd EXCEPT !.nbytes = @ + n1]
            /\ ret' = n1 /\ op' = "idle" /\ got' = got \o drained
            /\ UNCHANGED <<f, lo, ctx, pushed, call>>
       ELSE \E u \in Underflow(hd, Env, HeadFilt(Env), pushed, TRUE, 1, edlen) :
              IF u.res = EOF
              THEN /\ Install(u.h, u.env, u.pop, n1)
                   /\ ret' = IF n1 > 0 THEN n1 ELSE EOF
                   /\ got' = got \o drained \o (IF n1 > 0 THEN <<>> ELSE <<EOF>>)
                   /\ op' = "idle" /\ UNCHANGED call
              ELSE LET more == IF edlen > 0 /\ u.h.used > 0 THEN u.ext
                               ELSE <<u.res>>
                       n2 == n1 + Len(more)
                   IN /\ got' = got \o drained \o more
                      /\ IF n2 < call.req
                         THEN /\ Install(u.h, u.env, FALSE, 0)
                              /\ call' = [call EXCEPT !.n = n2]
                              /\ UNCHANGED <<ret, op>>
                         ELSE /\ Install(u.h, u.env, FALSE, n2)
                              /\ ret' = n2 /\ op' = "idle" /\ UNCHANGED call

(* iobuf_peek(A, BUF, LEN), LEN capped at the buffer size.                *)
PeekStart ==
    /\ Idle /\ CanCall /\ InBody
    /\ \E len \in 1..MaxReq : call' = [req |-> Min({len, BufSize}), n |-> 0]
    /\ op' = "peek" /\ ret' = NONE
    /\ UNCHANGED <<f, h, lo, ctx, pushed, got>>

PeekDone(hd) ==
    LET n == Min({Len(hd.buf) - hd.start, call.req}) IN
    op' = "idle" /\ ret' = IF n = 0 THEN EOF ELSE n

(* One iteration of iobuf_peek's fill loop: underflow_target(A, 0, LEN)   *)
(* (a pending EOF is returned but not cleared, so the head is never       *)
(* unlinked here), unget the returned byte; stop at EOF.                  *)
PeekIter ==
    /\ op = "peek"
    /\ IF call.req > Len(h.buf) - h.start
       THEN \E u \in Underflow(h, Env, HeadFilt(Env), pushed, FALSE, call.req, 0) :
              IF u.res = EOF
              THEN Install(u.h, u.env, u.pop, 0) /\ PeekDone(u.h)
              ELSE /\ Install([u.h EXCEPT !.start = 0], u.env, u.pop, 0)
                   /\ UNCHANGED <<op, ret>>
       ELSE PeekDone(h) /\ UNCHANGED <<f, h, lo, ctx, pushed>>
    /\ UNCHANGED <<call, got>>

(* Mutant: the new head's ntotal is not carried over from the old one.    *)
PushedNodeNoTotal(b) ==
    [b EXCEPT !.filter = "block", !.filter_eof = FALSE, !.buf = <<>>,
              !.start = 0, !.ntotal = 0, !.nlimit = 0, !.nbytes = 0,
              !.nofast = FALSE]

(* Mutant: the new head keeps the old node's buffer.                      *)
PushedNodeKeepBuf(b) ==
    [b EXCEPT !.filter = "block", !.filter_eof = FALSE,
              !.ntotal = b.ntotal + b.nbytes, !.nlimit = 0, !.nbytes = 0,
              !.nofast = FALSE]

(* iobuf_push_filter2: the head A becomes a copy of the old head with the *)
(* new filter, a fresh empty buffer, ntotal carried over, the read limit  *)
(* and fast-path flag cleared; error, the drain hint and e_d are copied.  *)
PushedNode(b) ==
    [b EXCEPT !.filter = "block", !.filter_eof = FALSE, !.buf = <<>>,
              !.start = 0, !.ntotal = b.ntotal + b.nbytes, !.nlimit = 0,
              !.nbytes = 0, !.nofast = FALSE]

(* iobuf_set_partial_body_length_mode(A, C) after the caller read the     *)
(* first length octet C >= 224 of the packet: push block_filter with      *)
(* partial = 1, size = 0, first_c = C; its INIT clears eof.                *)
Push ==
    /\ Idle /\ ~pushed
    /\ got = <<Src[1]>> /\ Src[1] >= 224
    /\ lo' = h
    /\ h' = PushedNode(h)
    /\ ctx' = [size |-> 0, partial |-> 1, first_c |-> Src[1], eof |-> FALSE]
    /\ pushed' = TRUE
    /\ UNCHANGED <<f, op, call, ret, got>>

(* iobuf_open: one node with file_filter over an unread descriptor.       *)
Init ==
    /\ f = FreshFile
    /\ h = FreshNode("file")
    /\ lo = NoNode /\ ctx = NoCtx /\ pushed = FALSE
    /\ op = "idle" /\ call = [req |-> 0, n |-> 0]
    /\ ret = NONE /\ got = <<>>

Next ==
    \/ ReadByte \/ ReadStart \/ ReadIter
    \/ PeekStart \/ PeekIter \/ Push

(* A call in progress runs its loop to the end; the caller is not fair.   *)
Spec == Init /\ [][Next]_vars /\ WF_vars(ReadIter) /\ WF_vars(PeekIter)

-----------------------------------------------------------------------------
(* Reference decoder of the partial-body framing (OpenPGP, RFC 4880       *)
(* 4.2.2): [body, rest] of a sequence S that starts with a length octet.  *)
RECURSIVE RefDecode(_)
RefDecode(s) ==
    LET L == s[1]
        Final(len, hdr) == [body |-> SubSeq(s, hdr + 1, hdr + len),
                            rest |-> SubSeq(s, hdr + len + 1, Len(s))]
    IN  CASE L < 192 -> Final(L, 1)
          [] L < 224 -> Final((L - 192) * 256 + s[2] + 192, 2)
          [] L = 255 -> Final(((s[2] * 256 + s[3]) * 256 + s[4]) * 256 + s[5], 5)
          [] OTHER   -> LET k == 2 ^ (L % 32)
                            r == RefDecode(SubSeq(s, k + 2, Len(s)))
                        IN  [body |-> SubSeq(s, 2, k + 1) \o r.body,
                             rest |-> r.rest]

Payload == RefDecode(Src).body
Trailer == RefDecode(Src).rest

(* The stream the caller should see: the length octet it read itself, the *)
(* packet body, then the bytes after the packet.                          *)
Expected == <<Src[1]>> \o Payload \o Trailer
Boundary == 1 + Len(Payload)

IsData(x) == x # EOF
DataOf(s) == SelectSeq(s, IsData)
EofsAt(k) == {i \in 1..Len(got) : got[i] = EOF /\ Len(DataOf(SubSeq(got, 1, i - 1))) = k}

Tell == h.ntotal + h.nbytes

-----------------------------------------------------------------------------
TypeOK ==
    /\ f.pos \in 0..Len(Src) /\ f.errs \in 0..MaxErrors
    /\ h.filter \in {"file", "block", "none"} /\ lo.filter \in {"file", "none"}
    /\ h.buf \in Seq(0..255) /\ Len(h.buf) <= BufSize
    /\ h.start \in 0..Len(h.buf)
    /\ lo.buf \in Seq(0..255) /\ Len(lo.buf) <= BufSize
    /\ lo.start \in 0..Len(lo.buf)
    /\ ctx.partial \in 0..2 /\ ctx.size \in Nat /\ ctx.eof \in BOOLEAN
    /\ pushed \in BOOLEAN /\ op \in {"idle", "read", "peek"}
    /\ got \in Seq(0..255 \cup {EOF})

(* Whatever route the bytes take (block_filter's header and data loops    *)
(* over iobuf_get/iobuf_read of the file node, the head's buffer, the     *)
(* zero-copy drain, the splice of the file node over the head), the bytes *)
(* the caller receives are the packet body decoded as the framing says,   *)
(* then the bytes after it: no header octet leaks into the body, nothing  *)
(* is lost or repeated.  After a read error they stop, never go wrong.    *)
BytesInOrder == IsPrefix(DataOf(got), Expected)

(* Without I/O errors, an EOF reaches the caller only at the end of the   *)
(* packet body or at the end of the file, and at most one EOF at the end  *)
(* of the body: the head is unlinked by the EOF that reports it, so the   *)
(* next call reads on below.                                              *)
OneEofAtBoundary ==
    f.errs = 0 =>
        /\ \A i \in 1..Len(got) :
              got[i] = EOF =>
                 Len(DataOf(SubSeq(got, 1, i - 1))) \in {Boundary, Len(Expected)}
        /\ Cardinality(EofsAt(Boundary)) <= 1

(* iobuf_tell never goes back across a read, a push or the splice: the    *)
(* pushed head starts from the old head's position and the file node     *)
(* spliced back in counts every byte block_filter took from it.           *)
TellMonotonic == [][Tell' >= Tell]_vars

(* Violation run: the end of the body is reported to the caller (an EOF)  *)
(* before any byte after the packet (spec: a final length means the next  *)
(* call returns EOF).  iobuf_read returns the last body bytes and drops   *)
(* the one EOF when underflow unlinks the head inside its loop.           *)
EofBeforeTrailer == Len(DataOf(got)) > Boundary => EOF \in Range(got)

=============================================================================
