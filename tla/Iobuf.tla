------------------------------- MODULE Iobuf -------------------------------
(***************************************************************************)
(* Constant-level operators of the iobuf engine (src/common/iobuf.c)      *)
(* shared by the pipeline modules: file_filter's UNDERFLOW over a file    *)
(* holding the bytes Src, and the node-level underflow_target and         *)
(* iobuf_readbyte.                                                        *)
(*                                                                        *)
(* A node is a record with the fields of struct iobuf_struct that the     *)
(* read path uses: filter ("none" once freed), filter_eof, error, buf     *)
(* (d.buf[0 .. d.len)), start (d.start), preferred and used (e_d), nbytes,*)
(* ntotal, nlimit, nofast.  A filter call is given as a function FILT    *)
(* from the request size to the set of outcomes [rc, data, env], where    *)
(* env is whatever state the filter and what lies below it keep.  Operators *)
(* that model a C function with a nondeterministic outcome give the set   *)
(* of its possible outcomes.                                              *)
(***************************************************************************)
EXTENDS Integers, Sequences, SequencesExt

CONSTANTS
    Src,        \* the bytes of the file under the pipeline
    BufSize,    \* iobuf_buffer_size: capacity of a node's internal buffer
    ZC,         \* IOBUF_ZEROCOPY_THRESHOLD_SIZE
    MaxErrors   \* read() calls that may fail with an I/O error

ASSUME /\ BufSize \in Nat \ {0} /\ ZC \in 1..BufSize /\ MaxErrors \in Nat

(* Return values of underflow: EOF is -1 and the zero-copy "bytes went to *)
(* the external buffer" marker is 0.  NONE: no result yet.                *)
EOF == -1
EXT == 0
NONE == -2

Bytes(from, k) == SubSeq(Src, from + 1, from + k)

(* A file_filter context (with the descriptor's offset pos) right after   *)
(* file_filter's IOBUFCTRL_INIT.                                           *)
FreshFile == [pos |-> 0, errs |-> 0, eof_seen |-> FALSE, delayed |-> "none",
              peeked |-> <<>>, upeeked |-> 0]

(* A node right after iobuf_alloc with FILTER installed.                  *)
FreshNode(filter) ==
    [filter |-> filter, filter_eof |-> FALSE, error |-> FALSE,
     buf |-> <<>>, start |-> 0, preferred |-> FALSE, used |-> 0,
     nbytes |-> 0, ntotal |-> 0, nlimit |-> 0, nofast |-> FALSE]

-----------------------------------------------------------------------------
(* file_filter, IOBUFCTRL_UNDERFLOW, the read() loop: keep reading until  *)
(* SIZE bytes are in, read() returns 0 (end of file) or -1 (error).  Data *)
(* read before EOF or an error is returned now, the EOF or error is       *)
(* latched in delayed_rc for the next call.  The same loop, into the      *)
(* read-ahead buffer, is IOBUFCTRL_PEEK.                                  *)
FileRead(fs, size) ==
    LET rem == Len(Src) - fs.pos
        Full == [rc |-> "ok", data |-> Bytes(fs.pos, size),
                 env |-> [fs EXCEPT !.pos = @ + size]]
        AtEof == IF rem > 0
                 THEN [rc |-> "ok", data |-> Bytes(fs.pos, rem),
                       env |-> [fs EXCEPT !.pos = Len(Src), !.delayed = "eof"]]
                 ELSE [rc |-> "eof", data |-> <<>>,
                       env |-> [fs EXCEPT !.eof_seen = TRUE]]
        ErrAfter(m) ==
                 IF m > 0
                 THEN [rc |-> "ok", data |-> Bytes(fs.pos, m),
                       env |-> [fs EXCEPT !.pos = @ + m, !.delayed = "err",
                                          !.errs = @ + 1]]
                 ELSE [rc |-> "err", data |-> <<>>,
                       env |-> [fs EXCEPT !.errs = @ + 1]]
    IN  (IF rem >= size THEN {Full} ELSE {AtEof})
        \cup (IF fs.errs < MaxErrors
              THEN {ErrAfter(m) : m \in 0..Min({rem, size - 1})}
              ELSE {})

(* Mutant: the read-ahead bytes are served but upeeked is not advanced.   *)
ServePeekedNoAdvance(fs, size) ==
    LET k == Min({Len(fs.peeked) - fs.upeeked, size}) IN
    [rc |-> "ok", data |-> SubSeq(fs.peeked, fs.upeeked + 1, fs.upeeked + k),
     env |-> fs]

(* Mutant: upeeked is advanced by the requested size, not the bytes served. *)
ServePeekedOverAdvance(fs, size) ==
    LET k == Min({Len(fs.peeked) - fs.upeeked, size}) IN
    [rc |-> "ok", data |-> SubSeq(fs.peeked, fs.upeeked + 1, fs.upeeked + k),
     env |-> [fs EXCEPT !.upeeked = @ + size]]

(* file_filter, IOBUFCTRL_UNDERFLOW, the read-ahead branch: hand out at   *)
(* most SIZE of the bytes the PEEK ioctl buffered and not yet served.     *)
ServePeeked(fs, size) ==
    LET k == Min({Len(fs.peeked) - fs.upeeked, size}) IN
    [rc |-> "ok", data |-> SubSeq(fs.peeked, fs.upeeked + 1, fs.upeeked + k),
     env |-> [fs EXCEPT !.upeeked = @ + k]]

(* file_filter, IOBUFCTRL_UNDERFLOW: serve the read-ahead buffer first,   *)
(* then a latched EOF, then a delayed return code, then read().          *)
FileUnderflow(fs, size) ==
    IF fs.upeeked < Len(fs.peeked)
    THEN {ServePeeked(fs, size)}
    ELSE IF fs.eof_seen
    THEN {[rc |-> "eof", data |-> <<>>, env |-> fs]}
    ELSE IF fs.delayed # "none"
    THEN {[rc |-> fs.delayed, data |-> <<>>,
           env |-> [fs EXCEPT !.delayed = "none",
                              !.eof_seen = (fs.delayed = "eof")]]}
    ELSE FileRead(fs, size)

-----------------------------------------------------------------------------
(* The tail of underflow_target: the zero-copy marker if the external     *)
(* buffer was filled, else the next buffered byte, else EOF.  POP: the    *)
(* caller must unlink the head and put the chained node in its place.     *)
Deliver(c, env, ext) ==
    IF c.used > 0
    THEN [h |-> c, env |-> env, res |-> EXT, ext |-> ext, pop |-> FALSE]
    ELSE IF c.start < Len(c.buf)
    THEN [h |-> [c EXCEPT !.start = @ + 1], env |-> env,
          res |-> c.buf[c.start + 1], ext |-> <<>>, pop |-> FALSE]
    ELSE [h |-> c, env |-> env, res |-> EOF, ext |-> <<>>, pop |-> FALSE]

EofResult(c, env, pop) ==
    [h |-> c, env |-> env, res |-> EOF, ext |-> <<>>, pop |-> pop]

(* underflow_target after A->FILTER returned outcome O: on EOF free the   *)
(* filter and latch filter_eof, then unlink the node if CLEAR, nothing is *)
(* buffered and a node is CHAINED below, else return EOF at once if       *)
(* nothing is buffered; on an error record it as sticky and return EOF at *)
(* once if nothing is buffered.                                           *)
AfterFilter(c, o, toExt, chained, clear) ==
    LET c1 == IF toExt THEN [c EXCEPT !.used = Len(o.data)]
                       ELSE [c EXCEPT !.buf = @ \o o.data]
        ext == IF toExt THEN o.data ELSE <<>>
        empty(x) == Len(x.buf) = 0 /\ x.used = 0
    IN  IF o.rc = "eof"
        THEN LET c2 == [c1 EXCEPT !.filter = "none", !.filter_eof = TRUE] IN
             IF clear /\ empty(c2) /\ chained THEN EofResult(c2, o.env, TRUE)
             ELSE IF empty(c2) THEN EofResult(c2, o.env, FALSE)
             ELSE Deliver(c2, o.env, ext)
        ELSE IF o.rc = "err"
        THEN LET c2 == [c1 EXCEPT !.error = TRUE] IN
             IF empty(c2) THEN EofResult(c2, o.env, FALSE)
                          ELSE Deliver(c2, o.env, ext)
        ELSE Deliver(c1, o.env, ext)

(* underflow_target's test for returning a pending EOF: the filter has    *)
(* signalled EOF and fewer than TARGET bytes are buffered.                *)
PendingEof(c, target) == Len(c.buf) < target /\ c.filter_eof

(* underflow_target(A, CLEAR, TARGET) on an IOBUF_INPUT node HD whose     *)
(* filter call is FILT (for each request size, the set of outcomes of    *)
(* A->FILTER with IOBUFCTRL_UNDERFLOW); CHAINED: a node follows HD; EDLEN: the usable length   *)
(* of the caller's external drain buffer (0: none).  Compacts the buffer, *)
(* returns a pending EOF once (unlinking HD if CLEAR and CHAINED, else    *)
(* clearing the latch), returns a pending error once nothing is buffered, *)
(* and otherwise calls the filter for the free space, capped at ZC when   *)
(* the external drain is preferred, into the external buffer if nothing   *)
(* is buffered and it holds at least ZC bytes.                            *)
Underflow(hd, env, filt, chained, clear, target, edlen) ==
    LET c == [hd EXCEPT !.buf = SubSeq(@, hd.start + 1, Len(@)),
                        !.start = 0, !.used = 0]
        dlen == Len(c.buf)
    IN
    IF PendingEof(c, target)
    THEN {IF ~clear THEN EofResult(c, env, FALSE)
          ELSE IF chained THEN EofResult(c, env, TRUE)
          ELSE EofResult([c EXCEPT !.filter_eof = FALSE], env, FALSE)}
    ELSE IF dlen = 0 /\ c.error
    THEN {EofResult(c, env, FALSE)}
    ELSE IF c.filter # "none" /\ ~c.filter_eof /\ ~c.error
    THEN LET len0 == BufSize - dlen
             len == IF c.preferred /\ dlen < ZC /\ ZC - dlen < len0
                    THEN ZC - dlen ELSE len0
             toExt == dlen = 0 /\ edlen >= ZC
         IN  IF len = 0 THEN {Deliver(c, env, <<>>)}
             ELSE {AfterFilter(c, o, toExt, chained, clear) :
                     o \in filt[IF toExt THEN edlen ELSE len]}
    ELSE {Deliver(c, env, <<>>)}

(* Mutant: the limit is tested without checking that one is set.         *)
LimitReachedUnguarded(hd) == hd.nbytes >= hd.nlimit

(* A read limit is set (nlimit > 0) and used up: the read calls report EOF. *)
LimitReached(hd) == hd.nlimit > 0 /\ hd.nbytes >= hd.nlimit

(* iobuf_readbyte: the read limit forces EOF, else a buffered byte, else  *)
(* underflow(A, 1).  Outcomes [h, env, res, pop].                         *)
ReadByteResults(hd, env, filt, chained) ==
    IF LimitReached(hd)
    THEN {[h |-> hd, env |-> env, res |-> EOF, pop |-> FALSE]}
    ELSE IF hd.start < Len(hd.buf)
    THEN {[h |-> [hd EXCEPT !.start = @ + 1, !.nbytes = @ + 1], env |-> env,
           res |-> hd.buf[hd.start + 1], pop |-> FALSE]}
    ELSE {IF u.res = EOF THEN [h |-> u.h, env |-> u.env, res |-> EOF, pop |-> u.pop]
          ELSE [h |-> [u.h EXCEPT !.nbytes = @ + 1], env |-> u.env,
                res |-> u.res, pop |-> FALSE]
          : u \in Underflow(hd, env, filt, chained, TRUE, 1, 0)}

=============================================================================
