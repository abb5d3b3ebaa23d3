--------------------------- MODULE OutputPipeline ---------------------------
(***************************************************************************)
(* The write side of the iobuf engine (src/common/iobuf.c) with the       *)
(* OpenPGP partial-body encoder: block_filter pushed by                   *)
(* iobuf_set_partial_body_length_mode on a temp iobuf (iobuf_temp).  The  *)
(* writer calls iobuf_write and iobuf_writebyte on the head; a full head  *)
(* buffer, or a write large enough for the zero-copy route, goes through  *)
(* filter_flush to block_filter's FLUSH, which emits power-of-two partial *)
(* chunks into the temp node and keeps a remainder below the minimum      *)
(* chunk; iobuf_flush_temp pops the filter, whose FREE writes the final   *)
(* length header and the remainder.                                       *)
(*                                                                         *)
(* Sizes are scaled down: the minimum chunk OP_MIN_PARTIAL_CHUNK (512 =   *)
(* 2^9) is 2^MinPow, the zero-copy threshold (1024) is ZC and the buffer  *)
(* size (64 KiB) is BufSize, keeping their ratios: MinChunk divides ZC    *)
(* and ZC divides BufSize.  Each API call is one step (single-threaded    *)
(* code, nothing else runs inside it).  A failing log_assert ends the     *)
(* process: ABORTED.                                                      *)
(***************************************************************************)
EXTENDS Integers, Sequences, SequencesExt

CONSTANTS
    Data,       \* the bytes the writer writes, in order
    BufSize,    \* iobuf_buffer_size: the head's d.size
    ZC,         \* IOBUF_ZEROCOPY_THRESHOLD_SIZE
    MinPow,     \* OP_MIN_PARTIAL_CHUNK_2POW
    MaxReq,     \* largest buflen the writer passes to iobuf_write
    Lower       \* use of the iobuf the filter was pushed on, copied into
                \* the filter context: "output" or "output_temp"

MinChunk == 2 ^ MinPow

ASSUME /\ MinPow \in Nat \ {0} /\ ZC % MinChunk = 0 /\ BufSize % ZC = 0
       /\ MaxReq \in Nat \ {0}
       /\ Lower \in {"output", "output_temp"}
       /\ \A i \in 1..Len(Data) : Data[i] \in 0..255

VARIABLES
    h,          \* the head: d.buf (its bytes) and e_d.preferred
    stash,      \* block_filter_ctx_t buffer[0 .. buflen)
    sink,       \* the bytes in the temp node below (its d.buf)
    blk,        \* block_filter on the head: "none" (not yet pushed),
                \* "pushed", or "popped"
    written,    \* history: the bytes iobuf_write/writebyte accepted
    aborted     \* a log_assert failed

vars == <<h, stash, sink, blk, written, aborted>>

-----------------------------------------------------------------------------
(* The for-loop of block_filter FLUSH that picks the chunk length: from   *)
(* 2 * MinChunk double while not above NBYTES, then halve; C is log2.      *)
RECURSIVE BlockLen(_, _, _)
BlockLen(blen, c, nbytes) ==
    IF blen <= nbytes THEN BlockLen(blen * 2, c + 1, nbytes)
    ELSE [blen |-> blen \div 2, c |-> c - 1]

ChunkLen(nbytes) == BlockLen(2 * MinChunk, MinPow + 1, nbytes)

(* The do-while loop of block_filter FLUSH: write the header 0xe0 | c,    *)
(* the stashed bytes (asserted to be exactly one minimum chunk), then up  *)
(* to BLEN bytes of P; go on while at least a minimum chunk is left, and  *)
(* stash the rest.                                                        *)
RECURSIVE EmitChunks(_, _, _, _)
EmitChunks(st, p, nbytes, out) ==
    LET bl == ChunkLen(nbytes)
        o1 == out \o <<224 + bl.c>>
    IN  IF st # <<>> /\ Len(st) # MinChunk
        THEN [stash |-> st, out |-> o1, abort |-> TRUE]
        ELSE LET left == nbytes - Len(st)
                 n == Min({left, bl.blen})
                 o2 == o1 \o st \o SubSeq(p, 1, n)
                 rest == SubSeq(p, n + 1, Len(p))
             IN  IF left - n >= MinChunk
                 THEN EmitChunks(<<>>, rest, left - n, o2)
                 ELSE [stash |-> rest, out |-> o2, abort |-> FALSE]

(* block_filter, IOBUFCTRL_FLUSH of the bytes DATA with stash ST: below a *)
(* minimum chunk in all, stash them; else emit chunks.                    *)
BlockFlush(st, data) ==
    IF Len(data) + Len(st) < MinChunk
    THEN [stash |-> st \o data, out |-> <<>>, abort |-> FALSE]
    ELSE EmitChunks(st, data, Len(data) + Len(st), <<>>)

(* The final length header of block_filter FREE: one octet below 192, two *)
(* below 8384, else 0xff and four octets.                                 *)
FinalHeader(len) ==
    IF len < 192 THEN <<len>>
    ELSE IF len < 8384 THEN <<(len - 192) \div 256 + 192, (len - 192) % 256>>
    ELSE <<255, (len \div 2 ^ 24) % 256, (len \div 2 ^ 16) % 256,
           (len \div 256) % 256, len % 256>>

(* Mutant: no end marker when nothing is pending.                          *)
BlockFreeSkipEmpty(st) ==
    IF Lower = "output" /\ st # <<>> THEN FinalHeader(Len(st)) \o st ELSE <<>>

(* block_filter, IOBUFCTRL_FREE: if the context's use is IOBUF_OUTPUT,    *)
(* the final header, then the stashed remainder; otherwise nothing.       *)
BlockFree(st) ==
    IF Lower = "output" THEN FinalHeader(Len(st)) \o st ELSE <<>>

(* block_filter, IOBUFCTRL_FLUSH, as a filter of the node above: the     *)
(* state below the head is [stash, sink, abort].                          *)
BlockStep(st, data) ==
    LET bf == BlockFlush(st.stash, data)
    IN  [st EXCEPT !.stash = bf.stash, !.sink = @ \o bf.out, !.abort = bf.abort]

(* filter_flush on a head HD whose filter is \odot: hand the filter the  *)
(* external drain EXT if nothing is buffered and one is set up, else the  *)
(* buffer; empty the buffer; USED: the bytes taken from the external      *)
(* drain.  ST \odot BYTES is the state below the head once the filter's  *)
(* FLUSH of BYTES returns; its abort field is set when that call ended    *)
(* the process.                                                           *)
FlushWith(_ \odot _, hd, st, ext) ==
    LET useExt == hd.buf = <<>> /\ ext # <<>>
    IN  [h |-> [hd EXCEPT !.buf = <<>>],
         st |-> st \odot (IF useExt THEN ext ELSE hd.buf),
         used |-> IF useExt THEN Len(ext) ELSE 0]

FilterFlush(hd, st, ext) == FlushWith(BlockStep, hd, st, ext)

(* Mutant: the external drain takes all N bytes, not whole multiples of ZC. *)
ExtLenWhole(hd, n) == IF hd.buf = <<>> /\ n >= ZC THEN n ELSE 0

(* iobuf_write's external drain: with nothing buffered and at least ZC    *)
(* bytes to go, the writer's buffer is flushed directly, in whole         *)
(* multiples of ZC.                                                       *)
ExtLen(hd, n) == IF hd.buf = <<>> /\ n >= ZC THEN (n \div ZC) * ZC ELSE 0

(* Mutant: the unsigned room to ZC is taken even past ZC and wraps (2^30 *)
(* stands in for the 2^32 of a 32-bit unsigned, beyond TLC's integers).   *)
RoomNoCheck(hd) ==
    IF hd.preferred THEN (ZC - Len(hd.buf)) % 2 ^ 30 ELSE BufSize - Len(hd.buf)

(* The room iobuf_write fills: up to ZC when the drain is preferred and   *)
(* the buffer holds less than ZC, else up to d.size.                      *)
Room(hd) ==
    IF hd.preferred /\ Len(hd.buf) < ZC THEN ZC - Len(hd.buf)
    ELSE BufSize - Len(hd.buf)

(* Mutant: the count drops but the pointer is not advanced.               *)
RestNoAdvance(data, k) == SubSeq(data, 1, Len(data) - k)

(* What is left of the writer's bytes once K were taken.                  *)
Rest(data, k) == SubSeq(data, k + 1, Len(data))

(* The do-while loop of iobuf_write(A, DATA) on a head whose filter is   *)
(* \odot: with nothing buffered and at least ZC bytes to go, set up the *)
(* external drain (whole multiples of ZC); else copy into the buffer, up  *)
(* to ZC when the drain is preferred, else up to d.size; while bytes      *)
(* remain, flush and skip what the filter took from the drain.            *)
RECURSIVE WriteWith(_, _, _, _)
WriteWith(_ \odot _, hd, st, data) ==
    LET edlen == ExtLen(hd, Len(data))
        k == IF edlen = 0 /\ Len(hd.buf) < BufSize
             THEN Min({Room(hd), Len(data)}) ELSE 0
        hd1 == [hd EXCEPT !.buf = @ \o SubSeq(data, 1, k)]
        d1 == Rest(data, k)
    IN  IF d1 = <<>> THEN [h |-> hd1, st |-> st]
        ELSE LET fl == FlushWith(\odot, hd1, st, SubSeq(d1, 1, edlen)) IN
             IF fl.st.abort THEN [h |-> fl.h, st |-> fl.st]
             ELSE WriteWith(\odot, fl.h, fl.st, Rest(d1, fl.used))

(* iobuf_write(A, DATA) on an output head: e_d.preferred is set for a     *)
(* write of at least ZC bytes, then the loop runs.                        *)
IobufWrite(_ \odot _, hd, st, data) ==
    WriteWith(\odot, [hd EXCEPT !.preferred = Len(data) >= ZC], st, data)

WriteLoop(hd, st, data) == WriteWith(BlockStep, hd, st, data)

-----------------------------------------------------------------------------
(* The state below the head, as the helpers above take and give it.       *)
Below == [stash |-> stash, sink |-> sink, abort |-> FALSE]

Store(st) ==
    /\ stash' = st.stash
    /\ sink' = st.sink
    /\ aborted' = st.abort

Remaining == Len(Data) - Len(written)

(* iobuf_temp, then iobuf_set_partial_body_length_mode(temp, len): the    *)
(* block filter is pushed with nothing buffered.                          *)
Init ==
    /\ h = [buf |-> <<>>, preferred |-> FALSE]
    /\ stash = <<>>
    /\ sink = <<>>
    /\ blk = "pushed"
    /\ written = <<>>
    /\ aborted = FALSE

Live == blk = "pushed" /\ ~aborted

(* iobuf_writebyte: flush a full buffer, then store the byte.              *)
WriteByte ==
    /\ Live /\ Remaining > 0
    /\ LET c == Data[Len(written) + 1]
           fl == IF Len(h.buf) = BufSize THEN FilterFlush(h, Below, <<>>)
                 ELSE [h |-> h, st |-> Below, used |-> 0]
       IN  /\ Store(fl.st)
           /\ h' = IF fl.st.abort THEN fl.h
                   ELSE [fl.h EXCEPT !.buf = Append(@, c)]
           /\ written' = IF fl.st.abort THEN written ELSE Append(written, c)
    /\ UNCHANGED blk

(* iobuf_write of the next LEN bytes: the drain is preferred for LEN >= ZC. *)
Write ==
    /\ Live
    /\ \E len \in 1 .. Min({MaxReq, Remaining}) :
         LET d == SubSeq(Data, Len(written) + 1, Len(written) + len)
             w == IobufWrite(BlockStep, h, Below, d)
         IN  /\ h' = w.h
             /\ Store(w.st)
             /\ written' = IF w.st.abort THEN written ELSE written \o d
    /\ UNCHANGED blk

(* iobuf_flush_temp (or iobuf_close): iobuf_pop_filter flushes the head,  *)
(* then sends IOBUFCTRL_FREE and splices the node below into the head.    *)
PopFilter ==
    /\ Live
    /\ LET fl == FilterFlush(h, Below, <<>>)
       IN  IF fl.st.abort
           THEN h' = fl.h /\ Store(fl.st) /\ UNCHANGED blk
           ELSE /\ h' = [buf |-> <<>>, preferred |-> FALSE]
                /\ stash' = <<>>
                /\ sink' = fl.st.sink \o BlockFree(fl.st.stash)
                /\ aborted' = FALSE
                /\ blk' = "popped"
    /\ UNCHANGED written

Next == WriteByte \/ Write \/ PopFilter

Spec == Init /\ [][Next]_vars

-----------------------------------------------------------------------------
(* A reader of the framing, written from RFC 4880 4.2.2 (spec 4.E): the   *)
(* data the bytes of S from octet I on carry so far, the partial-chunk    *)
(* sizes, whether a complete final chunk was read, and what follows it.   *)
RECURSIVE ParseFrom(_, _)
ParseFrom(s, i) ==
    IF i > Len(s) THEN [data |-> <<>>, sizes |-> {}, final |-> FALSE, rest |-> <<>>]
    ELSE LET L == s[i]
             avail == Len(s) - i + 1
         IN
      IF L >= 224 /\ L < 255
      THEN LET k == 2 ^ (L % 32) IN
           IF avail <= k
           THEN [data |-> SubSeq(s, i + 1, Len(s)), sizes |-> {k}, final |-> FALSE,
                 rest |-> <<>>]
           ELSE LET r == ParseFrom(s, i + k + 1)
                IN  [r EXCEPT !.data = SubSeq(s, i + 1, i + k) \o @,
                              !.sizes = @ \cup {k}]
      ELSE LET hl == IF L < 192 THEN 1 ELSE IF L < 224 THEN 2 ELSE 5
               len == IF avail < hl THEN 0
                      ELSE IF L < 192 THEN L
                      ELSE IF L < 224 THEN (L - 192) * 256 + s[i + 1] + 192
                      ELSE ((s[i + 1] * 256 + s[i + 2]) * 256 + s[i + 3]) * 256
                           + s[i + 4]
           IN  [data |-> SubSeq(s, i + hl, Min({i - 1 + hl + len, Len(s)})),
                sizes |-> {},
                final |-> avail >= hl /\ avail >= hl + len,
                rest |-> SubSeq(s, i + hl + len, Len(s))]

Parse(s) == ParseFrom(s, 1)

TypeOK ==
    /\ h \in [buf : Seq(0..255), preferred : BOOLEAN]
    /\ Len(h.buf) <= BufSize
    /\ stash \in Seq(0..255) /\ Len(stash) < MinChunk
    /\ sink \in Seq(0..255)
    /\ blk \in {"none", "pushed", "popped"} /\ aborted \in BOOLEAN
    /\ IsPrefix(written, Data)

(* No sequence of iobuf_write / iobuf_writebyte calls makes block_filter  *)
(* FLUSH find a stash other than one minimum chunk (log_assert, 1098).    *)
NoAbort == ~aborted

(* Once the filter is popped, the sink is one complete packet body:       *)
(* partial chunks, then a final chunk, and nothing after it.              *)
WellFramed == blk = "popped" => Parse(sink).final /\ Parse(sink).rest = <<>>

(* The pipeline implements a FIFO byte stream: what the sink decodes to   *)
(* is a growing prefix of what was written, and all of it once popped.    *)
Abs == INSTANCE ByteStream WITH in <- written, out <- Parse(sink).data,
                               closed <- blk = "popped"

Refines == Abs!Spec

=============================================================================
