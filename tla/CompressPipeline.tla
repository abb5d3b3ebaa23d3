------------------------- MODULE CompressPipeline --------------------------
(***************************************************************************)
(* gpg's compress filter (src/g10/compress.c) in both directions.         *)
(*                                                                         *)
(* Writing: push_compress_filter puts compress_filter on the output file  *)
(* iobuf; the writer calls iobuf_write and iobuf_writebyte on that node,  *)
(* C.  C's first FLUSH writes the compressed-data packet header through   *)
(* build_packet and starts deflate; every FLUSH runs do_compress, which   *)
(* calls deflate with the buffer as input and writes each output buffer   *)
(* to the file; iobuf_close on C flushes it and sends FREE, whose         *)
(* do_compress (Z_FINISH) ends the stream.                                *)
(*                                                                         *)
(* Reading: handle_compressed pushes compress_filter on the packet's      *)
(* iobuf; each UNDERFLOW runs do_uncompress, which refills its input      *)
(* buffer by iobuf_read from the file and calls inflate until the         *)
(* caller's buffer is full, the stream ends or no progress is possible.   *)
(*                                                                         *)
(* zlib is outside this repository and is modelled by the contract        *)
(* zlib.h states, at a reduced data scale.  The compressed format is      *)
(* deflate's stored blocks: a length octet, that many octets, and an      *)
(* empty block at the end; for algo 2 (zlib) a header octet comes first   *)
(* and a checksum octet last (adler32 shrunk to a fold).  deflate         *)
(* flushes pending output first and returns if that fills the output      *)
(* (last_flush = -1); it returns Z_BUF_ERROR when it could do nothing;    *)
(* it accepts all input otherwise and emits a block once EmitAt octets    *)
(* are held, or everything and the end on Z_FINISH.  inflate decodes as  *)
(* far as its input and output allow and stops at the end of the stream.  *)
(*                                                                         *)
(* The module extends EncryptPipeline with a third mode, so that one run  *)
(* checks the three output chains gpg builds.                             *)
(***************************************************************************)
EXTENDS EncryptPipeline

CONSTANTS
    CAlgos,     \* compress algorithms the writer may use: ZIP 1, ZLIB 2
    OutSize,    \* zfx->outbufsize of the writer (65536)
    EmitAt,     \* octets deflate holds before it emits a block
    InBufSize,  \* zfx->inbufsize of the reader (2048)
    ReadSize    \* the size of the reader's UNDERFLOW buffer

ASSUME /\ CAlgos \subseteq {1, 2} /\ CAlgos # {}
       /\ OutSize \in Nat \ {0} /\ EmitAt \in 1 .. 255
       /\ InBufSize \in Nat \ {0} /\ ReadSize \in Nat \ {0}

VARIABLES
    c,          \* the node C: d.buf and e_d.preferred
    zw,         \* the writer's compress_filter_context_t and z_stream
    zr          \* the reader's compress_filter_context_t and z_stream,
                \* whether the filter is pushed or freed, what it has
                \* delivered and whether the reader saw EOF

cvars == <<evars, c, zw, zr>>

-----------------------------------------------------------------------------
(* The stored-block format (see above).                                   *)
ZSum(s0, bytes) == FoldLeft(LAMBDA a, b : (3 * a + b + 1) % 256, s0, bytes)

ZHeader(algo) == IF algo = 2 THEN <<120>> ELSE <<>>

ZTrailer(algo, sum) == IF algo = 2 THEN <<sum>> ELSE <<>>

Block(q) == IF q = <<>> THEN <<>> ELSE <<Len(q)>> \o q

(* The data a stored-block stream S carries from octet I on: the           *)
(* reference decoder of the format, for the refinement mapping.           *)
RECURSIVE BlocksFrom(_, _)
BlocksFrom(s, i) ==
    IF i > Len(s) \/ s[i] = 0 THEN <<>>
    ELSE SubSeq(s, i + 1, Min({i + s[i], Len(s)})) \o BlocksFrom(s, i + s[i] + 1)

(* The octets of the file after the packet header (CTB, algorithm).       *)
Src == SubSeq(sink, 3, Len(sink))

-----------------------------------------------------------------------------
(* init_compress: deflateInit2 (raw, algo 1) or deflateInit (algo 2):     *)
(* the zlib header is pending, nothing held, last_flush is negative.      *)
InitCompress(algo) ==
    [status |-> 2, algo |-> algo, q |-> <<>>, p |-> ZHeader(algo),
     fresh |-> TRUE, sum |-> 1]

(* deflate (zs, flush) with an output buffer of OutSize: the stream's new *)
(* state, the octets of IN it consumed, what it wrote, its return code.   *)
Deflate(z, in, finish) ==
    LET o1 == SubSeq(z.p, 1, Min({OutSize, Len(z.p)}))
        p1 == SubSeq(z.p, Len(o1) + 1, Len(z.p))
    IN
    IF Len(o1) = OutSize
    THEN [z |-> [z EXCEPT !.p = p1, !.fresh = TRUE], used |-> 0, out |-> o1,
          rc |-> "ok"]
    ELSE IF z.p = <<>> /\ in = <<>> /\ ~finish /\ ~z.fresh
    THEN [z |-> z, used |-> 0, out |-> <<>>, rc |-> "buf_error"]
    ELSE LET q == z.q \o in
             sum == ZSum(z.sum, in)
             p2 == IF finish THEN p1 \o Block(q) \o <<0>> \o ZTrailer(z.algo, sum)
                   ELSE IF Len(q) >= EmitAt THEN p1 \o Block(q) ELSE p1
             o2 == SubSeq(p2, 1, Min({OutSize - Len(o1), Len(p2)}))
             rest == SubSeq(p2, Len(o2) + 1, Len(p2))
         IN  [z |-> [z EXCEPT !.q = IF finish \/ Len(q) >= EmitAt THEN <<>> ELSE q,
                              !.p = rest, !.sum = sum,
                              !.fresh = Len(o1) + Len(o2) = OutSize],
              used |-> Len(in), out |-> o1 \o o2,
              rc |-> IF finish /\ rest = <<>> THEN "stream_end" ELSE "ok"]

(* Mutant: the loop stops once deflate returns, input left or not.        *)
CompressLoopOnce(in, finish, d) == finish /\ d.rc # "stream_end"

(* The condition of do_compress's do-while loop: input left, or Z_FINISH  *)
(* and the stream not yet ended.                                          *)
CompressLoop(in, finish, d) ==
    Len(in) > d.used \/ (finish /\ d.rc # "stream_end")

(* The do-while loop of do_compress on the state below C, ST = [z, sink,  *)
(* abort]: deflate, exit the process on any code but Z_OK (or the end of  *)
(* a finish), write the output to the file, go on while the loop says so. *)
RECURSIVE CompressRounds(_, _, _)
CompressRounds(st, in, finish) ==
    LET d == Deflate(st.z, in, finish)
        st1 == [st EXCEPT !.z = d.z, !.sink = @ \o d.out]
    IN  IF d.rc = "buf_error" THEN [st EXCEPT !.abort = TRUE]
        ELSE IF CompressLoop(in, finish, d)
             THEN CompressRounds(st1, SubSeq(in, d.used + 1, Len(in)), finish)
             ELSE st1

(* do_compress: nothing to do for Z_NO_FLUSH without input.               *)
DoCompress(st, in, finish) ==
    IF ~finish /\ in = <<>> THEN st ELSE CompressRounds(st, in, finish)

(* compress_filter, IOBUFCTRL_FLUSH of BUF: on the first call write the   *)
(* packet header (build_packet: old CTB of tag 8 with indeterminate       *)
(* length, 0xa3, then the algorithm) and init_compress; then do_compress. *)
CompressFlush(st, buf) ==
    LET st1 == IF st.z.status = 0
               THEN [st EXCEPT !.sink = @ \o <<163, st.z.algo>>,
                               !.z = InitCompress(st.z.algo)]
               ELSE st
    IN  DoCompress(st1, buf, FALSE)

(* compress_filter, IOBUFCTRL_FREE after writing: do_compress (Z_FINISH), *)
(* whose result is not looked at, then deflateEnd.                        *)
CompressFree(st) ==
    IF st.z.status = 2 THEN DoCompress(st, <<>>, TRUE) ELSE st

-----------------------------------------------------------------------------
(* The reader: init_uncompress and inflate.                               *)

(* inflateInit2 (raw, algo 1) or inflateInit (algo 2): the decoder waits  *)
(* for the zlib header or the first block; no input is held.  The input   *)
(* buffer comes from xmalloc: its octets are whatever was there (0 here). *)
InitDecoder(algo) == [m |-> IF algo = 2 THEN "hdr" ELSE "len", left |-> 0, ad |-> 1]

InitUncompress(z) ==
    [z EXCEPT !.status = 1, !.dec = InitDecoder(z.algo), !.avail = 0, !.next = 0]

(* One input octet B through the decoder of algorithm ALGO.               *)
InflateOctet(algo, dec, b) ==
    CASE dec.m = "hdr" -> [dec EXCEPT !.m = IF b = 120 THEN "len" ELSE "data_error"]
      [] dec.m = "len" /\ b = 0 -> [dec EXCEPT !.m = IF algo = 2 THEN "trl" ELSE "done"]
      [] dec.m = "len" -> [dec EXCEPT !.m = "data", !.left = b]
      [] dec.m = "data" -> [m |-> IF dec.left = 1 THEN "len" ELSE "data",
                            left |-> dec.left - 1, ad |-> ZSum(dec.ad, <<b>>)]
      [] dec.m = "trl" -> [dec EXCEPT !.m = IF b = dec.ad THEN "done" ELSE "data_error"]

(* inflate's decoding loop from octet I of IN with room for ROOM octets.  *)
RECURSIVE InflateFrom(_, _, _, _, _, _)
InflateFrom(algo, dec, in, i, room, out) ==
    IF dec.m \in {"done", "data_error"} \/ i > Len(in)
       \/ (dec.m = "data" /\ Len(out) = room)
    THEN [dec |-> dec, used |-> i - 1, out |-> out]
    ELSE InflateFrom(algo, InflateOctet(algo, dec, in[i]), in, i + 1, room,
                     IF dec.m = "data" THEN Append(out, in[i]) ELSE out)

(* inflate (zs, Z_SYNC_FLUSH): Z_STREAM_END at the end of the stream,     *)
(* Z_DATA_ERROR on a bad header or checksum, Z_BUF_ERROR without progress. *)
Inflate(algo, dec, in, room) ==
    LET r == InflateFrom(algo, dec, in, 1, room, <<>>)
    IN  [dec |-> r.dec, used |-> r.used, out |-> r.out,
         rc |-> CASE r.dec.m = "done" -> "stream_end"
                  [] r.dec.m = "data_error" -> "data_error"
                  [] r.used = 0 /\ r.out = <<>> -> "buf_error"
                  [] OTHER -> "ok"]

(* The octets zs->next_in points at: AVAIL octets of inbuf from NEXT.     *)
(* An index past inbuf reads memory beyond it (0 here).                   *)
NextIn(z) ==
    [i \in 1 .. z.avail |-> IF z.next + i <= InBufSize THEN z.inb[z.next + i] ELSE 0]

(* The algo-1 hack: a short read appends a dummy 0xff, at most 4 times.   *)
Hack(z, nread, count) == nread < count /\ z.algo = 1 /\ z.hack < 4

(* The refill of do_uncompress: with no input left, point next_in at the  *)
(* start of inbuf; iobuf_read from the file into inbuf after what is      *)
(* left (its EOF, -1, counts as 0 octets); maybe the dummy octet.         *)
Refill(z) ==
    LET n == z.avail
        count == InBufSize - n
        nread == Min({count, Len(Src) - z.pos})
        new == SubSeq(Src, z.pos + 1, z.pos + nread)
        hk == Hack(z, nread, count)
    IN  [z EXCEPT
           !.next = IF n = 0 THEN 0 ELSE @,
           !.inb = [i \in 1 .. InBufSize |->
                      IF i > n /\ i <= n + nread THEN new[i - n]
                      ELSE IF hk /\ i = n + nread + 1 THEN 255 ELSE @[i]],
           !.pos = @ + nread,
           !.avail = n + nread + (IF hk THEN 1 ELSE 0),
           !.hack = @ + (IF hk THEN 1 ELSE 0)]

RefillLeaves(z) ==
    Hack(z, Min({InBufSize - z.avail, Len(Src) - z.pos}), InBufSize - z.avail)

(* The do-while loop of do_uncompress for a buffer of ROOM octets.        *)
RECURSIVE UncompressRounds(_, _, _, _, _)
UncompressRounds(z, room, refill, leave, out) ==
    LET doRefill == z.avail < InBufSize /\ refill
        z1 == IF doRefill THEN Refill(z) ELSE z
        leave1 == leave \/ (doRefill /\ RefillLeaves(z))
        inf == Inflate(z1.algo, z1.dec, NextIn(z1), room - Len(out))
        z2 == [z1 EXCEPT !.dec = inf.dec, !.next = @ + inf.used,
                         !.avail = @ - inf.used]
        out2 == out \o inf.out
    IN  IF inf.rc = "data_error"
        THEN [z |-> z2, out |-> out2, rc |-> "exit"]
        ELSE IF Len(out2) < room /\ inf.rc = "ok" /\ ~leave1
        THEN UncompressRounds(z2, room, TRUE, leave1, out2)
        ELSE [z |-> z2, out |-> out2,
              rc |-> IF inf.rc = "stream_end" THEN "eof" ELSE "ok"]

(* Mutant: refill on entry although input is left over.                   *)
DoUncompressRefill(z, room) == UncompressRounds(z, room, TRUE, FALSE, <<>>)

(* do_uncompress: refill on entry only when no input is left.             *)
DoUncompress(z, room) == UncompressRounds(z, room, z.avail = 0, FALSE, <<>>)

-----------------------------------------------------------------------------
(* The state below C, as the helpers take and give it: the writer's       *)
(* context and the file.                                                  *)
CBelow == [z |-> zw, sink |-> sink, abort |-> FALSE]

CStore(st) == zw' = st.z /\ sink' = st.sink /\ aborted' = st.abort

(* The other modes, or gpg's: push_compress_filter2 with ALGO 1 or 2 on a *)
(* fresh output file (status 0: nothing written, no packet header yet).   *)
CInit ==
    /\ \/ EInit /\ mode # "compress"
          /\ zw = [status |-> 0, algo |-> CHOOSE a \in CAlgos : TRUE,
                   q |-> <<>>, p |-> <<>>, fresh |-> TRUE, sum |-> 1]
       \/ /\ mode = "compress"
          /\ h = [buf |-> <<>>, preferred |-> FALSE]
          /\ stash = <<>> /\ sink = <<>> /\ blk = "none"
          /\ written = <<>> /\ aborted = FALSE
          /\ dek = [mdc |-> FALSE, algo |-> CHOOSE a \in Algos : TRUE]
          /\ t = [buf |-> <<>>, preferred |-> FALSE]
          /\ ctx = [wrote |-> FALSE, mdc |-> FALSE, md |-> <<>>, pos |-> 0]
          /\ closed = FALSE
          /\ zw \in [status : {0}, algo : CAlgos, q : {<<>>}, p : {<<>>},
                     fresh : {TRUE}, sum : {1}]
    /\ c = [buf |-> <<>>, preferred |-> FALSE]
    /\ zr = [stage |-> "none", status |-> 0, algo |-> 0, dec |-> InitDecoder(0),
             inb |-> [i \in 1 .. InBufSize |-> 0], next |-> 0, avail |-> 0,
             hack |-> 0, pos |-> 0, got |-> <<>>, eof |-> FALSE]

CLive == mode = "compress" /\ ~closed /\ ~aborted

(* iobuf_writebyte on C: flush a full buffer through compress_filter.     *)
CWriteByte ==
    /\ CLive /\ Remaining > 0
    /\ LET b == Data[Len(written) + 1]
           fl == IF Len(c.buf) = BufSize THEN FlushWith(CompressFlush, c, CBelow, <<>>)
                 ELSE [h |-> c, st |-> CBelow, used |-> 0]
       IN  /\ CStore(fl.st)
           /\ c' = IF fl.st.abort THEN fl.h ELSE [fl.h EXCEPT !.buf = Append(@, b)]
           /\ written' = IF fl.st.abort THEN written ELSE Append(written, b)
    /\ UNCHANGED <<h, stash, blk, mode, t, dek, ctx, closed, zr>>

(* iobuf_write on C of the next LEN bytes.                                 *)
CWrite ==
    /\ CLive
    /\ \E len \in 1 .. Min({MaxReq, Remaining}) :
         LET d == SubSeq(Data, Len(written) + 1, Len(written) + len)
             w == IobufWrite(CompressFlush, c, CBelow, d)
         IN  /\ c' = w.h
             /\ CStore(w.st)
             /\ written' = IF w.st.abort THEN written ELSE written \o d
    /\ UNCHANGED <<h, stash, blk, mode, t, dek, ctx, closed, zr>>

(* iobuf_close on C: filter_flush (the FLUSH runs even with nothing       *)
(* buffered, so the header is written if no data came), then FREE, then   *)
(* the file node is flushed and closed.                                   *)
CClose ==
    /\ CLive
    /\ \E f \in {FlushWith(CompressFlush, c, CBelow, <<>>)} :
       \E st \in {IF f.st.abort THEN f.st ELSE CompressFree(f.st)} :
         /\ CStore(st)
         /\ c' = f.h
         /\ closed' = ~st.abort
    /\ UNCHANGED <<h, stash, blk, mode, t, dek, ctx, written, zr>>

(* handle_compressed on the packet the file holds: check_compress_algo,   *)
(* then push_compress_filter with cd->algorithm (status 0); an algorithm  *)
(* it rejects ends the packet with an error, nothing delivered.           *)
HandleCompressed ==
    /\ mode = "compress" /\ closed /\ ~aborted /\ zr.stage = "none"
    /\ zr' = IF sink[2] \in {1, 2} THEN [zr EXCEPT !.stage = "pushed", !.algo = sink[2]]
             ELSE [zr EXCEPT !.eof = TRUE]
    /\ UNCHANGED evars
    /\ UNCHANGED <<c, zw>>

(* underflow on the reader's head: compress_filter UNDERFLOW with a       *)
(* ReadSize buffer (init_uncompress on the first call), do_uncompress.    *)
(* Z_STREAM_END (-1) makes underflow_target send FREE and latch EOF; no   *)
(* octets with rc 0 is returned to the caller as EOF as well (-1).  A     *)
(* zlib error exits the process.                                          *)
ReadUnderflow ==
    /\ zr.stage = "pushed" /\ ~zr.eof /\ ~aborted
    /\ \E z0 \in {IF zr.status = 0 THEN InitUncompress(zr) ELSE zr} :
       \E u \in {DoUncompress(z0, ReadSize)} :
         /\ aborted' = (u.rc = "exit")
         /\ zr' = [u.z EXCEPT !.got = @ \o u.out,
                              !.eof = u.rc = "eof" \/ u.out = <<>>,
                              !.stage = IF u.rc = "eof" THEN "freed" ELSE "pushed"]
    /\ UNCHANGED <<h, stash, sink, blk, written, mode, t, dek, ctx, closed, c, zw>>

CNext ==
    \/ /\ mode = "plain" /\ (WriteByte \/ Write \/ PopFilter)
       /\ UNCHANGED <<mode, t, dek, ctx, closed, c, zw, zr>>
    \/ TWriteByte /\ UNCHANGED <<c, zw, zr>>
    \/ TWrite /\ UNCHANGED <<c, zw, zr>>
    \/ Close /\ UNCHANGED <<c, zw, zr>>
    \/ CWriteByte
    \/ CWrite
    \/ CClose
    \/ HandleCompressed
    \/ ReadUnderflow

CSpec == CInit /\ [][CNext]_cvars

-----------------------------------------------------------------------------
CTypeOK ==
    /\ TypeOK
    /\ mode \in {"plain", "encrypt", "compress"}
    /\ t \in [buf : Seq(0..255), preferred : BOOLEAN] /\ Len(t.buf) <= BufSize
    /\ dek \in [mdc : BOOLEAN, algo : Algos]
    /\ ctx \in [wrote : BOOLEAN, mdc : BOOLEAN, md : Seq(0..255), pos : Nat]
    /\ closed \in BOOLEAN
    /\ c \in [buf : Seq(0..255), preferred : BOOLEAN] /\ Len(c.buf) <= BufSize
    /\ zw.status \in {0, 2} /\ zw.algo \in CAlgos
    /\ zw.q \in Seq(0..255) /\ Len(zw.q) < EmitAt
    /\ zr.stage \in {"none", "pushed", "freed"} /\ zr.status \in {0, 1}
    /\ zr.avail \in 0 .. InBufSize /\ zr.next \in Nat
    /\ zr.hack \in 0 .. 4 /\ zr.got \in Seq(0..255)

(* What the compress filter's UNDERFLOW delivers is, call by call, a      *)
(* prefix of what the writer gave to iobuf_write and iobuf_writebyte, and *)
(* all of it at the EOF it reports: do_uncompress's refills (input left   *)
(* over from a call that filled the caller's buffer, the algo-1 dummy     *)
(* octets) lose, repeat and reorder nothing, and the EOF comes neither    *)
(* early nor late.                                                        *)
ReadBack ==
    mode = "compress" =>
      /\ IsPrefix(zr.got, written)
      /\ zr.eof => zr.got = written

(* All three chains implement a FIFO byte stream: what a reader decodes   *)
(* from the file is a growing prefix of what the writer handed to the     *)
(* head, and all of it once the chain is popped or closed.                *)
CAbs == INSTANCE ByteStream
          WITH in <- written,
               out <- CASE mode = "plain" -> Parse(sink).data
                        [] mode = "encrypt" -> Recovered
                        [] OTHER -> BlocksFrom(Src, 1 + Len(ZHeader(zw.algo))),
               closed <- IF mode = "plain" THEN blk = "popped" ELSE closed

CRefines == CAbs!Spec

=============================================================================
