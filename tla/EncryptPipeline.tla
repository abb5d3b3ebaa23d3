-------------------------- MODULE EncryptPipeline ---------------------------
(***************************************************************************)
(* The encryption chain gpg builds on an output file: cipher_filter_cfb   *)
(* (src/g10/cipher-cfb.c) pushed on the file's iobuf, whose first FLUSH    *)
(* writes the packet header through build_packet, which, for an unknown   *)
(* length, writes the new-format CTB and pushes block_filter on the node  *)
(* below the cipher (iobuf_set_partial_body_length_mode).  The writer     *)
(* calls iobuf_write and iobuf_writebyte on the cipher's node T; T's      *)
(* FLUSH encrypts and calls iobuf_write on the node below, X, whose block *)
(* filter frames the ciphertext onto the file (the sink).  iobuf_close    *)
(* runs every node top-down: T's flush and the cipher's FREE (the MDC     *)
(* packet), then X's flush and block_filter's FREE (the final chunk).     *)
(*                                                                         *)
(* A second mode runs OutputPipeline on its own (block_filter on an       *)
(* output iobuf, then the pop), so that one run checks both uses.         *)
(*                                                                         *)
(* Data abstraction.  The cipher block size (8 or 16) is BS and SHA-1's   *)
(* 20 octets are HashLen; CFB encryption adds, modulo 256, a keystream    *)
(* that is a function of the position in the stream (decryption takes it *)
(* away again), and gcry_cipher_sync                                      *)
(* moves the position to the next block boundary.  The hash is a fold    *)
(* over the bytes hashed so far.  The random prefix is drawn from         *)
(* [1..BS -> RandBytes] at the step in which gcry_randomize runs.         *)
(***************************************************************************)
EXTENDS OutputPipeline

CONSTANTS
    BS,         \* openpgp_cipher_get_algo_blklen (dek->algo)
    HashLen,    \* gcry_md_get_algo_dlen (SHA1)
    RandBytes,  \* the octets gcry_randomize may return
    Algos       \* the cipher algorithms dek->algo may take

ASSUME /\ BS \in Nat /\ BS >= 2 /\ HashLen \in Nat \ {0}
       /\ RandBytes \subseteq 0..255 /\ Algos \subseteq Nat

VARIABLES
    mode,       \* "plain" (block_filter alone) or "encrypt"
    t,          \* the cipher node T: d.buf and e_d.preferred
    dek,        \* the DEK the filter context points to: use_mdc, algo
    ctx,        \* cipher_filter_context_t: wrote_header, mdc_hash open,
                \* the bytes hashed so far, the cipher's stream position
    closed      \* iobuf_close has run on T

evars == <<vars, mode, t, dek, ctx, closed>>

-----------------------------------------------------------------------------
(* The CFB keystream and the MDC hash, abstracted (see above).            *)
KS(i) == (73 * i + 41) % 256

Encrypt(pos, bytes) == [i \in 1 .. Len(bytes) |-> (bytes[i] + KS(pos + i - 1)) % 256]

Decrypt(pos, bytes) == [i \in 1 .. Len(bytes) |-> (bytes[i] - KS(pos + i - 1)) % 256]

Hash(s) == [j \in 1 .. HashLen |->
              FoldLeft(LAMBDA a, b : (a * (29 + 2 * j) + b + j) % 256, j, s)]

(* gcry_cipher_sync: the next byte starts a fresh block.                  *)
Sync(pos) == ((pos + BS - 1) \div BS) * BS

RandPrefixes == [1 .. BS -> RandBytes]

(* The state below T, as the helpers take and give it: the cipher context *)
(* and node X with block_filter's state and the sink below it.            *)
Chain == [ctx |-> ctx, h |-> h, stash |-> stash, sink |-> sink, blk |-> blk,
          abort |-> FALSE]

StoreChain(L) ==
    /\ ctx' = L.ctx /\ h' = L.h /\ stash' = L.stash /\ sink' = L.sink
    /\ blk' = L.blk /\ aborted' = L.abort

(* iobuf_write (X, BYTES): the loop of OutputPipeline on X's head.        *)
XWrite(L, bytes) ==
    LET w == IobufWrite(BlockStep, L.h, L, bytes) IN [w.st EXCEPT !.h = w.h]

(* build_packet of the encrypted-data packet with length 0: the new CTB   *)
(* (tag 18 with an MDC, else tag 9) into X, whose push of block_filter    *)
(* first flushes it to the file and leaves X an empty buffer; for tag 18  *)
(* the version octet 1 follows through the block filter.                  *)
BuildPacket(L, mdc) ==
    [L EXCEPT !.sink = @ \o <<IF mdc THEN 210 ELSE 201>>,
              !.blk = "pushed", !.stash = <<>>,
              !.h = [buf |-> IF mdc THEN <<1>> ELSE <<>>, preferred |-> FALSE]]

(* Mutant: the repeated check octets copy the last octet twice.           *)
CheckBytesSame(r) == r \o <<r[BS], r[BS]>>

(* The prefix: NPREFIX = BS random octets, then the last two repeated.    *)
CheckBytes(r) == r \o <<r[BS - 1], r[BS]>>

(* write_header: build the packet, open the MDC hash when the DEK asks    *)
(* for one, hash and encrypt the prefix, sync the cipher (a no-op unless  *)
(* GCRY_CIPHER_ENABLE_SYNC, i.e. no MDC and algo < 100), write it to X.   *)
WriteHeader(L, r) ==
    LET temp == CheckBytes(r)
        sync == ~dek.mdc /\ dek.algo < 100
        b == BuildPacket(L, dek.mdc)
    IN  XWrite([b EXCEPT !.ctx = [wrote |-> TRUE, mdc |-> dek.mdc,
                                  md |-> IF dek.mdc THEN temp ELSE <<>>,
                                  pos |-> IF sync THEN Sync(Len(temp))
                                          ELSE Len(temp)]],
               Encrypt(0, temp))

(* Mutant: the buffer is encrypted in place before it is hashed.          *)
CipherFlushLate(L, buf, r) ==
    LET L1 == IF L.ctx.wrote THEN L ELSE WriteHeader(L, r)
        ct == Encrypt(L1.ctx.pos, buf)
    IN  IF L1.abort THEN L1
        ELSE XWrite([L1 EXCEPT !.ctx = [@ EXCEPT !.pos = @ + Len(buf),
                                  !.md = IF L1.ctx.mdc THEN @ \o ct ELSE @]], ct)

(* cipher_filter_cfb, IOBUFCTRL_FLUSH of BUF: the header on the first     *)
(* call, hash the plaintext, encrypt it, iobuf_write it to X.             *)
CipherFlush(L, buf, r) ==
    LET L1 == IF L.ctx.wrote THEN L ELSE WriteHeader(L, r)
    IN  IF L1.abort THEN L1
        ELSE XWrite([L1 EXCEPT !.ctx = [@ EXCEPT !.pos = @ + Len(buf),
                                  !.md = IF L1.ctx.mdc THEN @ \o buf ELSE @]],
                    Encrypt(L1.ctx.pos, buf))

(* cipher_filter_cfb, IOBUFCTRL_FREE: with the hash open, hash 0xd3 0x14, *)
(* encrypt them with the digest and write the 2 + HashLen octets to X.    *)
CipherFree(L) ==
    IF ~L.ctx.mdc THEN L
    ELSE LET md == L.ctx.md \o <<211, 20>>
             temp == <<211, 20>> \o Hash(md)
         IN  XWrite([L EXCEPT !.ctx = [@ EXCEPT !.md = md, !.mdc = FALSE,
                                                 !.pos = @ + Len(temp)]],
                    Encrypt(L.ctx.pos, temp))

-----------------------------------------------------------------------------
(* Either OutputPipeline's start, or gpg's: the cipher filter pushed on a *)
(* fresh output file (its INIT only writes a status line), with nothing   *)
(* written and block_filter not yet pushed.                               *)
EInit ==
    /\ \/ /\ mode = "plain" /\ Init
          /\ dek = [mdc |-> FALSE, algo |-> CHOOSE a \in Algos : TRUE]
       \/ /\ mode = "encrypt"
          /\ h = [buf |-> <<>>, preferred |-> FALSE]
          /\ stash = <<>> /\ sink = <<>> /\ blk = "none"
          /\ written = <<>> /\ aborted = FALSE
          /\ dek \in [mdc : BOOLEAN, algo : Algos]
    /\ t = [buf |-> <<>>, preferred |-> FALSE]
    /\ ctx = [wrote |-> FALSE, mdc |-> FALSE, md |-> <<>>, pos |-> 0]
    /\ closed = FALSE

TLive == mode = "encrypt" /\ ~closed /\ ~aborted

(* iobuf_writebyte on T: flush a full buffer through the cipher (R: the   *)
(* octets gcry_randomize returns if the header is written), then store.   *)
TWriteByte ==
    /\ TLive /\ Remaining > 0
    /\ \E r \in RandPrefixes :
         LET c == Data[Len(written) + 1]
             fl == IF Len(t.buf) = BufSize
                   THEN FlushWith(LAMBDA L, b : CipherFlush(L, b, r), t, Chain, <<>>)
                   ELSE [h |-> t, st |-> Chain, used |-> 0]
         IN  /\ StoreChain(fl.st)
             /\ t' = IF fl.st.abort THEN fl.h
                     ELSE [fl.h EXCEPT !.buf = Append(@, c)]
             /\ written' = IF fl.st.abort THEN written ELSE Append(written, c)
    /\ UNCHANGED <<mode, dek, closed>>

(* iobuf_write on T of the next LEN bytes.                                 *)
TWrite ==
    /\ TLive
    /\ \E len \in 1 .. Min({MaxReq, Remaining}), r \in RandPrefixes :
         LET d == SubSeq(Data, Len(written) + 1, Len(written) + len)
             w == IobufWrite(LAMBDA L, b : CipherFlush(L, b, r), t, Chain, d)
         IN  /\ t' = w.h
             /\ StoreChain(w.st)
             /\ written' = IF w.st.abort THEN written ELSE written \o d
    /\ UNCHANGED <<mode, dek, closed>>

(* iobuf_close on T: T is an output node, so filter_flush runs (with      *)
(* nothing buffered it still calls the cipher's FLUSH, which writes the   *)
(* header if no data ever came), then the cipher's FREE; then X: its      *)
(* flush, then block_filter's FREE (final header and remainder) into the  *)
(* file, which is flushed and closed.  A failed log_assert ends it all.   *)
(* Each node's state is bound once, with \E over a singleton.            *)
Close ==
    /\ TLive
    /\ \E r \in RandPrefixes :
       \E f \in {FlushWith(LAMBDA L, b : CipherFlush(L, b, r), t, Chain, <<>>)} :
       \E L1 \in {IF f.st.abort THEN f.st ELSE CipherFree(f.st)} :
       \E x \in {FilterFlush(L1.h, L1, <<>>)} :
         LET L2 == IF L1.abort THEN L1 ELSE [x.st EXCEPT !.h = x.h]
         IN  /\ StoreChain(IF L2.abort THEN L2
                           ELSE [L2 EXCEPT !.sink = @ \o BlockFree(L2.stash),
                                           !.stash = <<>>])
             /\ t' = f.h
             /\ closed' = ~L2.abort
    /\ UNCHANGED <<mode, dek, written>>

ENext ==
    \/ /\ mode = "plain" /\ (WriteByte \/ Write \/ PopFilter)
       /\ UNCHANGED <<mode, t, dek, ctx, closed>>
    \/ TWriteByte
    \/ TWrite
    \/ Close

ESpec == EInit /\ [][ENext]_evars

-----------------------------------------------------------------------------
(* A reader of the packet body, written from RFC 4880 5.7 and 5.13: skip  *)
(* the version octet of tag 18, decrypt the prefix from position 0, then  *)
(* the rest from BS + 2, or from the next block after the resync of tag  *)
(* 9, which OpenPGP implementations (gpg's decryptor too) skip for the    *)
(* private algorithm ids from 100 on.  The ciphertext is bound once.     *)
Opened(body, d) ==
    LET start == IF d.mdc \/ d.algo >= 100 THEN BS + 2 ELSE Sync(BS + 2)
    IN  CHOOSE o \in {[pre |-> Decrypt(0, SubSeq(ct, 1, Min({BS + 2, Len(ct)}))),
                       rest |-> Decrypt(start, SubSeq(ct, BS + 3, Len(ct)))] :
                      ct \in {IF d.mdc THEN SubSeq(body, 2, Len(body)) ELSE body}}
            : TRUE

(* The plaintext a reader recovers from the file so far: after the close, *)
(* less the MDC packet.                                                   *)
Recovered ==
    IF sink = <<>> THEN <<>>
    ELSE LET o == Opened(ParseFrom(sink, 2).data, dek)
         IN  SubSeq(o.rest, 1, IF closed /\ dek.mdc
                               THEN Len(o.rest) - 2 - HashLen
                               ELSE Len(o.rest))

EncTypeOK ==
    /\ TypeOK
    /\ mode \in {"plain", "encrypt"}
    /\ t \in [buf : Seq(0..255), preferred : BOOLEAN] /\ Len(t.buf) <= BufSize
    /\ dek \in [mdc : BOOLEAN, algo : Algos]
    /\ ctx \in [wrote : BOOLEAN, mdc : BOOLEAN, md : Seq(0..255), pos : Nat]
    /\ closed \in BOOLEAN

(* After iobuf_close, the file holds one encrypted-data packet a reader   *)
(* accepts: the CTB of the tag the DEK asks for, a well-framed partial    *)
(* body, the version octet for tag 18, a prefix whose last two octets     *)
(* repeat (the quick check), then exactly the bytes written and, with an  *)
(* MDC, 0xd3 0x14 and the hash of prefix, plaintext and those two octets. *)
(* This holds whatever sizes the writes had and even if nothing was       *)
(* written (the header is then written by the flush in iobuf_close).      *)
Decrypts ==
    mode = "encrypt" /\ closed =>
      LET p == ParseFrom(sink, 2)
          o == Opened(p.data, dek)
          n == Len(o.rest) - 2 - HashLen
      IN  /\ sink[1] = IF dek.mdc THEN 210 ELSE 201
          /\ p.final /\ p.rest = <<>>
          /\ dek.mdc => p.data[1] = 1
          /\ o.pre[BS - 1] = o.pre[BS + 1] /\ o.pre[BS] = o.pre[BS + 2]
          /\ IF dek.mdc
             THEN /\ SubSeq(o.rest, 1, n) = written
                  /\ SubSeq(o.rest, n + 1, Len(o.rest))
                       = <<211, 20>> \o Hash(o.pre \o written \o <<211, 20>>)
             ELSE o.rest = written

(* Both chains implement a FIFO byte stream: what a reader recovers from  *)
(* the file is a growing prefix of what the writer handed to the head,    *)
(* and all of it once the chain is popped or closed.                      *)
EAbs == INSTANCE ByteStream
          WITH in <- written,
               out <- IF mode = "plain" THEN Parse(sink).data ELSE Recovered,
               closed <- IF mode = "plain" THEN blk = "popped" ELSE closed

ERefines == EAbs!Spec

=============================================================================
