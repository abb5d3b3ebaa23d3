# TLA+ models of GnuPG's iobuf engine and its users

This directory holds TLA+ models of the C code under `src/`, checked with TLC. The code is GnuPG's
I/O buffer library (`src/common/iobuf.c`) and some of its users: the string-list helpers
(`src/common/strlist.c`), gpgsm's Assuan server (`src/sm/server.c`), and gpg's compress,
cipher, armor and verify front ends.

`PROJECT.json` lists every component, run, mutant, finding and hazard. It also maps each
definition to the lines of code it translates.

## The system

**iobuf** (`src/common/iobuf.c`) is a stack of filter nodes (`struct iobuf_struct`).
- **Node state.** Each node keeps:
  - an internal buffer `d` (`buf`, `start`, `len`, `size`);
  - a filter callback and its context;
  - the flags `filter_eof` and `error`;
  - a zero-copy drain descriptor `e_d`;
  - the counters `nbytes` and `ntotal`;
  - a read limit.
- **Chain.** The head node is what the caller holds. `chain` links down to the node whose filter talks to the operating system.
- **Filters.**
  - `file_filter`: a descriptor, with a PEEK read-ahead and a delayed EOF or error.
  - `file_es_filter`: an estream.
  - `sock_filter`: a Windows socket.
  - `block_filter`: OpenPGP partial-body-length framing, in both directions.
- **Reading.** `underflow_target` refills the head's buffer by calling its filter. When the filter of a pushed node reports EOF, `underflow_target` copies the node below over the head (the "pop in underflow").
- **Lines.** `iobuf_read_line` copies bytes up to a newline into a caller-owned buffer that it grows up to `*MAX`; a longer line is cut to `MAX-2` bytes plus a newline, the rest of it skipped, and `*MAX` set to 0.
- **Writing.** `iobuf_write` and `iobuf_writebyte` fill the buffer. `filter_flush` hands it to the filter, which writes to the node below.
- **Close cache.** A process-wide list of closed descriptors (`fd_cache_*`). `iobuf_open` reuses a cached descriptor for the same name after rewinding it.

**strlist** (`src/common/strlist.c`) is a singly linked list of strings. It has helpers to:
- prepend, append and tokenize;
- pop, reverse, copy and free.

**gpgsm server** (`src/sm/server.c`) runs an Assuan session.
- **Session state.** The session keeps:
  - the INPUT and OUTPUT descriptors;
  - a MESSAGE stream;
  - a recipient list and a signer list;
  - an audit context;
  - a set of options.
- **Commands.** Each operation command consumes the descriptors and then closes them.

**CFB cipher filter** (`src/g10/cipher-cfb.c`) is the filter gpg pushes on an output iobuf to encrypt.
- **Context.** `cipher_filter_context_t` holds the DEK (`use_mdc`, `algo`), `wrote_header`, the MDC hash and the cipher handle.
- **FLUSH.** The first FLUSH runs `write_header`:
  - `build_packet` writes the CTB into the node below and, for an unknown length, pushes `block_filter` on it;
  - a random prefix with its last two octets repeated is hashed (with MDC), encrypted and written below;
  - the cipher resyncs after the prefix only without MDC and for algorithms below 100.
  
  Every FLUSH then hashes the buffer, encrypts it in place and calls `iobuf_write` on the node below.
- **FREE.** With MDC, FREE hashes `0xd3 0x14`, then writes those two octets and the digest, encrypted.

**Compress filter** (`src/g10/compress.c`) is the filter gpg pushes to write or read a compressed-data packet.
- **Writing.** The first FLUSH writes the packet header (`build_packet`: tag 8 and the algorithm) into the node below and runs `init_compress`. Every FLUSH runs `do_compress`, which calls `deflate` on the buffer and writes each full output buffer below. FREE runs `do_compress` with `Z_FINISH`.
- **Reading.** `handle_compressed` checks the algorithm and pushes the filter. Each UNDERFLOW runs `do_uncompress`: it refills its input buffer with `iobuf_read` from the node below (adding a dummy octet at EOF for raw deflate), and calls `inflate` until the caller's buffer is full, the stream ends or nothing moves.

These parts interact as follows. gpg pushes `block_filter` on a file iobuf to read or write packets. Its `verify` front end and gpgsm's server hand client descriptors to `iobuf_fdopen_nc` and to estreams. The list helpers back option and pattern lists everywhere, including the server's EXPORT, DELKEYS and LISTKEYS. When gpg encrypts, the cipher filter sits on top of the output chain. Its first flush pushes `block_filter` on the node below it, so the cipher's `iobuf_write` runs through the block encoder. `iobuf_close` then flushes and frees every node from the top. When gpg compresses, the compress filter sits on the file node and its FLUSH and FREE write straight to it; the reader pushes the same filter over the packet.

## Modules

| Module | Models | State | Actions |
|---|---|---|---|
| `Iobuf` | Constant-level operators shared by the pipeline modules: `file_filter`'s UNDERFLOW (`FileUnderflow`, `FileRead`, `ServePeeked`), `underflow_target` (`Underflow`, `AfterFilter`, `Deliver`, `PendingEof`) and `iobuf_readbyte` | none | none |
| `InputPipeline` | One input node over a file opened with `iobuf_open` | `f` (the `file_filter_ctx_t` and descriptor offset), `h` (the node), `op`/`call` (the call in progress and its loop state), `ret`, the histories `delivered` and `peekres`, and `rl` (the caller's `read_line` buffer length and contents, `*MAX`, and, as ghost state, the bytes the call consumed and whether it was the last call) | `ReadByte`; `ReadStart`/`ReadLimIter`/`ReadIter` (`iobuf_read`); `PeekStart`/`PeekIter`; `IoctlPeek`; `SkipStart`/`SkipIter`; `SetLimit`; `ReadLineStart`/`ReadLineIter`/`SkipLineIter` (`iobuf_read_line`, its main loop and its skip at `MAX`) |
| `FilterChain` | `block_filter`'s decoder pushed over a file node by `iobuf_set_partial_body_length_mode`, and the splice in `underflow_target` | `f`, `h` (the head), `lo` (the file node below), `ctx` (`block_filter_ctx_t`), `pushed`, `op`/`call`, `ret`, and the history `got` | `Push`, `ReadByte`, `ReadStart`/`ReadIter`, `PeekStart`/`PeekIter` |
| `CloseCache` | The close cache: `fd_cache_open`/`close`/`invalidate`/`synchronize`, `do_open`, `file_filter` FREE, `do_iobuf_fdopen`, `iobuf_cancel`, and `iobuf_ioctl` (no-cache, invalidate) | `os` (the kernel descriptor table, lowest free number first), `exists`, `cache` (the slot list), `hb` (each iobuf's filter state), `caller` (descriptors the program owns) | `Open`, `Create`, `OpenRW`, `Fdopen` (with and without `nc`), `NoCache`, `Use`, `Close`, `Cancel`, `Invalidate`, `CallerOpen`, `CallerClose` |
| `ByteStream` | The promise of an output pipeline: a FIFO byte stream | `in`, `out`, `closed` | `Move`, `Close` |
| `OutputPipeline` | `block_filter`'s encoder pushed on an output iobuf, with `iobuf_write`, `iobuf_writebyte`, `filter_flush` and `iobuf_pop_filter`. `filter_flush` (`FlushWith`) and the `iobuf_write` loop (`WriteWith`) take the node's filter as an operator parameter `_ \odot _`, so other filters can reuse them | `h` (the head buffer and `e_d.preferred`), `stash` (the encoder's held-back bytes), `sink` (what reached the node below), `blk` (block filter not yet pushed, pushed or popped), `written`, `aborted` | `WriteByte`, `Write`, `PopFilter` |
| `EncryptPipeline` | Extends `OutputPipeline` with `cipher_filter_cfb` on a node T above the block node X: `write_header`, FLUSH and FREE, the `build_packet` push, and `iobuf_close` of the chain. A second mode runs `OutputPipeline`'s actions alone | adds `mode`, `t` (T's buffer), `dek`, `ctx` (`wrote_header`, MDC hash open, the bytes hashed, the keystream position) and `closed` | `TWriteByte`, `TWrite` (`iobuf_writebyte`/`iobuf_write` on T), `Close` (`iobuf_close`), and the three `OutputPipeline` actions in the plain mode |
| `CompressPipeline` | Extends `EncryptPipeline` with a third mode: `compress_filter` on a node C over the file, both directions. zlib is modelled by the contract `zlib.h` states over stored blocks (see below) | adds `c` (C's buffer), `zw` (the writer's `z_stream` and `status`: pending output, held input, `last_flush`, checksum) and `zr` (the reader's: pushed or freed, `status`, the decoder state, the input buffer with `next_in`/`avail_in`, the dummy-octet count, and the history `got`) | `CWriteByte`, `CWrite`, `CClose` (`iobuf_close` on C: FLUSH, then FREE), `HandleCompressed`, `ReadUnderflow` (one UNDERFLOW with all its refills and inflate calls), and all `EncryptPipeline` actions in the other modes |
| `StrSeq` | The promise of the strlist helpers, from the spec: two sequences of strings | `seq`, `seq2` | one per helper |
| `StringList` | The strlist helpers over a heap of cells | `cell`, `used` (allocated cells), `list`, `other` (the copy) | `AddToStrlist`, `AddToStrlistTryFail`, `AppendToStrlist`, `Tokenize`, `StrlistPop`, `StrlistRev`, `FreeStrlist`, `StrlistCopy`, `FreeCopy` |
| `ServerSession` | One gpgsm Assuan session | `inFd`, `outFd`, `msg` (descriptor ids, 0 for none), `nextFd`, `served` (a ghost count, per descriptor, of the operations that used it), `recips`, `signers`, `audit`, the options (`enableAudit`, `includeCerts`, `listToOutput`, `noEncryptTo`, `alwaysTrust`, `noProtection`) and `done` | `Option`, `Reset`, `Input`, `Output`, `Message`, `Recipient`, `Signer`, `Encrypt`, `Decrypt`, `Verify`, `Sign`, `Import`, `Export`, `Delkeys`, `ListKeys`, `Genkey`, `GetAuditLog`, `EndSession` |

Each `MC*` module fixes a module's constants for TLC.

### How the models follow the code

**Outcomes that depend on the OS or allocator.** A filter call or system call whose outcome depends on the operating system or the allocator is an operator. It returns the set of possible outcomes, and the action picks one with `\E`.
- A `read()` may return any short count. EOF comes only when the file is exhausted. An error may come after some bytes, at most `MaxErrors` times.
- `es_fdopen`, `xtrymalloc` and `audit_new` may fail. So may a key lookup in RECIPIENT or SIGNER, and the `--issuer-der` inquiry of LISTKEYS.

**Filters and filter calls.**
- Filters are modelled as functions from the node's state to outcome sets.
- A filter call that loops to its end, like `block_filter`'s UNDERFLOW, is one step, computed by a RECURSIVE operator.

**API calls.**
- In the read-side modules, an API call that loops over `underflow_target` is a start action plus one action per iteration. These are `iobuf_read`, `iobuf_peek` and `iobuf_skip_rest`. An iteration can leave state the caller can see.
- In `OutputPipeline`, `EncryptPipeline`, `StringList` and `ServerSession`, every API call or command handler is one step. It includes every flush, free or close it makes. In `EncryptPipeline`, one `iobuf_write` on T can run the cipher's FLUSH several times, and each FLUSH runs the whole `iobuf_write` loop on X. In `CompressPipeline`, one FLUSH runs the whole `do_compress` loop (`CompressRounds`) and one UNDERFLOW the whole `do_uncompress` loop (`UncompressRounds`).

**Abstracted data.**
- Bytes are small integers.
- Strings are sequences of one-letter words.
- User IDs are model values.
- Descriptors handed to the server are fresh ids.
- CFB encryption adds, modulo 256, a keystream that depends only on the stream position. A resync moves the position to the next block boundary. SHA-1 is a fold over the bytes hashed. The random prefix is drawn from a small set in the step where `gcry_randomize` runs. `build_packet` is not in this tree, so it is modelled from RFC 4880: a new-format CTB, then the push of the block filter, then the version octet for tag 18.

- zlib is not in this tree. `deflate` and `inflate` follow the contract in `zlib.h` at a small scale. The compressed format is stored blocks: a length octet, that many octets, and an empty block to end. With algorithm 2 a header octet (120) comes first and a checksum octet last; the checksum is a fold standing in for adler32. `deflate` first flushes pending output and returns `Z_OK` without taking input if that fills the output buffer. It returns `Z_BUF_ERROR` when it can do nothing. Otherwise it takes all input and emits a block once `EmitAt` octets are held, or everything plus the end on `Z_FINISH`. `inflate` decodes as far as its input and output allow and stops at the end of the stream. A corrupt stream is `Z_DATA_ERROR`.

The server's encoding flags and its estream objects are not kept. No property reads them.

## Runs

| Run | Module / cfg | Expect | Distinct states | What it shows |
|---|---|---|---|---|
| `input_pipeline` | `MCInputPipeline` / `MCInputPipeline.cfg` | pass | 359,915 | Reads, skips, peeks, limits and `iobuf_read_line` over a file whose `read()` returns short counts, EOF and an error. Every byte is delivered once and in order, EOF is reported only at the end, peeks match the next bytes, `iobuf_tell` stays exact, each line comes back as the contract says (cut at `MAX`) without writing past the caller's buffer, and every call returns. |
| `peek_hang` | `MCInputPipeline` / `…_peekhang.cfg` | violation of `PeekReturns` | 38,658 | `iobuf_peek` loops forever once a read error is recorded while bytes are still buffered (iobuf.c:2364). |
| `close_cache` | `MCCloseCache` / `MCCloseCache.cfg` | pass | 116,102 | See below. |
| `cache_write_fd` | `MCCloseCache` / `…_writefd.cfg` | violation of `InputReadable` | 215 | See below. |
| `fdopen_nc_closes` | `MCCloseCache` / `…_fdopennc.cfg` | violation of `CacheSlotsDistinct` | 38,029 | See below. |
| `filter_chain` | `MCFilterChain` / `MCFilterChain.cfg` | pass | 5,186 | See below. |
| `eof_swallowed` | `MCFilterChain` / `…_EofBeforeTrailer.cfg` | violation of `EofBeforeTrailer` | 1,747 | See below. |
| `output_chains` | `MCCompressPipeline` / `MCCompressPipeline.cfg` | pass | 3,527 | See below. |
| `string_list` | `MCStringList` / `MCStringList.cfg` | pass | 585 | See below. |
| `strlist_copy_truncates` | `MCStringList` / `…_Copy.cfg` | violation of `Refines` | 33 | See below. |
| `server_session` | `MCServerSession` / `MCServerSession.cfg` | pass | 432,960 | See below. |
| `include_certs_sticky` | `MCServerSession` / `…_includecerts.cfg` | violation of `IncludeCertsValid` | 20 | See below. |

More on the rows marked "See below":

- **`close_cache`.** Two iobufs and the program open, create, fdopen, close, cancel and invalidate over two file names. Through all of it:
  - every descriptor sits in at most one cache slot;
  - every open descriptor is owned by exactly one holder (no leak);
  - every reference names an open descriptor of its path;
  - a reused descriptor is handed out rewound.
- **`cache_write_fd`.** A write-only descriptor from `iobuf_create` is cached and handed to the next `iobuf_open` (iobuf.c:702).
- **`fdopen_nc_closes`.** `iobuf_fdopen_nc`'s iobuf closes the caller's descriptor (iobuf.c:620). The caller's own close then hits a reused number, which ends up in two cache slots.
- **`filter_chain`.** Through `block_filter`, every mix of readbyte, read and peek on the head delivers the decoded body and then the bytes after the packet. It never reports EOF inside the body, at most one EOF at its end, and `iobuf_tell` never goes back.
- **`eof_swallowed`.** `iobuf_read` returns the last body bytes together with the splice, and the one EOF is lost (iobuf.c:2322).
- **`output_chains`.** Any mix of `iobuf_write` (1 to 9 bytes) and `iobuf_writebyte`, then the end of the chain. The chain is one of three: `block_filter` alone, ended by the pop; `cipher_filter_cfb` above it, ended by `iobuf_close`, with and without MDC and with and without resync; or `compress_filter` on the file with algorithm 1 or 2, ended by `iobuf_close`, after which the reader pushes the filter and underflows to EOF. The run checks that:
  - `block_filter`'s assertion at 1098 never trips;
  - the popped body is well framed (final header, no trailing bytes);
  - the closed file is one encrypted packet that an RFC 4880 reader decrypts to exactly the bytes written, with a valid MDC, even when nothing was written;
  - the compress reader's UNDERFLOW delivers a prefix of what was written at every call, and all of it at EOF;
  - all three chains refine `ByteStream`.
- **`string_list`.** Prepends, appends, tokenizes (including allocation failure mid-way and tokens that trim to nothing), pops, reversals and frees on a three-cell heap:
  - never leak or relink a freed cell;
  - refine `StrSeq`: each helper does to the list what the spec says.
- **`strlist_copy_truncates`.** `strlist_copy` of a two-element list yields one element (strlist.c:275).
- **`server_session`.** Any sequence of Assuan commands, with any failure of stream setup, allocation, audit or key lookup. No INPUT, OUTPUT or MESSAGE descriptor ever serves two operations.
- **`include_certs_sticky`.** `OPTION include-certs=-5` is accepted, because the check tests the stored value (server.c:214).

### Properties

- **InputPipeline.**
  - `DeliveredInOrder`: bytes handed out by any call are the file's next bytes.
  - `NoPrematureEOF`: EOF is reported only at the end, after a recorded error, or at the limit.
  - `PeekMatchesNextBytes`: peeked bytes are the next bytes.
  - `TellCountsDelivered`: between calls, `iobuf_tell` equals the bytes consumed.
  - `ReadLineExact`: when `iobuf_read_line` returns, it consumed exactly the next line (through the first newline, or to EOF, a read error or the limit). It returned that line, or, if the line does not fit `MAX` with its newline and NUL, its first `MAX-2` bytes plus a newline, with `*MAX` set to 0. The reference (`RefLine`) is stated on the consumed bytes alone, so it checks the fast `memchr` path, the byte reads, the buffer growth and the skip together.
  - `BufferRoom`: during and after `iobuf_read_line` the line is at most `LENGTH-1` bytes, so the NUL and the newline written at `MAX` stay inside the caller's buffer.
  - `ReadReturns`: every `iobuf_read`, `iobuf_skip_rest` and `iobuf_read_line` returns. This is liveness.
- **CloseCache.**
  - `CacheSlotsDistinct`: no descriptor is in two slots.
  - `NoLeak`: every open descriptor has exactly one owner.
  - `DescriptorsValid`: every reference is to an open descriptor of its path.
  - `RewoundOnReuse`: a reused descriptor is at offset 0.
  - `InputReadable` (violation run only): an input iobuf's descriptor is readable.
- **FilterChain.**
  - `BytesInOrder`: the caller receives the packet body, then the bytes after the packet.
  - `OneEofAtBoundary`: at most one EOF, and only at the boundary.
  - `TellMonotonic`: an action property; `iobuf_tell` never goes back.
  - `EofBeforeTrailer` (violation run only): the caller sees the EOF before any byte after the packet.
- **OutputPipeline** (checked in the `output_chains` run).
  - `NoAbort`: no flush hits the assertion.
  - `WellFramed`: after the pop, the sink parses as a complete partial body. `Parse` decodes the framing per RFC 4880.
- **EncryptPipeline.**
  - `Decrypts`: after `iobuf_close`, the file holds the CTB of the right tag and a well-framed body. The body has the version octet (tag 18), a prefix whose last two octets repeat, exactly the bytes written, and with MDC `0xd3 0x14` plus the hash of prefix, plaintext and those two octets. The reader (`Opened`) follows RFC 4880 5.7 and 5.13; like gpg's decryptor, it skips the resync for algorithm ids from 100.
- **CompressPipeline.**
  - `ReadBack`: what `compress_filter`'s UNDERFLOW hands out is, call by call, a prefix of the bytes written, and all of them when it reports EOF. It is about `do_uncompress`'s refill condition: input left over from a call that filled the caller's buffer must be used before the next `iobuf_read`, and the dummy octets at EOF must not add data.
  - `CRefines`: all three chains implement `ByteStream`, via `INSTANCE ByteStream WITH in <- written, out <- (plain) Parse(sink).data, (encrypt) Recovered or (compress) the blocks decoded from the file, closed <- blk = "popped" or closed`. `Recovered` is what the reader gets from the file so far. For the compress chain the decoder is a separate reference definition (`BlocksFrom`), so this checks `do_compress`'s loop: FREE must loop until `Z_STREAM_END`, and each FLUSH until the input is taken.
- **StringList.**
  - `HeapExact`: the allocated cells are exactly the cells of the two lists, each once.
  - `Refines`: the heap model implements `StrSeq`, via `INSTANCE StrSeq WITH seq <- Contents(list), seq2 <- Contents(other)`. Tokenizing is checked against `StrSeq!Tokens`, a reference definition of split, trim and drop-empty.
- **ServerSession.**
  - `DescriptorUsedOnce`: each descriptor serves at most one operation.
  - `IncludeCertsValid` (violation run only): the stored `include_certs` is a value gpgsm accepts.

Every module has a type invariant: `TypeOK`, or `CTypeOK` in `CompressPipeline`, which the `output_chains` run checks for `EncryptPipeline` too.

**Mutants.** Every property of a pass run has a mutant in `PROJECT.json`. A mutant is a plausible bug in a mapped definition: a dropped bounds check, a missing reset, an off-by-one, an unfreed cell, a descriptor left open. TLC finds the property violated under the run's own configuration.

### Bounds and why they are enough

- **InputPipeline.** The setup is:
  - a 5-byte file;
  - a 3-byte buffer;
  - a zero-copy threshold of 2;
  - a 2-byte PEEK read-ahead;
  - one I/O error;
  - read limits 0 and 2;
  - for `iobuf_read_line`: byte 3 is the newline, `MAX` is 3, and the buffer starts at 2 bytes and grows by 2 (256 and 1024 scaled down to 2 and 4).

  With these, `read_line` meets a line cut at `MAX` with a newline (1..3), lines that fit (2..3, 3, 5), a line ending at EOF with `MAX-1` bytes (4..5, which the code cuts too), and one growth of the buffer. The caller passes the same `MAX` every call and keeps its buffer between calls.

  A 5-byte file needs two refills and a partly drained buffer. Requests of 2 to 4 bytes take the zero-copy route; 1-byte requests do not. Every branch of `underflow_target` and of `file_filter`'s UNDERFLOW is reached.
- **FilterChain.** The file holds:
  - a partial chunk of 4 (larger than the buffer);
  - a partial chunk of 1;
  - a final chunk with a five-octet length;
  - two trailing bytes.

  This reaches every header form and the splice both with and without bytes buffered.
- **CloseCache.** The setup is two names, two iobufs and two descriptor numbers in every run.
  - With two numbers the table fills up, and numbers are reused after a close.
  - The pass run leaves out `iobuf_fdopen_nc`, whose defect the `fdopen_nc_closes` run shows.
  - Symmetry is taken over the iobufs and the names, which the code treats alike.
- **EncryptPipeline and CompressPipeline.** The setup is:
  - a minimum chunk of 2;
  - buffers of 8;
  - a zero-copy threshold of 4;
  - writes of up to 9 bytes, 14 bytes in all;
  - a cipher block of 3, so the 5-octet prefix ends inside a block and a resync skips a keystream octet;
  - a hash of 2 octets;
  - random octets 0 and 5, so the check octets may or may not differ;
  - algorithms 7 and 110, so a non-MDC packet is written both with and without resync.

  - compress algorithms 1 and 2;
  - a writer output buffer of 3, smaller than a block plus its header, so `do_compress` loops and `deflate` returns with pending output;
  - blocks emitted at 4 held octets, so a FLUSH of a full buffer emits one block and holds the rest;
  - a reader input buffer of 3 and an UNDERFLOW buffer of 2, so an UNDERFLOW fills the caller's buffer with input left over, and the next one must use it before reading.

  So writes on both nodes go through the buffer, the zero-copy drain and the flush of a full buffer. The encoder emits several partial chunks, a stash and the final header. The close comes both before and after any data.
- **StringList.** The heap has three cells, with two words, and tokenize inputs that give empty pieces, spaces-only pieces and two tokens.
  - An allocation fails in the middle of a tokenize.
  - The copy violation needs four cells, for a two-element list and its copy.
- **ServerSession.** The setup is:
  - two user IDs, one of them an encrypt-to key;
  - three descriptors per session;
  - option values empty, 0, 1 and −5.

  Three descriptors are enough for an INPUT, an OUTPUT and a MESSAGE to be set at once, and for an operation to be followed by another one on a fresh descriptor.

### Fairness

- **InputPipeline and FilterChain.** The iteration actions of a call in progress are weakly fair. The code is single-threaded, and nothing but the loop runs until it returns. The caller is not fair; it may stop calling at any time.
- **Other modules.** No liveness is claimed, and no fairness is assumed.
- **Deadlock.** `CHECK_DEADLOCK FALSE` is set where the program may really stop:
  - the caller stops reading after its EOF budget;
  - the pop or the close ends the output pipeline;
  - `EndSession` ends the server.

## Findings

| Source | Kind | What |
|---|---|---|
| iobuf.c:2364 | code bug | `iobuf_peek` hangs after a sticky read error with bytes buffered. |
| iobuf.c:702 | spec/code divergence | The close cache hands a write-only descriptor to a reader. |
| iobuf.c:620 | code bug | `iobuf_fdopen_nc` does not keep the descriptor open, because `file_filter` INIT clears `keep_open`. |
| iobuf.c:2322 | code bug | `iobuf_read` swallows the EOF at the end of a partial body. |
| strlist.c:275 | code bug | `strlist_copy` copies only the first element and leaks the rest. |
| server.c:214 | code bug | `include-certs` is validated against the old value. A bad value gets in, and then every later `include-certs` is rejected. |

The following were also confirmed with TLC but are not kept as runs; `PROJECT.json` lists them as hazards:

- `block_filter` FLUSH asserts (iobuf.c:1098) that a stash is exactly 512 bytes. A flush that is not a multiple of 512 before the last one aborts, and `iobuf_temp_to_buffer` does exactly that.
- On an `iobuf_temp`, `iobuf_set_partial_body_length_mode` gives the filter the use `OUTPUT_TEMP` (iobuf.c:2827). FREE then writes no end marker. To reproduce, run `MCCompressPipeline` with `Lower = "output_temp"` and check `WellFramed`.

- `iobuf_seek` (iobuf.c:2731) resets the node but not the `file_filter` context: `delayed_rc`, `eof_seen` and the PEEK read-ahead survive the `lseek`. Read a file shorter than one buffer, which latches the delayed EOF, then seek to 0 and read: the read returns EOF at once, and the filter is freed. A seek action added to `InputPipeline` broke `NoPrematureEOF` within five steps. `iobuf_seek` has no caller in this tree, so the action is not kept in the module or the runs.
- `iobuf_read_line` (iobuf.c:2909) cuts a line that ends at EOF with exactly MAX-1 bytes, although it fits. spec.md (the `read_line` row) truncates only on overrun, and this line fits with its NUL. A read error ends a line the same way EOF does. `ReadLineExact` states what the code does, so the pass run checks the rest of the contract around this edge.
- `iobuf_read_line` overflows the caller's buffer when a call passes a MAX smaller than the buffer's length. This includes the 0 a truncation leaves in `*MAX`. The `xrealloc` at iobuf.c:2935 then shrinks the buffer below the bytes already copied. The run's caller passes the same MAX on every call.

## Not modelled

- `g10/ecdh.c`: key derivation arithmetic.
- `g10/compress.c`: zlib's internals (replaced by its contract), the bzip2 filter (`compress-bz2.c` is not in this tree) and the NONE algorithm's plain copy. The compress filter is not composed with the cipher filter; in gpg it sits above it, and `CompressPipeline` puts it on the file node directly.
- `g10/cipher-cfb.c`: the cipher and SHA-1 themselves, which are abstracted. The model has no write failures below the block filter, so an MDC packet that fails to write (only logged, cipher-cfb.c:172) is not reached. The zero-copy write also lets the cipher encrypt the caller's `const` buffer in place (iobuf.c:2438). No caller in this tree reads that buffer again, and the model keeps no caller buffer.
- The fixed-length encrypted packet (`cfx->datalen` set), which needs `build_packet`'s length header and no block filter.
- `g10/dearmor.c`: a straight-line open, push armor filter, copy, close sequence.
- `g10/verify.c`: file handling around the signature check. Its use of `iobuf_fdopen_nc` is covered by `CloseCache`.
- `dirmngr/t-support.c`: a test stub.
- The Windows-only branches (`ReadFile`/`WriteFile`, `sock_filter`), and the estream filter, which follows the same UNDERFLOW contract as `file_filter`.
- In the server:
  - The estream objects themselves. The leaks they allow have no property yet; one hazard in `PROJECT.json` (server.c:936) lists all three:
    - an input stream left open when opening the output stream fails;
    - a MESSAGE stream overwritten;
    - a MESSAGE stream left at the end of the session.
  - The help text says recipients are cumulative until a *successful* ENCRYPT, but ENCRYPT releases them after a failed run too (server.c:520).

## Plan for later work

1. `iobuf_temp`/`iobuf_flush_temp` as actions of `OutputPipeline`. This would give the 1098 abort and the OUTPUT_TEMP end marker their own runs. The compress filter could be composed above the cipher node.
2. `iobuf_seek` as an action of `InputPipeline`, with a run that shows the stale filter context, once a caller uses it. The pop of `set_partial_body_length_mode(a, 0)` on input pipelines. `iobuf_seek`'s own pop loop never runs.
3. A property for the server's estream leaks, which needs a count of open estream objects in `ServerSession`. A property for the ENCRYPT recipient semantics.
4. The fixed-length encrypted packet, and write failures below the cipher (the MDC written after a failed flush).
