----------------------------- MODULE CloseCache -----------------------------
(***************************************************************************)
(* The close cache of src/common/iobuf.c: closing a file_filter puts its  *)
(* descriptor into a process-wide list of (fname, fp) slots instead of    *)
(* closing it, and iobuf_open takes a cached descriptor for the same name *)
(* back and rewinds it.  Modelled with the operating system's descriptor  *)
(* table (open() returns the lowest free number), the files that exist,  *)
(* the iobufs the program holds, and the descriptors the program owns     *)
(* outside iobuf (as gpg's server holds the descriptors its client sends).*)
(*                                                                        *)
(* Each action is one API call, run to completion (single-threaded).      *)
(* Data transfer is abstracted to "the descriptor's offset moved".  The   *)
(* special file names ("-", "-&n") and the Windows branches are left out. *)
(***************************************************************************)
EXTENDS Integers, Sequences, FiniteSets, FiniteSetsExt

CONSTANTS
    Paths,      \* file names used by the program
    Fds,        \* descriptor numbers the process may get, e.g. 3..5
    Handles,    \* iobuf objects the program holds at a time
    Seekable,   \* the paths naming regular files (lseek works on them)
    Calls       \* the iobuf entry points the program uses

ASSUME /\ Fds \subseteq Nat /\ Fds # {} /\ Seekable \subseteq Paths
       /\ Calls \subseteq {"open", "create", "openrw", "fdopen", "fdopen_nc",
                           "cancel", "nocache", "invalidate"}

INVALID == -1       \* GNUPG_INVALID_FD
NoPath == "none"    \* no file name (fname NULL), or no file

VARIABLES
    os,         \* the kernel's descriptor table: fd -> open file description
    exists,     \* the paths that exist in the file system
    cache,      \* close_cache as a sequence, list head first
    hb,         \* the iobufs: handle -> state of its file_filter
    caller      \* fd -> the path the program opened it on, NoPath if not its

vars == <<os, exists, cache, hb, caller>>

ClosedFd == [open |-> FALSE, path |-> NoPath, rd |-> FALSE, wr |-> FALSE, pos |-> 0]
NoIobuf == [st |-> "closed", use |-> "in", fd |-> INVALID, fname |-> NoPath,
            file |-> NoPath, keep_open |-> FALSE, no_cache |-> FALSE, fresh |-> FALSE]

-----------------------------------------------------------------------------
(* The operating system.  open(2) gives the lowest free descriptor, and   *)
(* fails if the file is missing (without O_CREAT) or no descriptor is     *)
(* free; close(2) of a descriptor that is not open fails with EBADF.      *)
SysOpen(o, ex, p, rd, wr, creat) ==
    LET free == {d \in Fds : ~o[d].open} IN
    IF free = {} \/ (p \notin ex /\ ~creat)
    THEN [fd |-> INVALID, os |-> o, exists |-> ex]
    ELSE LET d == Min(free) IN
         [fd |-> d, exists |-> ex \cup {p},
          os |-> [o EXCEPT ![d] = [open |-> TRUE, path |-> p, rd |-> rd,
                                   wr |-> wr, pos |-> 0]]]

SysClose(o, d) ==
    IF o[d].open THEN [rc |-> 0, os |-> [o EXCEPT ![d] = ClosedFd]]
                 ELSE [rc |-> -1, os |-> o]

-----------------------------------------------------------------------------
(* Mutant: the slot is closed but not marked free.                         *)
RECURSIVE InvalidateKeepSlot(_, _, _)
InvalidateKeepSlot(st, p, i) ==
    IF i > Len(st.cache) THEN st
    ELSE LET s == st.cache[i] IN
         IF s.fp # INVALID /\ s.name = p
         THEN LET cl == SysClose(st.os, s.fp) IN
              InvalidateKeepSlot([st EXCEPT !.os = cl.os, !.rc = cl.rc], p, i + 1)
         ELSE InvalidateKeepSlot(st, p, i + 1)

(* fd_cache_invalidate, the loop from slot I on over ST = [cache, os, rc]:*)
(* close every live slot named P and mark it free; rc is the result of    *)
(* the last close only.                                                   *)
RECURSIVE InvalidateFrom(_, _, _)
InvalidateFrom(st, p, i) ==
    IF i > Len(st.cache) THEN st
    ELSE LET s == st.cache[i] IN
         IF s.fp # INVALID /\ s.name = p
         THEN LET cl == SysClose(st.os, s.fp) IN
              InvalidateFrom([cache |-> [st.cache EXCEPT ![i].fp = INVALID],
                              os |-> cl.os, rc |-> cl.rc], p, i + 1)
         ELSE InvalidateFrom(st, p, i + 1)

FdCacheInvalidate(c, o, p) == InvalidateFrom([cache |-> c, os |-> o, rc |-> 0], p, 1)

(* direct_open (POSIX): "r+" and "w" invalidate the cache first and fail  *)
(* if that reports an error; "r" is O_RDONLY, "r+" O_RDWR, "w" O_WRONLY   *)
(* with O_CREAT (and O_TRUNC).                                            *)
DirectOpen(c, o, ex, p, mode) ==
    IF mode = "r"
    THEN LET r == SysOpen(o, ex, p, TRUE, FALSE, FALSE) IN
         [fd |-> r.fd, cache |-> c, os |-> r.os, exists |-> r.exists]
    ELSE LET inv == FdCacheInvalidate(c, o, p) IN
         IF inv.rc # 0
         THEN [fd |-> INVALID, cache |-> inv.cache, os |-> inv.os, exists |-> ex]
         ELSE LET r == SysOpen(inv.os, ex, p, mode = "r+", TRUE, mode = "w") IN
              [fd |-> r.fd, cache |-> inv.cache, os |-> r.os, exists |-> r.exists]

(* Mutant: the name check is dropped, a nameless descriptor gets a slot.  *)
FdCacheCloseNoNameCheck(c, o, name, fp) ==
    LET free == {i \in DOMAIN c : c[i].fp = INVALID /\ c[i].name = name} IN
    IF free # {} THEN [cache |-> [c EXCEPT ![Min(free)].fp = fp], os |-> o]
    ELSE [cache |-> <<[name |-> name, fp |-> fp]>> \o c, os |-> o]

(* Mutant: a descriptor without a name is forgotten instead of closed.    *)
FdCacheCloseNoClose(c, o, name, fp) ==
    IF name = NoPath THEN [cache |-> c, os |-> o]
    ELSE LET free == {i \in DOMAIN c : c[i].fp = INVALID /\ c[i].name = name} IN
         IF free # {} THEN [cache |-> [c EXCEPT ![Min(free)].fp = fp], os |-> o]
         ELSE [cache |-> <<[name |-> name, fp |-> fp]>> \o c, os |-> o]

(* fd_cache_close: without a name close for real; else reuse the first    *)
(* free slot of that name, else prepend a new slot.                       *)
FdCacheClose(c, o, name, fp) ==
    IF name = NoPath THEN [cache |-> c, os |-> SysClose(o, fp).os]
    ELSE LET free == {i \in DOMAIN c : c[i].fp = INVALID /\ c[i].name = name} IN
         IF free # {} THEN [cache |-> [c EXCEPT ![Min(free)].fp = fp], os |-> o]
         ELSE [cache |-> <<[name |-> name, fp |-> fp]>> \o c, os |-> o]

(* Mutant: the slot is not freed when its descriptor is handed out.        *)
FdCacheOpenNoDetach(c, o, ex, p) ==
    LET live == {i \in DOMAIN c : c[i].fp # INVALID /\ c[i].name = p} IN
    IF live # {}
    THEN LET fp == c[Min(live)].fp IN
         IF o[fp].open /\ o[fp].path \in Seekable
         THEN [fd |-> fp, cache |-> c, os |-> [o EXCEPT ![fp].pos = 0], exists |-> ex]
         ELSE [fd |-> INVALID, cache |-> c, os |-> o, exists |-> ex]
    ELSE DirectOpen(c, o, ex, p, "r")

(* Mutant: the cached descriptor is handed out without the rewind.        *)
FdCacheOpenNoRewind(c, o, ex, p) ==
    LET live == {i \in DOMAIN c : c[i].fp # INVALID /\ c[i].name = p} IN
    IF live # {}
    THEN LET i == Min(live)
             fp == c[i].fp
         IN [fd |-> fp, cache |-> [c EXCEPT ![i].fp = INVALID], os |-> o, exists |-> ex]
    ELSE DirectOpen(c, o, ex, p, "r")

(* fd_cache_open: take the first live slot named P, free it and rewind    *)
(* its descriptor; if lseek fails (not a regular file, or the number is   *)
(* no longer open) return GNUPG_INVALID_FD.  Without a slot, direct_open. *)
FdCacheOpen(c, o, ex, p) ==
    LET live == {i \in DOMAIN c : c[i].fp # INVALID /\ c[i].name = p} IN
    IF live # {}
    THEN LET i == Min(live)
             fp == c[i].fp
             c1 == [c EXCEPT ![i].fp = INVALID]
         IN IF o[fp].open /\ o[fp].path \in Seekable
            THEN [fd |-> fp, cache |-> c1, os |-> [o EXCEPT ![fp].pos = 0], exists |-> ex]
            ELSE [fd |-> INVALID, cache |-> c1, os |-> o, exists |-> ex]
    ELSE DirectOpen(c, o, ex, p, "r")

-----------------------------------------------------------------------------
Closed(h) == hb[h].st = "closed"

(* A file_filter over descriptor FD right after do_open / do_iobuf_fdopen. *)
NewIobuf(use, fd, fname, file, keep_open, no_cache) ==
    [st |-> "open", use |-> use, fd |-> fd, fname |-> fname, file |-> file,
     keep_open |-> keep_open, no_cache |-> no_cache, fresh |-> TRUE]

(* do_open's tail: on GNUPG_INVALID_FD return NULL, else allocate the     *)
(* iobuf with a file_filter over the descriptor and the file name.        *)
Opened(h, use, p, r) ==
    /\ os' = r.os /\ cache' = r.cache /\ exists' = r.exists
    /\ hb' = IF r.fd = INVALID THEN hb
             ELSE [hb EXCEPT ![h] = NewIobuf(use, r.fd, p, p, FALSE, FALSE)]
    /\ UNCHANGED caller

(* iobuf_open: do_open (FNAME, 1, IOBUF_INPUT, "rb", 0).                  *)
Open(h, p) ==
    /\ "open" \in Calls /\ Closed(h)
    /\ Opened(h, "in", p, FdCacheOpen(cache, os, exists, p))

(* iobuf_create: do_open (FNAME, 1, IOBUF_OUTPUT, "wb", MODE700).         *)
Create(h, p) ==
    /\ "create" \in Calls /\ Closed(h)
    /\ Opened(h, "out", p, DirectOpen(cache, os, exists, p, "w"))

(* iobuf_openrw: do_open (FNAME, 0, IOBUF_OUTPUT, "r+b", 0).              *)
OpenRW(h, p) ==
    /\ "openrw" \in Calls /\ Closed(h)
    /\ Opened(h, "out", p, DirectOpen(cache, os, exists, p, "r+"))

(* iobuf_fdopen / iobuf_fdopen_nc (FD, "rb"): do_iobuf_fdopen stores      *)
(* keep_open, then file_filter's IOBUFCTRL_INIT sets it back to 0, then    *)
(* IOBUF_IOCTL_NO_CACHE is set.  Plain fdopen takes the descriptor over.  *)
Fdopen(h, d, nc) ==
    /\ Closed(h) /\ caller[d] # NoPath
    /\ (IF nc THEN "fdopen_nc" ELSE "fdopen") \in Calls
    /\ hb' = [hb EXCEPT ![h] = NewIobuf("in", d, NoPath, caller[d], FALSE, TRUE)]
    /\ caller' = IF nc THEN caller ELSE [caller EXCEPT ![d] = NoPath]
    /\ UNCHANGED <<os, exists, cache>>

(* iobuf_ioctl (A, IOBUF_IOCTL_NO_CACHE, 1, NULL), as verify_one_file does. *)
NoCache(h) ==
    /\ "nocache" \in Calls /\ ~Closed(h)
    /\ hb' = [hb EXCEPT ![h].no_cache = TRUE]
    /\ UNCHANGED <<os, exists, cache, caller>>

(* Reading from or writing to the iobuf moves the descriptor's offset.    *)
Use(h) ==
    /\ ~Closed(h) /\ hb[h].fresh
    /\ hb' = [hb EXCEPT ![h].fresh = FALSE]
    /\ os' = IF os[hb[h].fd].open THEN [os EXCEPT ![hb[h].fd].pos = 1] ELSE os
    /\ UNCHANGED <<exists, cache, caller>>

(* file_filter, IOBUFCTRL_FREE: unless keep_open, hand the descriptor to  *)
(* fd_cache_close, without a name if no_cache is set.                     *)
FileFree(b) ==
    IF b.keep_open THEN [cache |-> cache, os |-> os]
    ELSE FdCacheClose(cache, os, IF b.no_cache THEN NoPath ELSE b.fname, b.fd)

(* iobuf_close of a single-node pipeline: flush (abstracted) and FREE.    *)
Close(h) ==
    /\ ~Closed(h)
    /\ LET r == FileFree(hb[h]) IN os' = r.os /\ cache' = r.cache
    /\ hb' = [hb EXCEPT ![h] = NoIobuf]
    /\ UNCHANGED <<exists, caller>>

(* iobuf_cancel: remove the output file by its real name, then close.     *)
Cancel(h) ==
    /\ "cancel" \in Calls /\ ~Closed(h) /\ hb[h].use = "out"
    /\ LET r == FileFree(hb[h]) IN os' = r.os /\ cache' = r.cache
    /\ exists' = IF hb[h].fname # NoPath THEN exists \ {hb[h].fname} ELSE exists
    /\ hb' = [hb EXCEPT ![h] = NoIobuf]
    /\ UNCHANGED caller

(* iobuf_ioctl (NULL, IOBUF_IOCTL_INVALIDATE_CACHE, 0, FNAME).            *)
Invalidate(p) ==
    /\ "invalidate" \in Calls
    /\ LET r == FdCacheInvalidate(cache, os, p) IN os' = r.os /\ cache' = r.cache
    /\ UNCHANGED <<exists, hb, caller>>

(* The program opens a descriptor itself (or receives one), and closes    *)
(* one it owns.                                                           *)
CallerOpen(p) ==
    /\ {"fdopen", "fdopen_nc"} \cap Calls # {}
    /\ LET r == SysOpen(os, exists, p, TRUE, FALSE, FALSE) IN
       /\ r.fd # INVALID
       /\ os' = r.os /\ caller' = [caller EXCEPT ![r.fd] = p]
    /\ UNCHANGED <<exists, cache, hb>>

CallerClose(d) ==
    /\ caller[d] # NoPath
    /\ os' = SysClose(os, d).os /\ caller' = [caller EXCEPT ![d] = NoPath]
    /\ UNCHANGED <<exists, cache, hb>>

-----------------------------------------------------------------------------
Init ==
    /\ os = [d \in Fds |-> ClosedFd]
    /\ exists = Paths
    /\ cache = <<>>
    /\ hb = [h \in Handles |-> NoIobuf]
    /\ caller = [d \in Fds |-> NoPath]

Next ==
    \/ \E h \in Handles, p \in Paths : Open(h, p) \/ Create(h, p) \/ OpenRW(h, p)
    \/ \E h \in Handles, d \in Fds, nc \in BOOLEAN : Fdopen(h, d, nc)
    \/ \E h \in Handles : NoCache(h) \/ Use(h) \/ Close(h) \/ Cancel(h)
    \/ \E p \in Paths : Invalidate(p) \/ CallerOpen(p)
    \/ \E d \in Fds : CallerClose(d)

Spec == Init /\ [][Next]_vars

-----------------------------------------------------------------------------
TypeOK ==
    /\ os \in [Fds -> [open : BOOLEAN, path : Paths \cup {NoPath},
                       rd : BOOLEAN, wr : BOOLEAN, pos : {0, 1}]]
    /\ exists \subseteq Paths
    /\ cache \in Seq([name : Paths, fp : Fds \cup {INVALID}])
    /\ hb \in [Handles -> [st : {"open", "closed"}, use : {"in", "out"},
                           fd : Fds \cup {INVALID}, fname : Paths \cup {NoPath},
                           file : Paths \cup {NoPath}, keep_open : BOOLEAN,
                           no_cache : BOOLEAN, fresh : BOOLEAN]]
    /\ caller \in [Fds -> Paths \cup {NoPath}]

(* Every descriptor the program holds: the ones it opened itself, the one *)
(* of each open iobuf, the one of each live cache slot, with the file it  *)
(* was opened on and whether the holder will close it (an iobuf does not  *)
(* when keep_open is set).                                                *)
Refs ==
    {[fd |-> d, path |-> caller[d], owns |-> TRUE] : d \in {x \in Fds : caller[x] # NoPath}}
    \cup {[fd |-> hb[h].fd, path |-> hb[h].file, owns |-> ~hb[h].keep_open] :
            h \in {x \in Handles : ~Closed(x)}}
    \cup {[fd |-> cache[i].fp, path |-> cache[i].name, owns |-> TRUE] :
            i \in {j \in DOMAIN cache : cache[j].fp # INVALID}}

(* The close cache holds a descriptor in at most one live slot (spec,     *)
(* section 8): fd_cache_close, fd_cache_open and fd_cache_invalidate      *)
(* never leave two slots that will both hand out or close the same fd.    *)
CacheSlotsDistinct ==
    \A i, j \in DOMAIN cache :
        i # j /\ cache[i].fp # INVALID => cache[i].fp # cache[j].fp

(* No descriptor leaks: every open descriptor has a holder that will      *)
(* close it (the program, an iobuf's FREE, or the cache), across          *)
(* fd_cache_open's rewind, direct_open's invalidation and FREE.           *)
NoLeak == \A d \in Fds : os[d].open => \E r \in Refs : r.fd = d /\ r.owns

(* No holder refers to a descriptor that was closed under it, or whose    *)
(* number now names another file: the cache, the iobufs and the program   *)
(* never close each other's descriptors.                                  *)
DescriptorsValid == \A r \in Refs : os[r.fd].open /\ os[r.fd].path = r.path

(* An input iobuf that has not read yet starts at offset 0, also when     *)
(* fd_cache_open handed it a descriptor that was read before.             *)
RewoundOnReuse ==
    \A h \in Handles :
        ~Closed(h) /\ hb[h].use = "in" /\ hb[h].fresh => os[hb[h].fd].pos = 0

(* An iobuf from iobuf_open can read its file: fd_cache_open hands out    *)
(* only descriptors opened for reading.                                   *)
InputReadable ==
    \A h \in Handles : ~Closed(h) /\ hb[h].use = "in" => os[hb[h].fd].rd

=============================================================================
