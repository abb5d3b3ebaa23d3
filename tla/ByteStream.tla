----------------------------- MODULE ByteStream -----------------------------
(***************************************************************************)
(* What an output pipeline promises its writer: a FIFO byte stream.  The  *)
(* writer hands bytes in; the sink has received a prefix of them, which   *)
(* only grows; once the pipeline is closed the sink holds all of them.    *)
(* Filters may hold bytes back for any time before close (buffering,      *)
(* block framing), so delivery is not tied to the write that gave them.   *)
(***************************************************************************)
EXTENDS Sequences, SequencesExt

VARIABLES
    in,         \* the bytes the writer has handed to the pipeline
    out,        \* the bytes that have reached the sink
    closed      \* the pipeline has been closed

Init == in = <<>> /\ out = <<>> /\ closed = FALSE

(* Any write: more bytes are accepted, and some more of them may arrive.  *)
Move ==
    /\ ~closed
    /\ IsPrefix(in, in') /\ IsPrefix(out, out') /\ IsPrefix(out', in')
    /\ UNCHANGED closed

(* Close: everything accepted arrives.                                     *)
Close ==
    /\ ~closed /\ closed'
    /\ in' = in /\ out' = in

Spec == Init /\ [][Move \/ Close]_<<in, out, closed>>

=============================================================================
