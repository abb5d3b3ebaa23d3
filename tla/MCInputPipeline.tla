-------------------------- MODULE MCInputPipeline --------------------------
(* Model-checking instance of InputPipeline: a 5-byte file, an internal   *)
(* buffer of 3, a zero-copy threshold of 2 (so reads of 2..4 bytes take   *)
(* the external route and 1-byte reads do not), a 2-byte read-ahead, one  *)
(* I/O error, and read limits 0 (none) and 2.  For iobuf_read_line byte  *)
(* 3 is the '\n' and MAX is 3, with buffers starting at 2 bytes: the      *)
(* lines 1..3 (too long, cut), 2..3 and 3 (fit), 4..5 (ends at EOF with   *)
(* MAX-1 bytes, cut) and 5 (fits) all come up, as does growth 2 -> 3.      *)
EXTENDS InputPipeline

MC_Src == <<1, 2, 3, 4, 5>>
MC_BufSize == 3
MC_ZC == 2
MC_PeekSize == 2
MC_MaxReq == 4
MC_MaxErrors == 1
MC_LimitValues == {0, 2}
MC_NLs == {3}
MC_LineMax == 3
MC_LineChunk == 2
MC_LineBig == 4
=============================================================================
