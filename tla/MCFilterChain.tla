--------------------------- MODULE MCFilterChain ---------------------------
(* Model-checking instance of FilterChain.  The file holds one packet     *)
(* body framed as a partial chunk of 4 (226, the octet the caller reads;  *)
(* larger than the buffer), a partial chunk of 1 (224), a final chunk     *)
(* with a five-octet length of 1 (255 0 0 0 1), then two bytes after the  *)
(* packet.  Body and trailer bytes are distinct.  An internal buffer of 3 *)
(* and a zero-copy threshold of 2; one I/O error.                         *)
EXTENDS FilterChain

MC_Src == <<226, 101, 102, 103, 104, 224, 105, 255, 0, 0, 0, 1, 106, 111, 112>>
MC_BufSize == 3
MC_ZC == 2
MC_MaxReq == 4
MC_MaxErrors == 1
MC_MaxEofs == 2
=============================================================================
