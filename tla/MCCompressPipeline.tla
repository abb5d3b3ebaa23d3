------------------------ MODULE MCCompressPipeline --------------------------
(* The three output chains at the scale of MCEncryptPipeline, with a      *)
(* deflate output buffer of 3, blocks emitted from 4 held octets, and a   *)
(* reader whose input buffer (3) is larger than its output buffer (2), so *)
(* that a call can end with input left over, as it does with real         *)
(* compression ratios.                                                    *)
EXTENDS CompressPipeline

MC_Data == [i \in 1..14 |-> i]

=============================================================================
