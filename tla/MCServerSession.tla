-------------------------- MODULE MCServerSession --------------------------
(* ServerSession for TLC: two user IDs, one of them an encrypt-to key,    *)
(* three descriptors per session, and option values covering the empty   *)
(* value, zero, a positive count and a negative one below -2.            *)
EXTENDS ServerSession

CONSTANTS k1, k2

MC_Keys == {k1, k2}
MC_EncTo == {k2}
MC_Values == {Empty, 0, 1, -5}
MC_DefaultInclude == -2  \* DEFAULT_INCLUDE_CERTS of sm/gpgsm.c

=============================================================================
