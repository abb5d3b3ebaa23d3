---------------------------- MODULE MCCloseCache ----------------------------
(* Model-checking instance of CloseCache: two file names, three           *)
(* descriptor numbers (so the table can fill up and numbers get reused),  *)
(* two iobufs open at a time.                                             *)
EXTENDS CloseCache, TLC

CONSTANTS p1, p2, h1, h2

MC_Paths == {p1, p2}
MC_Fds == {3, 4, 5}
MC_TwoFds == {3, 4}
MC_Handles == {h1, h2}
MC_AllCalls == {"open", "create", "openrw", "fdopen", "fdopen_nc", "cancel",
                "nocache", "invalidate"}
MC_Calls == MC_AllCalls \ {"fdopen_nc"}
MC_Seekable == MC_Paths
MC_Symmetry == Permutations(MC_Handles) \cup Permutations(MC_Paths)
=============================================================================
