CONSTANTS
    p1 = p1
    p2 = p2
    h1 = h1
    h2 = h2
    Paths <- MC_Paths
    Fds <- MC_TwoFds
    Handles <- MC_Handles
    Calls <- MC_Calls
    Seekable <- MC_Seekable
SYMMETRY MC_Symmetry
SPECIFICATION Spec
INVARIANT InputReadable
