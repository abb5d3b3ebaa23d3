CONSTANTS
    Src <- MC_Src
    BufSize <- MC_BufSize
    ZC <- MC_ZC
    MaxReq <- MC_MaxReq
    MaxErrors <- MC_MaxErrors
    MaxEofs <- MC_MaxEofs
SPECIFICATION Spec
CHECK_DEADLOCK FALSE
INVARIANT EofBeforeTrailer
