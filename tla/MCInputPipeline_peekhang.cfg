CONSTANTS
    Src <- MC_Src
    BufSize <- MC_BufSize
    ZC <- MC_ZC
    PeekSize <- MC_PeekSize
    MaxReq <- MC_MaxReq
    MaxErrors <- MC_MaxErrors
    LimitValues <- MC_LimitValues
    NLs <- MC_NLs
    LineMax <- MC_LineMax
    LineChunk <- MC_LineChunk
    LineBig <- MC_LineBig
SPECIFICATION Spec
PROPERTY PeekReturns
