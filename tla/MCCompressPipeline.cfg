CONSTANTS
    Data <- MC_Data
    BufSize = 8
    ZC = 4
    MinPow = 1
    MaxReq = 9
    Lower = "output"
    BS = 3
    HashLen = 2
    RandBytes = {0, 5}
    Algos = {7, 110}
    CAlgos = {1, 2}
    OutSize = 3
    EmitAt = 4
    InBufSize = 3
    ReadSize = 2
SPECIFICATION CSpec
INVARIANTS CTypeOK ReadBack NoAbort WellFramed Decrypts
PROPERTY CRefines
\* The writer stops once the chain is popped or closed, the reader at EOF.
CHECK_DEADLOCK FALSE
