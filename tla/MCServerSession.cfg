CONSTANTS
    k1 = k1
    k2 = k2
    Empty = Empty
    Keys <- MC_Keys
    EncTo <- MC_EncTo
    Values <- MC_Values
    MaxFds = 3
    DefaultInclude <- MC_DefaultInclude
SPECIFICATION Spec
INVARIANTS TypeOK DescriptorUsedOnce
CHECK_DEADLOCK FALSE
