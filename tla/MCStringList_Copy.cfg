CONSTANTS
    a1 = a1
    a2 = a2
    a3 = a3
    a4 = a4
    Null = Null
    Addr <- MC_Addr4
    Words <- MC_Words
    Inputs <- MC_Inputs
    Delim = {","}
    Space = {" "}
SPECIFICATION SpecWithCopy
PROPERTY Refines
