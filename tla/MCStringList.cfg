CONSTANTS
    a1 = a1
    a2 = a2
    a3 = a3
    a4 = a4
    Null = Null
    Addr <- MC_Addr
    Words <- MC_Words
    Inputs <- MC_Inputs
    Delim = {","}
    Space = {" "}
SPECIFICATION Spec
INVARIANTS TypeOK HeapExact
PROPERTY Refines
