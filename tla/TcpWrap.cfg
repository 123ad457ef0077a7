SPECIFICATION ReassemblySpec
CONSTANTS
    Space = 16
    OooCap = 2
    Nil = Nil
    Isns = {12}
    StreamLen = 5
    MaxSeg = 2
INVARIANTS
    NothingStranded
