\* Nobody may want to connect any more: the threads then wait for ever.
CONSTANTS
    Servers = {s1, s2}
    IdModulus = 8
    MaxId = 4
SPECIFICATION Spec
SYMMETRY Symmetry
CHECK_DEADLOCK FALSE
INVARIANTS
    TypeOK
    IdsUniqueUnlessRaced
