\* Three callers of Start, Stop and Port and a child that does what it likes; fairness,
\* so no symmetry.
SPECIFICATION FairSpec
CONSTANTS
    c1 = c1
    c2 = c2
    c3 = c3
    k1 = k1
    k2 = k2
    Callers = {c1, c2, c3}
    Children = {k1, k2}
    None = None
INVARIANTS
    TypeOK
    AllOrNothing
    EndsClean
    NoStray
PROPERTIES
    ImplementsService
    CallsReturn
