\* Two files to load, two requests at a time, a server that comes and goes.
SPECIFICATION Spec
CONSTANTS
    c1 = c1
    c2 = c2
    l1 = l1
    l2 = l2
    Clients = {c1, c2}
    Loads = {l1, l2}
    Server = Server
    Nobody = Nobody
    Texts <- MCTexts
    MaxCopies = 2
SYMMETRY IngestSymmetry
INVARIANTS
    TypeOK
    LoadsCount
    CheckStillTrue
    DryRunsChangeNothing
    
    AcceptedIsValid
    LoweredWhole
