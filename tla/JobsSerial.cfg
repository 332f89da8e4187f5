\* Clients that retry an insert only after the call before it has ended; fairness,
\* so no symmetry.
SPECIFICATION FairSpec
CONSTANTS
    h1 = h1
    h2 = h2
    h3 = h3
    Handlers = {h1, h2}
    NoHandler = NoHandler
    ClientIds = {9}
    MaxGenerated = 2
    MaxRuns = 2
    MaxRestarts = 1
    Disconnects = TRUE
    Overlap = FALSE
INVARIANTS
    RunsOncePerProcess
    RetriesToldOutcome
PROPERTIES
    ImplementsLedger
    RequestsAnswered
