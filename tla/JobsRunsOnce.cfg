\* Two inserts of one id in flight together: both run the query.
SPECIFICATION Spec
CONSTANTS
    h1 = h1
    h2 = h2
    h3 = h3
    Handlers = {h1, h2}
    NoHandler = NoHandler
    ClientIds = {9}
    MaxGenerated = 2
    MaxRuns = 2
    MaxRestarts = 0
    Disconnects = FALSE
    Overlap = TRUE
INVARIANT
    RunsOncePerProcess
