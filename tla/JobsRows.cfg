\* A restart starts the numbering of generated ids again.
SPECIFICATION Spec
CONSTANTS
    h1 = h1
    h2 = h2
    h3 = h3
    Handlers = {h1, h2}
    NoHandler = NoHandler
    ClientIds = {9}
    MaxGenerated = 2
    MaxRuns = 2
    MaxRestarts = 1
    Disconnects = FALSE
    Overlap = FALSE
INVARIANT
    AnsweredRunsHaveRows
