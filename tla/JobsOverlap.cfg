\* Everything at once: overlapping inserts of one id, clients that go away, a
\* restart, and a client id that equals a generated one.
SPECIFICATION Spec
CONSTANTS
    h1 = h1
    h2 = h2
    h3 = h3
    Handlers = {h1, h2, h3}
    NoHandler = NoHandler
    ClientIds = {2}
    MaxGenerated = 2
    MaxRuns = 2
    MaxRestarts = 1
    Disconnects = TRUE
    Overlap = TRUE
SYMMETRY HandlerSymmetry
INVARIANTS
    TypeOK
    RetryAdopts
    GeneratedJobsPrivate
    OutcomeBelongsToId
    NoOrphanRunning
    FinishedJobsAnswer
    AnswersAreTrue
    RowsAreOfFinishedRuns
