\* Two shells that may stop and look at the same time, but start a server only alone;
\* servers that crash or were started in a terminal, PID files that cannot be written,
\* and pids given out again.
SPECIFICATION Spec
CONSTANTS
    c1 = c1
    c2 = c2
    p1 = p1
    p2 = p2
    p3 = p3
    Callers = {c1, c2}
    NoCaller = NoCaller
    Pids = {p1, p2, p3}
    NoFile = NoFile
    Blank = Blank
    NoPid = NoPid
    Overlap = {"stop", "status"}
SYMMETRY DaemonSymmetry
INVARIANTS
    TypeOK
    ServerNamed
    NotRunningTrue
