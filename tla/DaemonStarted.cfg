\* One command at a time: is a server that "up -d" reports as started there?
SPECIFICATION Spec
CONSTANTS
    c1 = c1
    c2 = c2
    p1 = p1
    p2 = p2
    p3 = p3
    Callers = {c1, c2}
    NoCaller = NoCaller
    Pids = {p1, p2, p3}
    NoFile = NoFile
    Blank = Blank
    NoPid = NoPid
    Overlap = {}
INVARIANT
    StartedIsAlive
