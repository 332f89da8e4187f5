------------------------------- MODULE Daemon -------------------------------
(***************************************************************************)
(* The commands "localbq up -d", "stop" and "status" and the servers they  *)
(* start, find and end: cmd/localbq/daemon.go and main.go.                 *)
(*                                                                         *)
(* A command is a process that knows of a server only what the PID file    *)
(* says; a step is one system call of it, or one of a server.  The         *)
(* database is DuckDB's file, which one process at a time can open.        *)
(*                                                                         *)
(* A child that exits stays a zombie while the command that started it     *)
(* lives, for that command never waits for it; afterwards init reaps it.   *)
(***************************************************************************)
EXTENDS FiniteSets

CONSTANTS
    Callers,        \* shells in which commands are given
    NoCaller,       \* the parent of a process whose starter has exited
    Pids,           \* bound: processes at one time; a pid is given out again
    NoFile,         \* there is no PID file
    Blank,          \* the PID file is empty: WriteFile has only truncated it
    NoPid,
    Overlap         \* the commands that may be given while others of them run

ASSUME CallersAssumption == NoCaller \notin Callers
ASSUME PidsAssumption ==
    /\ Pids \cap {NoFile, Blank, NoPid} = {}
    /\ Cardinality({NoFile, Blank, NoPid}) = 3
ASSUME OverlapAssumption == Overlap \subseteq {"up", "stop", "status"}

VARIABLES
    file,           \* localbq.pid
    proc,           \* what runs under each pid
    parent,         \* the command that started it and still runs
    pc,             \* the next step of the command in each shell
    op,             \* its name
    found,          \* the pid it has read from the PID file
    child,          \* the process it has started
    reply,          \* history: what the last step told a user, about which pid
    unnamed         \* history: servers that nobody finished a PID file for

vars == <<file, proc, parent, pc, op, found, child, reply, unnamed>>

\* "free" is a pid nobody has; a stranger is a process localbq did not start.
Kinds == {"free", "stranger", "booting", "serving", "stopping", "zombie"}
\* A server nobody has asked to stop.
Wanted == {"booting", "serving"}
Ops == {"none", "up", "stop", "status"}
Steps == {"idle", "read", "probe", "removeStale", "spawn", "truncate", "write", "look",
          "signal", "await", "remove"}
Replies == {"nothing", "alreadyRunning", "started", "exited", "notRunning", "running",
            "stopped", "failed"}
NoReply == [said |-> "nothing", pid |-> NoPid]

TypeOK ==
    /\ file \in Pids \cup {NoFile, Blank}
    /\ proc \in [Pids -> Kinds]
    /\ parent \in [Pids -> Callers \cup {NoCaller}]
    /\ pc \in [Callers -> Steps]
    /\ op \in [Callers -> Ops]
    /\ found \in [Callers -> Pids \cup {NoPid}]
    /\ child \in [Callers -> Pids \cup {NoPid}]
    /\ reply \in [said : Replies, pid : Pids \cup {NoPid}]
    /\ unnamed \in SUBSET Pids

Init ==
    /\ file = NoFile
    /\ proc = [p \in Pids |-> "free"]
    /\ parent = [p \in Pids |-> NoCaller]
    /\ pc = [c \in Callers |-> "idle"]
    /\ op = [c \in Callers |-> "none"]
    /\ found = [c \in Callers |-> NoPid]
    /\ child = [c \in Callers |-> NoPid]
    /\ reply = NoReply
    /\ unnamed = {}

-----------------------------------------------------------------------------
(* Helpers *)

Goto(c, step) == pc' = [pc EXCEPT ![c] = step]
Silent == reply' = NoReply
Proceed(c, step) == Goto(c, step) /\ Silent /\ UNCHANGED <<parent, op, found, child>>

\* What becomes of process p when it exits.
Remains(p) == IF parent[p] = NoCaller THEN "free" ELSE "zombie"
Exit(p) == proc' = [proc EXCEPT ![p] = Remains(p)]

\* Command c ends; its children have no parent any more, and dead ones are reaped.
End(c) ==
    /\ Goto(c, "idle")
    /\ op' = [op EXCEPT ![c] = "none"]
    /\ found' = [found EXCEPT ![c] = NoPid]
    /\ child' = [child EXCEPT ![c] = NoPid]
    /\ parent' = [p \in Pids |-> IF parent[p] = c THEN NoCaller ELSE parent[p]]
Reap(c) ==
    proc' = [p \in Pids |-> IF parent[p] = c /\ proc[p] = "zombie" THEN "free" ELSE proc[p]]

\* It tells its user of process p.
Done(c, what, p) == End(c) /\ Reap(c) /\ reply' = [said |-> what, pid |-> p]

\* Signal 0 succeeds, for zombies as well.  Mutant: only a server that answers
\* on its port counts.
Responds(p) == proc[p] \in {"serving", "stranger"}
Alive(p) == proc[p] # "free"

\* daemonRunning returned false: "up -d" goes on, the other commands end.
NotRunning(c) ==
    IF op[c] = "up" THEN Proceed(c, "spawn") /\ UNCHANGED proc
                    ELSE Done(c, "notRunning", NoPid)

-----------------------------------------------------------------------------
(* Steps of a command *)

\* Every command asks daemonRunning first.  Mutant: "up -d" does not.
UncheckedStep(o) == IF o = "up" THEN "spawn" ELSE "read"
FirstStep(o) == "read"
Call(c, o) ==
    /\ pc[c] = "idle"
    /\ \A d \in Callers : pc[d] # "idle" => {o, op[d]} \subseteq Overlap
    /\ Goto(c, FirstStep(o))
    /\ op' = [op EXCEPT ![c] = o]
    /\ Silent
    /\ UNCHANGED <<file, proc, parent, found, child, unnamed>>

\* daemonRunning reads the PID file; an empty one is no number.
Read(c) ==
    /\ pc[c] = "read"
    /\ \/ /\ file \in Pids
          /\ found' = [found EXCEPT ![c] = file]
          /\ Goto(c, "probe")
          /\ Silent
          /\ UNCHANGED <<proc, parent, op, child>>
       \/ file \notin Pids /\ NotRunning(c)
    /\ UNCHANGED <<file, unnamed>>

\* daemonRunning signals the process; the signal may be refused for a stranger.
Probe(c) ==
    LET p == found[c]
    IN  /\ pc[c] = "probe"
        /\ \/ /\ Alive(p)
              /\ \/ op[c] = "up" /\ Done(c, "alreadyRunning", p)
                 \/ op[c] = "stop" /\ Proceed(c, "signal") /\ UNCHANGED proc
                 \/ op[c] = "status" /\ Done(c, "running", p)
           \/ /\ ~ Alive(p) \/ proc[p] = "stranger"
              /\ Proceed(c, "removeStale")
              /\ UNCHANGED proc
        /\ UNCHANGED <<file, unnamed>>

RemoveStale(c) ==
    /\ pc[c] = "removeStale"
    /\ file' = NoFile
    /\ NotRunning(c)
    /\ UNCHANGED unnamed

\* "up -d" starts a child, or fails to.
Spawn(c) ==
    /\ pc[c] = "spawn"
    /\ \/ \E p \in Pids :
             /\ proc[p] = "free"
             /\ proc' = [proc EXCEPT ![p] = "booting"]
             /\ parent' = [parent EXCEPT ![p] = c]
             /\ child' = [child EXCEPT ![c] = p]
             /\ unnamed' = unnamed \ {p}
             /\ Goto(c, "truncate")
             /\ Silent
             /\ UNCHANGED <<op, found>>
       \/ Done(c, "failed", NoPid) /\ UNCHANGED unnamed
    /\ UNCHANGED file

\* WriteFile truncates and then writes; a failure of either is only a warning.
Truncate(c) ==
    /\ pc[c] = "truncate"
    /\ \/ file' = Blank /\ Proceed(c, "write") /\ UNCHANGED unnamed
       \/ UNCHANGED file /\ Proceed(c, "look") /\ unnamed' = unnamed \cup {child[c]}
    /\ UNCHANGED proc

\* The pid that goes into the file.  Mutant: the command's own.
OwnPid(c) == c
PidOf(c) == child[c]
Write(c) ==
    /\ pc[c] = "write"
    /\ \/ file' = PidOf(c) /\ UNCHANGED unnamed
       \/ UNCHANGED file /\ unnamed' = unnamed \cup {child[c]}
    /\ Proceed(c, "look")
    /\ UNCHANGED proc

\* After half a second it looks whether the child is still there.
Look(c) ==
    /\ pc[c] = "look"
    /\ Done(c, IF Alive(child[c]) THEN "started" ELSE "exited", child[c])
    /\ UNCHANGED <<file, unnamed>>

\* "stop" sends SIGTERM.  A server that has not opened the database yet dies of it,
\* a stopping one ignores it; a stranger dies, survives or may not be signalled.
Signal(c) ==
    LET p == found[c]
    IN  /\ pc[c] = "signal"
        /\ \/ proc[p] = "booting" /\ Exit(p) /\ Proceed(c, "await")
           \/ /\ proc[p] = "serving"
              /\ proc' = [proc EXCEPT ![p] = "stopping"]
              /\ Proceed(c, "await")
           \/ proc[p] \in {"stopping", "zombie"} /\ Proceed(c, "await") /\ UNCHANGED proc
           \/ /\ proc[p] = "stranger"
              /\ proc' \in {proc, [proc EXCEPT ![p] = "free"]}
              /\ Proceed(c, "await")
           \/ proc[p] \in {"free", "stranger"} /\ Done(c, "failed", p)
        /\ UNCHANGED <<file, unnamed>>

\* It waits until the process is gone, or for three seconds, and tells no difference.
Await(c) ==
    /\ pc[c] = "await"
    /\ Proceed(c, "remove")
    /\ UNCHANGED <<file, proc, unnamed>>

Remove(c) ==
    /\ pc[c] = "remove"
    /\ file' = NoFile
    /\ Done(c, "stopped", found[c])
    /\ UNCHANGED unnamed

\* The user interrupts the command.
Interrupt(c) ==
    /\ pc[c] # "idle"
    /\ End(c)
    /\ Reap(c)
    /\ Silent
    /\ unnamed' = IF pc[c] \in {"truncate", "write"} THEN unnamed \cup {child[c]} ELSE unnamed
    /\ UNCHANGED file

-----------------------------------------------------------------------------
(* Servers and other processes *)

others == <<file, parent, pc, op, found, child>>

\* main opens the database, or exits because another process has it.
Open(p) ==
    /\ proc[p] = "booting"
    /\ IF \E q \in Pids : proc[q] \in {"serving", "stopping"}
       THEN Exit(p)
       ELSE proc' = [proc EXCEPT ![p] = "serving"]
    /\ Silent
    /\ UNCHANGED <<others, unnamed>>

\* ^C in its terminal, or a SIGTERM of somebody else.
Quit(p) ==
    /\ proc[p] = "serving"
    /\ proc' = [proc EXCEPT ![p] = "stopping"]
    /\ Silent
    /\ UNCHANGED <<others, unnamed>>

\* Shutdown and Close are over: Close waits for the statement that runs.
ShutDown(p) ==
    /\ proc[p] = "stopping"
    /\ Exit(p)
    /\ Silent
    /\ UNCHANGED <<others, unnamed>>

\* A failed start-up, a taken port, a kill.
Crash(p) ==
    /\ proc[p] \in {"booting", "serving", "stopping"}
    /\ Exit(p)
    /\ Silent
    /\ UNCHANGED <<others, unnamed>>

\* "localbq up" in a terminal has no PID file.
Foreground(p) ==
    /\ proc[p] = "free"
    /\ proc' = [proc EXCEPT ![p] = "booting"]
    /\ unnamed' = unnamed \cup {p}
    /\ Silent
    /\ UNCHANGED others

\* A free pid goes to a process of somebody else, which ends some time.
Stranger(p) ==
    /\ \/ proc[p] = "free" /\ proc' = [proc EXCEPT ![p] = "stranger"]
       \/ proc[p] = "stranger" /\ proc' = [proc EXCEPT ![p] = "free"]
    /\ Silent
    /\ UNCHANGED <<others, unnamed>>

Step(c) ==
    \/ Read(c) \/ Probe(c) \/ RemoveStale(c)
    \/ Spawn(c) \/ Truncate(c) \/ Write(c) \/ Look(c)
    \/ Signal(c) \/ Await(c) \/ Remove(c)

Next ==
    \/ \E c \in Callers : Step(c) \/ Interrupt(c)
    \/ \E c \in Callers : \E o \in {"up", "stop", "status"} : Call(c, o)
    \/ \E p \in Pids :
          \/ Open(p) \/ Quit(p) \/ ShutDown(p) \/ Crash(p)
          \/ Foreground(p) \/ Stranger(p)

Spec == Init /\ [][Next]_vars

-----------------------------------------------------------------------------
(* Properties, where no other command runs while "up -d" does *)

Background(p) == proc[p] \in Wanted /\ p \notin unnamed

\* But for a running "up -d", the PID file names the background server, if there is one
\* that nobody has asked to stop: none is lost to "stop" and "status", however these
\* overlap, whatever crashes, and whatever process has got an old pid.
ServerNamed ==
    (\A c \in Callers : op[c] # "up") =>
        \A p \in Pids : Background(p) => file = p

\* "LocalBQ is not running" is true of every background server with a PID file.
NotRunningTrue ==
    reply.said = "notRunning" => \A p \in Pids : ~ Background(p)

-----------------------------------------------------------------------------
(* What the code says, and does not do *)

\* daemon.go:69-72: "Wait briefly and check if process is still alive", "daemon exited
\* immediately": a child that has exited by then is not reported as started.
StartedIsAlive ==
    reply.said = "started" => proc[reply.pid] \in {"booting", "serving", "stopping"}
=============================================================================
