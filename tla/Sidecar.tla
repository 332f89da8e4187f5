------------------------------ MODULE Sidecar ------------------------------
(***************************************************************************)
(* The manager of the googlesql child process: internal/googlesql/         *)
(* sidecar.go, in one process of the server.                               *)
(*                                                                         *)
(* Start, Stop and Port hold Sidecar.mu from beginning to end, while the   *)
(* child they deal with does what it likes, and while the context of the   *)
(* call may end.  A step is one thing a call does or waits for.            *)
(*                                                                         *)
(* A child is a slot, free again once the manager has waited for it.  What *)
(* it writes after the port line nobody reads; a child that blocks on its  *)
(* full pipe is one that does not answer its health check.                 *)
(***************************************************************************)
CONSTANTS
    Callers,        \* goroutines that call the manager
    Children,       \* bound: child processes at one time
    None            \* no caller, no child, a nil pointer, port 0

ASSUME CallersAssumption == None \notin Callers
ASSUME ChildrenAssumption == None \notin Children

VARIABLES
    \* Memory of the server process.
    mu,             \* the caller that holds Sidecar.mu
    cmd,            \* Sidecar.cmd: the child
    conn,           \* Sidecar.conn: the child it leads to
    port,           \* Sidecar.port: the child that listens there
    \* One call per goroutine.
    pc,             \* its next step
    op,             \* its name
    after,          \* where it goes on after stopLocked
    live,           \* its context has not ended
    \* The child processes.
    proc,
    line,           \* the line with the port, as the child has printed it
    \* History.
    reply           \* what the last step returned to its caller

manager == <<mu, cmd, conn, port>>
call == <<pc, op, after, live>>
vars == <<manager, call, proc, line, reply>>

Ops == {"none", "start", "stop", "port"}
Steps == {"idle", "lock", "check", "close", "wait", "spawn", "readPort", "dial", "health",
          "return"}
Sequels == {"none", "spawn", "failed", "stopped"}
Kinds == {"absent", "starting", "serving", "ill", "zombie"}
Lines == {"none", "port", "bad"}
Replies == {"nothing", "conn", "failed", "stopped", "port"}
NoReply == [said |-> "nothing", child |-> None]
MaybeChild == Children \cup {None}

TypeOK ==
    /\ mu \in Callers \cup {None}
    /\ cmd \in MaybeChild
    /\ conn \in MaybeChild
    /\ port \in MaybeChild
    /\ pc \in [Callers -> Steps]
    /\ op \in [Callers -> Ops]
    /\ after \in [Callers -> Sequels]
    /\ live \in [Callers -> BOOLEAN]
    /\ proc \in [Children -> Kinds]
    /\ line \in [Children -> Lines]
    /\ reply \in [said : Replies, child : MaybeChild]

Init ==
    /\ mu = None /\ cmd = None /\ conn = None /\ port = None
    /\ pc = [c \in Callers |-> "idle"]
    /\ op = [c \in Callers |-> "none"]
    /\ after = [c \in Callers |-> "none"]
    /\ live = [c \in Callers |-> TRUE]
    /\ proc = [k \in Children |-> "absent"]
    /\ line = [k \in Children |-> "none"]
    /\ reply = NoReply

-----------------------------------------------------------------------------
(* Helpers *)

Goto(c, step) == pc' = [pc EXCEPT ![c] = step]
Silent == reply' = NoReply
Proceed(c, step) == Goto(c, step) /\ Silent /\ UNCHANGED <<mu, op, after, live>>

\* The call releases Sidecar.mu and returns.
Return(c, what, child) ==
    /\ mu' = None
    /\ Goto(c, "idle")
    /\ op' = [op EXCEPT ![c] = "none"]
    /\ after' = [after EXCEPT ![c] = "none"]
    /\ live' = [live EXCEPT ![c] = TRUE]
    /\ reply' = [said |-> what, child |-> child]

\* The call goes through stopLocked, and then to its sequel.
Stop(c, sequel) ==
    /\ Goto(c, "close")
    /\ after' = [after EXCEPT ![c] = sequel]
    /\ Silent
    /\ UNCHANGED <<mu, op, live>>
Continue(c) ==
    IF after[c] = "spawn" THEN Proceed(c, "spawn") ELSE Return(c, after[c], None)

-----------------------------------------------------------------------------
(* Calls *)

Call(c, o) ==
    /\ pc[c] = "idle"
    /\ Goto(c, "lock")
    /\ op' = [op EXCEPT ![c] = o]
    /\ Silent
    /\ UNCHANGED <<manager, after, live, proc, line>>

\* The wait for Sidecar.mu looks at no context.
Lock(c) ==
    /\ pc[c] = "lock"
    /\ mu = None
    /\ \/ /\ op[c] = "start"
          /\ mu' = c
          /\ Goto(c, "check")
          /\ Silent
          /\ UNCHANGED <<op, after, live>>
       \/ /\ op[c] = "stop"
          /\ mu' = c
          /\ Goto(c, "close")
          /\ after' = [after EXCEPT ![c] = "stopped"]
          /\ Silent
          /\ UNCHANGED <<op, live>>
       \/ op[c] = "port" /\ Return(c, "port", port)
    /\ UNCHANGED <<cmd, conn, port, proc, line>>

\* isHealthy: the child answers, within two seconds and within the call's context.
Healthy(c) == conn # None /\ proc[conn] = "serving" /\ live[c]

\* A running child is kept if it is healthy; any child may be too slow to say so.
Check(c) ==
    /\ pc[c] = "check"
    /\ \/ Healthy(c) /\ Proceed(c, "return")
       \/ Stop(c, "spawn")
    /\ UNCHANGED <<cmd, conn, port, proc, line>>

\* stopLocked closes the connection.  Mutant: the field keeps the closed one.
KeepConn(c) == UNCHANGED conn
DropConn(c) == conn' = None
\* It interrupts the child, if there is one.
Close(c) ==
    /\ pc[c] = "close"
    /\ DropConn(c)
    /\ IF cmd = None THEN port' = None /\ Continue(c)
                     ELSE UNCHANGED port /\ Proceed(c, "wait")
    /\ UNCHANGED <<cmd, proc, line>>

\* The child exits, or is killed after three seconds; it has been waited for.  Mutant:
\* a child that does not exit by itself is left alone.
LetGo(k) == proc' = IF proc[k] = "zombie" THEN [proc EXCEPT ![k] = "absent"] ELSE proc
Kill(k) == proc' = [proc EXCEPT ![k] = "absent"]
Wait(c) ==
    /\ pc[c] = "wait"
    /\ Kill(cmd)
    /\ line' = [line EXCEPT ![cmd] = "none"]
    /\ cmd' = None
    /\ port' = None
    /\ Continue(c)
    /\ UNCHANGED conn

\* Mutant: the new child is stored only once it serves.
NotYet(k) == UNCHANGED cmd
Remember(k) == cmd' = k

\* The binary is started, unless that fails or the call's context has ended.
Spawn(c) ==
    /\ pc[c] = "spawn"
    /\ \/ \E k \in Children :
             /\ live[c]
             /\ proc[k] = "absent"
             /\ proc' = [proc EXCEPT ![k] = "starting"]
             /\ Remember(k)
             /\ Proceed(c, "readPort")
       \/ Return(c, "failed", None) /\ UNCHANGED <<cmd, proc>>
    /\ UNCHANGED <<conn, port, line>>

\* The number in the line.  Mutant: the line itself is stored.
LineOf(c) == line[cmd]
PortOf(c) == cmd

\* A bad line, the child's end, the timeout or the end of the context: Start fails.
ReadPort(c) ==
    /\ pc[c] = "readPort"
    /\ \/ line[cmd] = "port" /\ port' = PortOf(c) /\ Proceed(c, "dial")
       \/ Stop(c, "failed") /\ UNCHANGED port
    /\ UNCHANGED <<cmd, conn, proc, line>>

\* Mutant: Start returns without stopLocked.
JustReturn(c) == Return(c, "failed", None)
Abandon(c) == Stop(c, "failed")
Dial(c) ==
    /\ pc[c] = "dial"
    /\ \/ conn' = port /\ Proceed(c, "health")
       \/ Abandon(c) /\ UNCHANGED conn
    /\ UNCHANGED <<cmd, port, proc, line>>

\* waitHealthy gives up when its context ends or the timeout is over, which may be at
\* any time.  Mutant: only when the child has gone.
WhenGone(c) == proc[cmd] = "zombie"
MayGiveUp(c) == TRUE
WaitHealthy(c) ==
    /\ pc[c] = "health"
    /\ \/ Healthy(c) /\ Proceed(c, "return")
       \/ MayGiveUp(c) /\ Stop(c, "failed")
    /\ UNCHANGED <<cmd, conn, port, proc, line>>

ReturnConn(c) ==
    /\ pc[c] = "return"
    /\ Return(c, "conn", conn)
    /\ UNCHANGED <<cmd, conn, port, proc, line>>

-----------------------------------------------------------------------------
(* Contexts and children *)

\* The caller goes away: a call of Start goes on with a context that has ended.
Cancel(c) ==
    /\ op[c] = "start"
    /\ live[c]
    /\ live' = [live EXCEPT ![c] = FALSE]
    /\ Silent
    /\ UNCHANGED <<manager, pc, op, after, proc, line>>

Announce(k) ==
    /\ proc[k] = "starting"
    /\ line[k] = "none"
    /\ \E l \in {"port", "bad"} : line' = [line EXCEPT ![k] = l]
    /\ Silent
    /\ UNCHANGED <<manager, call, proc>>

\* A child gets ready to serve, stops to answer, and may recover.
Turn(k) ==
    /\ \/ /\ (proc[k] = "starting" /\ line[k] = "port") \/ proc[k] = "ill"
          /\ proc' = [proc EXCEPT ![k] = "serving"]
       \/ proc[k] = "serving" /\ proc' = [proc EXCEPT ![k] = "ill"]
    /\ Silent
    /\ UNCHANGED <<manager, call, line>>

\* It exits: by itself, on stopLocked's interrupt, or killed because the context of
\* the call that started it has ended, long after that call may have returned.
Exit(k) ==
    /\ proc[k] \in {"starting", "serving", "ill"}
    /\ proc' = [proc EXCEPT ![k] = "zombie"]
    /\ Silent
    /\ UNCHANGED <<manager, call, line>>

Serve(c) ==
    \/ Lock(c) \/ Check(c) \/ Close(c) \/ Wait(c) \/ Spawn(c)
    \/ ReadPort(c) \/ Dial(c) \/ WaitHealthy(c) \/ ReturnConn(c)

Next ==
    \/ \E c \in Callers : Serve(c) \/ Cancel(c)
    \/ \E c \in Callers : \E o \in {"start", "stop", "port"} : Call(c, o)
    \/ \E k \in Children : Announce(k) \/ Turn(k) \/ Exit(k)

Spec == Init /\ [][Next]_vars

\* Every wait of a call ends by a timer, and Go's Mutex lets every waiter in.
FairSpec == Spec /\ \A c \in Callers : SF_vars(Serve(c))

-----------------------------------------------------------------------------
(* Properties *)

\* No child is lost: one that runs, or has exited and was not waited for, is the one
\* the manager knows, so that there is at most one.
NoStray == \A k \in Children : proc[k] # "absent" => cmd = k

\* Between calls the process, the connection and the port belong together, or there is
\* none of them, whatever timed out, failed or died before.
AllOrNothing == mu = None => conn = cmd /\ port = cmd

\* A Start that failed, and a Stop, leave no process, dead or alive, behind.
EndsClean ==
    reply.said \in {"failed", "stopped"} => \A k \in Children : proc[k] = "absent"

\* The child whose connection the manager has or gives up as one that served: not the
\* one whose start is still going on, or has failed.
Untried(c) == pc[c] = "health" \/ (pc[c] = "close" /\ after[c] = "failed")
serving == IF \E c \in Callers : Untried(c) THEN None ELSE conn

Service == INSTANCE SidecarService WITH current <- serving, answer <- reply

\* Overlapping calls are answered as if each took effect at one moment, of one child
\* or none: no caller gets the connection or the port of one that never served.
ImplementsService == Service!Spec

\* Every call returns, whatever the child does and whoever else calls.
CallsReturn == \A c \in Callers : pc[c] # "idle" ~> pc[c] = "idle"
============================================================================
