--------------------------- MODULE Daemon_proofs ---------------------------
(* Proofs about module Daemon: no server is lost where "up -d" runs alone. *)
EXTENDS Daemon, TLAPS

\* A command that is about to write the PID file, or has, knows its child.
Tracked ==
    \A c \in Callers : pc[c] \in {"truncate", "write", "look"} => child[c] \in Pids

TypeInv == TypeOK /\ Tracked

\* The first state of the program is well typed.
LEMMA TypeInit == Init => TypeInv
  BY PidsAssumption
  DEF Init, TypeInv, TypeOK, Tracked, Kinds, Steps, Ops, Replies, NoReply

\* A step that leaves where every command is, and its child, leaves Tracked.
LEMMA TrackedFrame == ASSUME Tracked, UNCHANGED <<pc, child>> PROVE Tracked'
  BY DEF Tracked

\* A command that ends keeps every other command's child.
LEMMA EndTyped ==
    ASSUME TypeInv, NEW c \in Callers, End(c)
    PROVE  /\ parent' \in [Pids -> Callers \cup {NoCaller}]
           /\ pc' \in [Callers -> Steps]
           /\ op' \in [Callers -> Ops]
           /\ found' \in [Callers -> Pids \cup {NoPid}]
           /\ child' \in [Callers -> Pids \cup {NoPid}]
           /\ Tracked'
  <1>1. /\ parent' \in [Pids -> Callers \cup {NoCaller}]
        /\ found' \in [Callers -> Pids \cup {NoPid}]
        /\ child' \in [Callers -> Pids \cup {NoPid}]
    BY DEF TypeInv, TypeOK, End
  <1>2. /\ pc' \in [Callers -> Steps]
        /\ op' \in [Callers -> Ops]
    BY DEF TypeInv, TypeOK, End, Goto, Steps, Ops
  <1>3. Tracked'
    BY DEF TypeInv, TypeOK, Tracked, End, Goto
  <1> QED BY <1>1, <1>2, <1>3

\* A command that answers keeps the types.
LEMMA DoneTyped ==
    ASSUME TypeInv, NEW c \in Callers, NEW what \in Replies, NEW p \in Pids \cup {NoPid},
           Done(c, what, p), file' \in Pids \cup {NoFile, Blank}, unnamed' \in SUBSET Pids
    PROVE  TypeInv'
  <1>1. proc' \in [Pids -> Kinds]
    BY DEF Done, Reap, TypeInv, TypeOK, Kinds
  <1>2. reply' \in [said : Replies, pid : Pids \cup {NoPid}]
    BY DEF Done
  <1> QED BY <1>1, <1>2, EndTyped DEF Done, TypeInv, TypeOK

\* A command that goes on to a step keeps the types, if it knows its child by then.
LEMMA ProceedTyped ==
    ASSUME TypeInv, NEW c \in Callers, NEW step \in Steps,
           Proceed(c, step),
           step \in {"truncate", "write", "look"} => child[c] \in Pids,
           file' \in Pids \cup {NoFile, Blank}, proc' \in [Pids -> Kinds],
           unnamed' \in SUBSET Pids
    PROVE  TypeInv'
  <1>1. pc' \in [Callers -> Steps]
    BY DEF TypeInv, TypeOK, Proceed, Goto
  <1>2. reply' \in [said : Replies, pid : Pids \cup {NoPid}]
    BY DEF Proceed, Silent, NoReply, Replies
  <1>3. Tracked'
    BY DEF TypeInv, TypeOK, Tracked, Proceed, Goto
  <1> QED BY <1>1, <1>2, <1>3 DEF TypeInv, TypeOK, Proceed

\* daemonRunning's "no" keeps the types.
LEMMA NotRunningTyped ==
    ASSUME TypeInv, NEW c \in Callers, NotRunning(c),
           file' \in Pids \cup {NoFile, Blank}, UNCHANGED unnamed
    PROVE  TypeInv'
  <1>1. CASE op[c] = "up"
    BY <1>1, ProceedTyped DEF NotRunning, TypeInv, TypeOK, Steps
  <1>2. CASE op[c] # "up"
    BY <1>2, DoneTyped DEF NotRunning, TypeInv, TypeOK, Replies
  <1> QED BY <1>1, <1>2

\* What a process that exits becomes is a kind of process.
LEMMA ExitTyped ==
    ASSUME TypeInv, NEW p \in Pids, Exit(p)
    PROVE  proc' \in [Pids -> Kinds]
  BY DEF Exit, Remains, TypeInv, TypeOK, Kinds

\* Every step of a command keeps the types.
LEMMA StepTyped == ASSUME TypeInv, NEW c \in Callers, Step(c) PROVE TypeInv'
  <1>t. /\ file \in Pids \cup {NoFile, Blank}
        /\ proc \in [Pids -> Kinds]
        /\ parent \in [Pids -> Callers \cup {NoCaller}]
        /\ pc \in [Callers -> Steps]
        /\ op \in [Callers -> Ops]
        /\ found \in [Callers -> Pids \cup {NoPid}]
        /\ child \in [Callers -> Pids \cup {NoPid}]
        /\ unnamed \in SUBSET Pids
        /\ found[c] \in Pids \cup {NoPid}
        /\ child[c] \in Pids \cup {NoPid}
    BY DEF TypeInv, TypeOK
  <1>1. CASE Read(c)
    <2>1. CASE file \in Pids /\ ~ NotRunning(c)
      <3>1. /\ found' = [found EXCEPT ![c] = file]
            /\ Goto(c, "probe") /\ Silent
            /\ UNCHANGED <<file, unnamed, proc, parent, op, child>>
        BY <1>1, <2>1 DEF Read
      <3>2. pc' \in [Callers -> Steps] /\ found' \in [Callers -> Pids \cup {NoPid}]
        BY <1>t, <2>1, <3>1 DEF Goto, Steps
      <3>3. Tracked'
        BY <1>t, <3>1 DEF TypeInv, Tracked, Goto
      <3>4. reply' \in [said : Replies, pid : Pids \cup {NoPid}]
        BY <3>1 DEF Silent, NoReply, Replies
      <3> QED BY <1>t, <3>1, <3>2, <3>3, <3>4 DEF TypeInv, TypeOK
    <2>2. CASE file \in Pids /\ NotRunning(c)
      BY <1>1, <1>t, <2>2, NotRunningTyped DEF Read
    <2>3. CASE file \notin Pids
      BY <1>1, <1>t, <2>3, NotRunningTyped DEF Read
    <2> QED BY <2>1, <2>2, <2>3
  <1>2. CASE Probe(c)
    <2>1. CASE \E what \in {"alreadyRunning", "running"} : Done(c, what, found[c])
      BY <1>2, <1>t, <2>1, DoneTyped DEF Probe, Replies
    <2>2. CASE \E step \in {"signal", "removeStale"} : Proceed(c, step) /\ UNCHANGED proc
      BY <1>2, <1>t, <2>2, ProceedTyped DEF Probe, Steps
    <2> QED BY <1>2, <2>1, <2>2 DEF Probe
  <1>3. CASE RemoveStale(c)
    BY <1>3, <1>t, NotRunningTyped DEF RemoveStale
  <1>4. CASE Spawn(c)
    <2>1. CASE Done(c, "failed", NoPid) /\ UNCHANGED unnamed
      BY <1>4, <1>t, <2>1, DoneTyped DEF Spawn, Replies
    <2>2. ASSUME NEW p \in Pids,
                 proc' = [proc EXCEPT ![p] = "booting"],
                 parent' = [parent EXCEPT ![p] = c],
                 child' = [child EXCEPT ![c] = p],
                 unnamed' = unnamed \ {p},
                 Goto(c, "truncate"), Silent, UNCHANGED <<op, found>>, UNCHANGED file
          PROVE  TypeInv'
      <3>1. /\ pc' \in [Callers -> Steps]
            /\ proc' \in [Pids -> Kinds]
            /\ parent' \in [Pids -> Callers \cup {NoCaller}]
            /\ child' \in [Callers -> Pids \cup {NoPid}]
            /\ unnamed' \in SUBSET Pids
        BY <1>t, <2>2 DEF Goto, Steps, Kinds
      <3>2. Tracked'
        BY <1>t, <2>2 DEF TypeInv, Tracked, Goto
      <3>3. reply' \in [said : Replies, pid : Pids \cup {NoPid}]
        BY <2>2 DEF Silent, NoReply, Replies
      <3> QED BY <1>t, <2>2, <3>1, <3>2, <3>3 DEF TypeInv, TypeOK
    <2> QED BY <1>4, <2>1, <2>2 DEF Spawn
  <1>5. CASE Truncate(c)
    <2>1. child[c] \in Pids
      BY <1>5 DEF Truncate, TypeInv, Tracked
    <2> QED BY <1>5, <1>t, <2>1, ProceedTyped DEF Truncate, Steps
  <1>6. CASE Write(c)
    <2>1. child[c] \in Pids
      BY <1>6 DEF Write, TypeInv, Tracked
    <2> QED BY <1>6, <1>t, <2>1, ProceedTyped DEF Write, PidOf, Steps
  <1>7. CASE Look(c)
    BY <1>7, <1>t, DoneTyped DEF Look, Replies
  <1>8. CASE Signal(c)
    <2>1. CASE Done(c, "failed", found[c])
      BY <1>8, <1>t, <2>1, DoneTyped DEF Signal, Replies
    <2>2. CASE Proceed(c, "await")
      <3>1. proc' \in [Pids -> Kinds]
        BY <1>8, <1>t, <2>2 DEF Signal, Exit, Remains, Kinds, Done, Reap
      <3> QED BY <1>8, <1>t, <2>2, <3>1, ProceedTyped DEF Signal, Steps
    <2> QED BY <1>8, <2>1, <2>2 DEF Signal
  <1>9. CASE Await(c)
    BY <1>9, <1>t, ProceedTyped DEF Await, Steps
  <1>10. CASE Remove(c)
    BY <1>10, <1>t, DoneTyped DEF Remove, Replies
  <1> QED
    BY <1>1, <1>2, <1>3, <1>4, <1>5, <1>6, <1>7, <1>8, <1>9, <1>10 DEF Step

\* So does every step of a server or of another process.
LEMMA WorldTyped ==
    ASSUME TypeInv, NEW p \in Pids,
           Open(p) \/ Quit(p) \/ ShutDown(p) \/ Crash(p) \/ Foreground(p) \/ Stranger(p)
    PROVE  TypeInv'
  <1>1. /\ UNCHANGED <<file, parent, pc, op, found, child>>
        /\ Silent
    BY DEF Open, Quit, ShutDown, Crash, Foreground, Stranger, others
  <1>2. unnamed' \in SUBSET Pids
    BY DEF Open, Quit, ShutDown, Crash, Foreground, Stranger, TypeInv, TypeOK
  <1>3. CASE Exit(p)
    BY <1>1, <1>2, <1>3, ExitTyped, TrackedFrame
    DEF TypeInv, TypeOK, Silent, NoReply, Replies
  <1>4. CASE \E k \in Kinds : proc' = [proc EXCEPT ![p] = k]
    BY <1>1, <1>2, <1>4, TrackedFrame DEF TypeInv, TypeOK, Silent, NoReply, Replies
  <1> QED
    BY <1>3, <1>4 DEF Open, Quit, ShutDown, Crash, Foreground, Stranger, Kinds

\* Every step of the specification keeps the types.
LEMMA TypeStep == TypeInv /\ [Next]_vars => TypeInv'
  <1> SUFFICES ASSUME TypeInv, [Next]_vars PROVE TypeInv'
    OBVIOUS
  <1>1. ASSUME NEW c \in Callers, Step(c) PROVE TypeInv'
    BY <1>1, StepTyped
  <1>2. ASSUME NEW c \in Callers, Interrupt(c) PROVE TypeInv'
    <2>1. proc' \in [Pids -> Kinds]
      BY <1>2 DEF Interrupt, Reap, TypeInv, TypeOK, Kinds
    <2>2. unnamed' \in SUBSET Pids
      BY <1>2 DEF Interrupt, TypeInv, TypeOK, Tracked
    <2>3. reply' \in [said : Replies, pid : Pids \cup {NoPid}]
      BY <1>2 DEF Interrupt, Silent, NoReply, Replies
    <2> QED BY <1>2, <2>1, <2>2, <2>3, EndTyped DEF Interrupt, TypeInv, TypeOK
  <1>3. ASSUME NEW c \in Callers, NEW o \in {"up", "stop", "status"}, Call(c, o)
        PROVE  TypeInv'
    <2>1. /\ pc' = [pc EXCEPT ![c] = "read"]
          /\ op' = [op EXCEPT ![c] = o]
          /\ reply' = NoReply
          /\ UNCHANGED <<file, proc, parent, found, child, unnamed>>
      BY <1>3 DEF Call, FirstStep, Goto, Silent
    <2>2. pc' \in [Callers -> Steps] /\ op' \in [Callers -> Ops]
      BY <2>1 DEF TypeInv, TypeOK, Steps, Ops
    <2>3. Tracked'
      BY <2>1 DEF TypeInv, TypeOK, Tracked
    <2> QED BY <2>1, <2>2, <2>3 DEF TypeInv, TypeOK, NoReply, Replies
  <1>4. CASE \E p \in Pids :
               Open(p) \/ Quit(p) \/ ShutDown(p) \/ Crash(p) \/ Foreground(p) \/ Stranger(p)
    BY <1>4, WorldTyped
  <1>5. CASE UNCHANGED vars
    BY <1>5 DEF vars, TypeInv, TypeOK, Tracked
  <1> QED BY <1>1, <1>2, <1>3, <1>4, <1>5 DEF Next

\* The state of the commands, of the servers and of the PID file is well typed, however
\* many commands run at once.
THEOREM TypeCorrect == Spec => []TypeOK
  <1>1. TypeInv => TypeOK
    BY DEF TypeInv
  <1> QED BY <1>1, TypeInit, TypeStep, PTL DEF Spec

-----------------------------------------------------------------------------
(* Commands that run while no other "up -d" does *)

\* The background servers nobody has asked to stop are those the PID file names; there
\* are none; there is none but process q.
Named == \A p \in Pids : Background(p) => file = p
NoServer == \A p \in Pids : ~ Background(p)
OnlyServer(q) == \A p \in Pids : Background(p) => p = q

\* What command c can rely on before each of its steps.
Knows(c) ==
    /\ pc[c] \in {"read", "probe", "signal", "look"} => Named
    /\ pc[c] \in {"probe", "signal"} => OnlyServer(found[c])
    /\ pc[c] \in {"removeStale", "spawn", "await", "remove"} => NoServer
    /\ pc[c] \in {"truncate", "write"} => OnlyServer(child[c])

\* An idle shell runs nothing, only "up -d" starts a server, and it runs alone.
Starting == {"spawn", "truncate", "write", "look"}
Alone ==
    /\ \A c \in Callers : pc[c] = "idle" <=> op[c] = "none"
    /\ \A c \in Callers : pc[c] \in Starting => op[c] = "up"
    /\ \A c, d \in Callers : op[c] = "up" /\ op[d] # "none" => c = d

ServerInv ==
    /\ TypeInv
    /\ Alone
    /\ \A c \in Callers : Knows(c)
    /\ ServerNamed
    /\ NotRunningTrue

\* A step that makes no server, and takes the PID file from none.
Calm ==
    /\ \A p \in Pids : Background(p)' => Background(p)
    /\ file' = file \/ NoServer'

\* At first there is no server and no command.
LEMMA ServerInit == Init => ServerInv
  BY TypeInit
  DEF Init, ServerInv, Alone, Starting, Knows, ServerNamed, NotRunningTrue, NoReply, Background,
      Wanted

\* A calm step leaves a command that takes no part in it what it knows.
LEMMA CalmKeeps ==
    ASSUME Calm, NEW c \in Callers, Knows(c),
           pc'[c] = pc[c], found'[c] = found[c], child'[c] = child[c]
    PROVE  Knows(c)'
  BY DEF Calm, Knows, Named, NoServer, OnlyServer

\* While a command that is not "up -d" runs, the PID file names the servers.
LEMMA NamedUnlessUp ==
    ASSUME ServerInv, NEW c \in Callers, pc[c] # "idle", op[c] # "up"
    PROVE  Named
  BY DEF ServerInv, Alone, ServerNamed, Named

\* A step of one command leaves the others what they know: it is calm, or they are idle.
LEMMA OthersKeep ==
    ASSUME ServerInv, NEW c \in Callers, pc[c] # "idle", op[c] = "up" \/ Calm,
           \A d \in Callers \ {c} :
               pc'[d] = pc[d] /\ found'[d] = found[d] /\ child'[d] = child[d]
    PROVE  \A d \in Callers \ {c} : Knows(d)'
  <1>1. CASE op[c] = "up"
    <2>1. \A d \in Callers \ {c} : pc'[d] = "idle"
      BY <1>1 DEF ServerInv, Alone
    <2> QED BY <2>1 DEF Knows
  <1>2. CASE Calm
    BY <1>2, CalmKeeps DEF ServerInv
  <1> QED BY <1>1, <1>2

\* A command ends: it is enough that the PID file names the servers.
LEMMA EndStep ==
    ASSUME ServerInv, TypeInv', NEW c \in Callers, pc[c] # "idle", op[c] = "up" \/ Calm,
           End(c), Named', NotRunningTrue'
    PROVE  ServerInv'
  <1>1. /\ pc'[c] = "idle" /\ op'[c] = "none"
        /\ \A d \in Callers \ {c} :
              pc'[d] = pc[d] /\ op'[d] = op[d] /\ found'[d] = found[d] /\ child'[d] = child[d]
    BY DEF ServerInv, TypeInv, TypeOK, End, Goto
  <1>2. \A d \in Callers : Knows(d)'
    BY <1>1, OthersKeep DEF Knows
  <1>3. ServerNamed'
    BY DEF Named, ServerNamed
  <1>4. Alone'
    BY <1>1 DEF ServerInv, Alone, Starting
  <1> QED BY <1>2, <1>3, <1>4 DEF ServerInv

\* A command goes on: it is enough that it knows what its next step needs.
LEMMA GoStep ==
    ASSUME ServerInv, TypeInv', NEW c \in Callers, pc[c] # "idle", op[c] = "up" \/ Calm,
           NEW step \in Steps, step # "idle", step \in Starting => op[c] = "up",
           Goto(c, step), Silent, op' = op,
           \A d \in Callers \ {c} : found'[d] = found[d] /\ child'[d] = child[d],
           Knows(c)'
    PROVE  ServerInv'
  <1>1. pc'[c] = step /\ \A d \in Callers \ {c} : pc'[d] = pc[d]
    BY DEF ServerInv, TypeInv, TypeOK, Goto
  <1>2. \A d \in Callers : Knows(d)'
    BY <1>1, OthersKeep
  <1>3. ServerNamed'
    <2>1. CASE op[c] = "up"
      BY <2>1 DEF ServerNamed
    <2>2. CASE op[c] # "up"
      BY <2>2, NamedUnlessUp DEF Calm, Named, NoServer, ServerNamed
    <2> QED BY <2>1, <2>2
  <1>4. NotRunningTrue'
    BY DEF NotRunningTrue, Silent, NoReply
  <1>5. Alone'
    BY <1>1 DEF ServerInv, Alone
  <1> QED BY <1>2, <1>3, <1>4, <1>5 DEF ServerInv

\* Reaping the dead takes no server away and makes none.
LEMMA ReapCalm ==
    ASSUME TypeInv, NEW c \in Callers, Reap(c), unnamed \subseteq unnamed'
    PROVE  \A p \in Pids : Background(p)' => Background(p)
  BY DEF TypeInv, TypeOK, Reap, Background, Wanted

\* A command that ends with any other answer than "not running".
LEMMA DoneStep ==
    ASSUME ServerInv, TypeInv', NEW c \in Callers, pc[c] # "idle",
           NEW what \in Replies \ {"notRunning"}, NEW p, Done(c, what, p), UNCHANGED unnamed,
           (Named /\ file' = file) \/ NoServer
    PROVE  ServerInv'
  <1>1. \A q \in Pids : Background(q)' => Background(q)
    BY ReapCalm DEF Done, ServerInv
  <1>2. Calm /\ Named'
    BY <1>1 DEF Calm, Named, NoServer
  <1>3. NotRunningTrue'
    BY DEF Done, NotRunningTrue
  <1> QED BY <1>2, <1>3, EndStep DEF Done

\* daemonRunning's "no", told when there is no server.
LEMMA NotRunningStep ==
    ASSUME ServerInv, TypeInv', NEW c \in Callers, pc[c] # "idle",
           NotRunning(c), NoServer, UNCHANGED unnamed
    PROVE  ServerInv'
  <1>1. NoServer'
    <2>1. UNCHANGED proc \/ Reap(c)
      BY DEF NotRunning, Done
    <2> QED BY <2>1, ReapCalm DEF NoServer, Background, ServerInv
  <1>2. Named' /\ Calm
    BY <1>1 DEF Named, NoServer, Calm
  <1>3. CASE op[c] = "up"
    <2>1. pc'[c] = "spawn"
      BY <1>3 DEF NotRunning, Proceed, Goto, ServerInv, TypeInv, TypeOK
    <2>2. Knows(c)'
      BY <1>1, <2>1 DEF Knows
    <2> QED BY <1>3, <2>2, GoStep DEF NotRunning, Proceed, Steps
  <1>4. CASE op[c] # "up"
    <2>1. NotRunningTrue'
      BY <1>1 DEF NotRunningTrue, NoServer
    <2> QED BY <1>2, <1>4, <2>1, EndStep DEF NotRunning, Done
  <1> QED BY <1>3, <1>4

\* The reading half of daemonRunning.
LEMMA ReadServers ==
    ASSUME ServerInv, TypeInv', NEW c \in Callers, Read(c)
    PROVE  ServerInv'
  <1>1. Named
    BY DEF Read, ServerInv, Knows
  <1>2. pc[c] = "read" /\ UNCHANGED <<file, unnamed>>
    BY DEF Read
  <1>3. ASSUME file \notin Pids, NotRunning(c) PROVE ServerInv'
    <2>1. NoServer
      BY <1>1, <1>3 DEF Named, NoServer
    <2> QED BY <1>2, <1>3, <2>1, NotRunningStep
  <1>4. ASSUME file \in Pids,
               found' = [found EXCEPT ![c] = file], Goto(c, "probe"), Silent,
               UNCHANGED <<proc, parent, op, child>>
        PROVE  ServerInv'
    <2>1. /\ pc'[c] = "probe" /\ found'[c] = file
          /\ \A d \in Callers \ {c} : found'[d] = found[d]
      BY <1>4 DEF Goto, ServerInv, TypeInv, TypeOK
    <2>2. Named' /\ OnlyServer(file) /\ Calm
      BY <1>1, <1>2, <1>4 DEF Named, OnlyServer, Background, Calm
    <2>3. OnlyServer(found[c])'
      BY <1>2, <1>4, <2>1, <2>2 DEF OnlyServer, Background
    <2>4. Knows(c)'
      BY <2>1, <2>2, <2>3 DEF Knows
    <2> QED BY <1>2, <1>4, <2>1, <2>2, <2>4, GoStep DEF Steps, Starting
  <1> QED BY <1>3, <1>4 DEF Read

\* The probing half: only a process that is no background server is taken for stale.
LEMMA ProbeServers ==
    ASSUME ServerInv, TypeInv', NEW c \in Callers, Probe(c)
    PROVE  ServerInv'
  <1>1. Named /\ OnlyServer(found[c])
    BY DEF Probe, ServerInv, Knows
  <1>2. pc[c] = "probe" /\ UNCHANGED <<file, unnamed>>
    BY DEF Probe
  <1>3. ASSUME NEW what \in {"alreadyRunning", "running"}, Done(c, what, found[c])
        PROVE  ServerInv'
    BY <1>1, <1>2, <1>3, DoneStep DEF Replies
  <1>4. ASSUME NEW step \in {"signal", "removeStale"}, Proceed(c, step), UNCHANGED proc,
               step = "removeStale" => NoServer
        PROVE  ServerInv'
    <2>1. pc'[c] = step
      BY <1>4 DEF Proceed, Goto, ServerInv, TypeInv, TypeOK
    <2>2. \A p \in Pids : Background(p)' <=> Background(p)
      BY <1>2, <1>4 DEF Background
    <2>3. Calm /\ Named' /\ OnlyServer(found[c])' /\ (NoServer => NoServer')
      BY <1>1, <1>2, <1>4, <2>2 DEF Proceed, Calm, Named, OnlyServer, NoServer
    <2>4. Knows(c)'
      BY <1>4, <2>1, <2>3 DEF Knows
    <2> QED BY <1>2, <1>4, <2>3, <2>4, GoStep DEF Proceed, Steps, Starting
  <1>5. ~ Alive(found[c]) \/ proc[found[c]] = "stranger" => NoServer
    BY <1>1 DEF Alive, NoServer, OnlyServer, Background, Wanted
  <1> QED BY <1>3, <1>4, <1>5 DEF Probe

\* The child is the only server, until the PID file names it or nobody ever will.
LEMMA StartServers ==
    ASSUME ServerInv, TypeInv', NEW c \in Callers,
           Spawn(c) \/ Truncate(c) \/ Write(c) \/ Look(c)
    PROVE  ServerInv'
  <1>t. /\ pc \in [Callers -> Steps] /\ proc \in [Pids -> Kinds]
        /\ pc[c] \in Starting /\ op[c] = "up"
    BY DEF ServerInv, TypeInv, TypeOK, Alone, Starting, Spawn, Truncate, Write, Look
  <1>1. CASE Spawn(c)
    <2>1. pc[c] = "spawn" /\ NoServer /\ UNCHANGED file
      BY <1>1 DEF Spawn, ServerInv, Knows
    <2>2. ASSUME Done(c, "failed", NoPid), UNCHANGED unnamed PROVE ServerInv'
      BY <2>1, <2>2, DoneStep DEF Replies
    <2>3. ASSUME NEW p \in Pids,
                 proc' = [proc EXCEPT ![p] = "booting"],
                 child' = [child EXCEPT ![c] = p], UNCHANGED <<op, found>>,
                 unnamed' = unnamed \ {p}, Goto(c, "truncate"), Silent
          PROVE  ServerInv'
      <3>1. /\ pc'[c] = "truncate" /\ child'[c] = p
            /\ \A d \in Callers \ {c} : child'[d] = child[d]
        BY <1>t, <2>3 DEF Goto, ServerInv, TypeInv, TypeOK
      <3>2. OnlyServer(child[c])'
        BY <1>t, <2>1, <2>3, <3>1 DEF OnlyServer, NoServer, Background, Wanted
      <3>3. Knows(c)'
        BY <3>1, <3>2 DEF Knows
      <3> QED BY <1>t, <2>1, <2>3, <3>1, <3>3, GoStep DEF Steps
    <2> QED BY <1>1, <2>2, <2>3 DEF Spawn
  <1>2. CASE Truncate(c)
    <2>1. pc[c] = "truncate" /\ OnlyServer(child[c]) /\ UNCHANGED proc
      BY <1>2 DEF Truncate, ServerInv, Knows
    <2>2. ASSUME Proceed(c, "write"), UNCHANGED unnamed PROVE ServerInv'
      <3>1. pc'[c] = "write" /\ UNCHANGED child
        BY <1>t, <2>2 DEF Proceed, Goto
      <3>2. Knows(c)'
        BY <2>1, <2>2, <3>1 DEF Knows, OnlyServer, Background
      <3> QED BY <1>t, <2>1, <2>2, <3>2, GoStep DEF Proceed, Steps
    <2>3. ASSUME Proceed(c, "look"), unnamed' = unnamed \cup {child[c]} PROVE ServerInv'
      <3>1. pc'[c] = "look"
        BY <1>t, <2>3 DEF Proceed, Goto
      <3>2. Named'
        BY <2>1, <2>3 DEF Named, OnlyServer, Background
      <3>3. Knows(c)'
        BY <3>1, <3>2 DEF Knows
      <3> QED BY <1>t, <2>1, <2>3, <3>3, GoStep DEF Proceed, Steps
    <2> QED BY <1>2, <2>2, <2>3 DEF Truncate
  <1>3. CASE Write(c)
    <2>1. /\ pc[c] = "write" /\ OnlyServer(child[c]) /\ UNCHANGED proc
          /\ Proceed(c, "look")
      BY <1>3 DEF Write, ServerInv, Knows
    <2>2. pc'[c] = "look"
      BY <1>t, <2>1 DEF Proceed, Goto
    <2>3. Named'
      BY <1>3, <2>1 DEF Write, PidOf, Named, OnlyServer, Background
    <2>4. Knows(c)'
      BY <2>2, <2>3 DEF Knows
    <2> QED BY <1>t, <2>1, <2>4, GoStep DEF Proceed, Steps
  <1>4. CASE Look(c)
    <2>1. pc[c] = "look" /\ Named
      BY <1>4 DEF Look, ServerInv, Knows
    <2> QED BY <1>4, <2>1, DoneStep DEF Look, Replies
  <1> QED BY <1>1, <1>2, <1>3, <1>4

\* "stop" removes the PID file of a server it has asked to stop, and of no other.
LEMMA StopServers ==
    ASSUME ServerInv, TypeInv', NEW c \in Callers, Signal(c) \/ Await(c) \/ Remove(c)
    PROVE  ServerInv'
  <1>t. pc \in [Callers -> Steps] /\ proc \in [Pids -> Kinds] /\ UNCHANGED unnamed
    BY DEF ServerInv, TypeInv, TypeOK, Signal, Await, Remove
  <1>1. CASE Signal(c)
    <2>1. pc[c] = "signal" /\ Named /\ OnlyServer(found[c]) /\ UNCHANGED file
      BY <1>1 DEF Signal, ServerInv, Knows
    <2>2. ASSUME Proceed(c, "await"), NoServer' PROVE ServerInv'
      <3>1. pc'[c] = "await"
        BY <1>t, <2>2 DEF Proceed, Goto
      <3>2. Knows(c)' /\ Calm
        BY <2>2, <3>1 DEF Knows, Calm, NoServer
      <3> QED BY <2>1, <2>2, <3>2, GoStep DEF Proceed, Steps, Starting
    <2>3. ASSUME Done(c, "failed", found[c]) PROVE ServerInv'
      BY <1>t, <2>1, <2>3, DoneStep DEF Replies
    <2>4. ASSUME proc' = [proc EXCEPT ![found[c]] = Remains(found[c])]
                 \/ proc' = [proc EXCEPT ![found[c]] = "stopping"]
          PROVE  NoServer'
      BY <1>t, <2>1, <2>4 DEF NoServer, OnlyServer, Background, Wanted, Remains
    <2>5. ASSUME proc[found[c]] \in {"stopping", "zombie", "stranger"},
                 proc' \in {proc, [proc EXCEPT ![found[c]] = "free"]}
          PROVE  NoServer'
      BY <1>t, <2>1, <2>5 DEF NoServer, OnlyServer, Background, Wanted
    <2> QED BY <1>1, <2>2, <2>3, <2>4, <2>5 DEF Signal, Exit
  <1>2. CASE Await(c)
    <2>1. pc[c] = "await" /\ NoServer /\ UNCHANGED <<file, proc>>
      BY <1>2 DEF Await, ServerInv, Knows
    <2>2. pc'[c] = "remove"
      BY <1>2, <1>t DEF Await, Proceed, Goto
    <2>3. Knows(c)' /\ Calm
      BY <1>t, <2>1, <2>2 DEF Knows, Calm, NoServer, Background
    <2> QED BY <1>2, <2>1, <2>3, GoStep DEF Await, Proceed, Steps, Starting
  <1>3. CASE Remove(c)
    <2>1. pc[c] = "remove" /\ NoServer
      BY <1>3 DEF Remove, ServerInv, Knows
    <2> QED BY <1>3, <1>t, <2>1, DoneStep DEF Remove, Replies
  <1> QED BY <1>1, <1>2, <1>3

\* An interrupted command leaves the PID file right, or its child without one.
LEMMA InterruptServers ==
    ASSUME ServerInv, TypeInv', NEW c \in Callers, Interrupt(c)
    PROVE  ServerInv'
  <1>t. /\ pc \in [Callers -> Steps] /\ proc \in [Pids -> Kinds]
        /\ pc[c] # "idle" /\ End(c) /\ Reap(c) /\ Silent /\ UNCHANGED file
    BY DEF Interrupt, ServerInv, TypeInv, TypeOK
  <1>1. unnamed \subseteq unnamed'
    BY DEF Interrupt
  <1>2. \A p \in Pids : Background(p)' => Background(p)
    BY <1>t, <1>1, ReapCalm DEF ServerInv
  <1>3. Calm /\ NotRunningTrue'
    BY <1>t, <1>2 DEF Calm, NotRunningTrue, Silent, NoReply
  <1>4. Named'
    <2>1. CASE pc[c] \in {"truncate", "write"}
      <3>1. OnlyServer(child[c]) /\ unnamed' = unnamed \cup {child[c]}
        BY <2>1 DEF Interrupt, ServerInv, Knows
      <3> QED BY <1>2, <3>1 DEF Named, OnlyServer, Background
    <2>2. CASE pc[c] \notin {"truncate", "write"}
      <3>1. Named
        BY <1>t, <2>2 DEF ServerInv, Knows, Named, NoServer, Steps
      <3> QED BY <1>2, <1>t, <3>1 DEF Named
    <2> QED BY <2>1, <2>2
  <1> QED BY <1>t, <1>3, <1>4, EndStep

\* What the servers and other processes do makes no server with a PID file.
LEMMA WorldServers ==
    ASSUME ServerInv, TypeInv', NEW p \in Pids,
           Open(p) \/ Quit(p) \/ ShutDown(p) \/ Crash(p) \/ Foreground(p) \/ Stranger(p)
    PROVE  ServerInv'
  <1>1. UNCHANGED <<file, pc, op, found, child>> /\ Silent
    BY DEF Open, Quit, ShutDown, Crash, Foreground, Stranger, others
  <1>2. proc \in [Pids -> Kinds]
    BY DEF ServerInv, TypeInv, TypeOK
  <1>3. \A q \in Pids : Background(q)' => Background(q)
    BY <1>2 DEF Open, Quit, ShutDown, Crash, Foreground, Stranger, Exit, Remains, Background, Wanted
  <1>4. \A c \in Callers : Knows(c)'
    BY <1>1, <1>3, CalmKeeps DEF ServerInv, Calm
  <1>5. ServerNamed' /\ Alone'
    BY <1>1, <1>3 DEF ServerInv, ServerNamed, Alone
  <1>6. NotRunningTrue'
    BY <1>1 DEF NotRunningTrue, Silent, NoReply
  <1> QED BY <1>4, <1>5, <1>6 DEF ServerInv

\* A command is given: if it is "up -d", no other runs.
LEMMA CallServers ==
    ASSUME "up" \notin Overlap, ServerInv, TypeInv', NEW c \in Callers,
           NEW o \in {"up", "stop", "status"}, Call(c, o)
    PROVE  ServerInv'
  <1>1. /\ pc[c] = "idle" /\ pc' = [pc EXCEPT ![c] = "read"] /\ op' = [op EXCEPT ![c] = o]
        /\ \A d \in Callers : pc[d] # "idle" => o # "up" /\ op[d] # "up"
        /\ reply' = NoReply /\ UNCHANGED <<file, proc, found, child, unnamed>>
    BY DEF Call, FirstStep, Goto, Silent
  <1>2. /\ pc'[c] = "read" /\ op'[c] = o
        /\ \A d \in Callers \ {c} : pc'[d] = pc[d] /\ op'[d] = op[d]
    BY <1>1 DEF ServerInv, TypeInv, TypeOK
  <1>3. \A d \in Callers : op[d] # "up"
    BY <1>1 DEF ServerInv, Alone
  <1>4. Named /\ Calm
    BY <1>1, <1>3 DEF ServerInv, ServerNamed, Named, Calm, Background
  <1>5. Named'
    BY <1>1, <1>4 DEF Named, Background
  <1>6. \A d \in Callers : Knows(d)'
    <2>1. Knows(c)'
      BY <1>2, <1>5 DEF Knows
    <2>2. ASSUME NEW d \in Callers \ {c} PROVE Knows(d)'
      BY <1>1, <1>2, <1>4, CalmKeeps DEF ServerInv
    <2> QED BY <2>1, <2>2
  <1>7. ServerNamed' /\ NotRunningTrue'
    BY <1>1, <1>5 DEF ServerNamed, Named, NotRunningTrue, NoReply
  <1>8. Alone'
    BY <1>1, <1>2, <1>3 DEF ServerInv, Alone, Starting
  <1> QED BY <1>6, <1>7, <1>8 DEF ServerInv

\* Every step of the specification keeps the invariant where "up -d" runs alone.
LEMMA ServerStep ==
    ASSUME "up" \notin Overlap, ServerInv, TypeInv', [Next]_vars
    PROVE  ServerInv'
  <1>1. ASSUME NEW c \in Callers, Step(c) PROVE ServerInv'
    <2>1. CASE RemoveStale(c)
      <3>1. NoServer /\ pc[c] # "idle"
        BY <2>1 DEF RemoveStale, ServerInv, Knows
      <3> QED BY <2>1, <3>1, NotRunningStep DEF RemoveStale
    <2> QED BY <1>1, <2>1, ReadServers, ProbeServers, StartServers, StopServers DEF Step
  <1>2. CASE UNCHANGED vars
    BY <1>2 DEF vars, ServerInv, Alone, Knows, Named, NoServer, OnlyServer, ServerNamed,
       NotRunningTrue, Background
  <1> QED BY <1>1, <1>2, CallServers, InterruptServers, WorldServers DEF Next

\* What is known of servers is true at first and kept by every step.
LEMMA ServersInvariant == ASSUME "up" \notin Overlap PROVE Spec => []ServerInv
  <1>1. ServerInv => TypeInv
    BY DEF ServerInv
  <1>2. ServerInv /\ [Next]_vars => ServerInv'
    BY <1>1, TypeStep, ServerStep
  <1> QED BY <1>2, ServerInit, PTL DEF Spec

\* Where no other command runs while "up -d" does, the PID file names the background server
\* nobody has asked to stop, through overlapping commands, crashes, failed writes,
\* interrupted commands and pids given out again (daemon.go:19-122).
THEOREM ServersNamed == ASSUME "up" \notin Overlap PROVE Spec => []ServerNamed
  <1>1. ServerInv => ServerNamed
    BY DEF ServerInv
  <1> QED BY <1>1, ServersInvariant, PTL

\* Then "LocalBQ is not running" is true of every such server (daemon.go:83-156).
THEOREM NotRunningTold == ASSUME "up" \notin Overlap PROVE Spec => []NotRunningTrue
  <1>1. ServerInv => NotRunningTrue
    BY DEF ServerInv
  <1> QED BY <1>1, ServersInvariant, PTL
============================================================================
