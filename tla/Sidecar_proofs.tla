-------------------------- MODULE Sidecar_proofs ---------------------------
(* Proofs about module Sidecar: the manager loses no child and leaves none. *)
EXTENDS Sidecar, TLAPS

\* What the manager's fields can be at each step of the call that holds Sidecar.mu.
Fields(c) ==
    /\ pc[c] = "check" => conn = cmd /\ port = cmd
    /\ pc[c] = "close" => conn \in {None, cmd} /\ port \in {None, cmd}
    /\ pc[c] \in {"close", "wait"} => after[c] \in {"spawn", "failed", "stopped"}
    /\ pc[c] = "wait" => conn = None
    /\ pc[c] = "spawn" => cmd = None /\ conn = None /\ port = None
    /\ pc[c] \in {"wait", "readPort", "dial", "health", "return"} => cmd \in Children
    /\ pc[c] \in {"readPort", "dial"} => conn = None
    /\ pc[c] = "readPort" => port = None
    /\ pc[c] \in {"dial", "health", "return"} => port = cmd
    /\ pc[c] \in {"health", "return"} => conn = cmd

\* A call is past Lock exactly while it holds Sidecar.mu.
Holder == \A c \in Callers : mu = c <=> pc[c] \notin {"idle", "lock"}

ManagerInv ==
    /\ TypeOK
    /\ Holder
    /\ \A c \in Callers : Fields(c)
    /\ NoStray
    /\ AllOrNothing
    /\ EndsClean

\* At first there is no child and no call.
LEMMA ManagerInit == Init => ManagerInv
  BY CallersAssumption
  DEF Init, ManagerInv, TypeOK, Holder, Fields, NoStray, AllOrNothing, EndsClean,
      MaybeChild, Ops, Steps, Sequels, Kinds, Lines, Replies, NoReply

\* The call that holds Sidecar.mu goes on: it is enough that the fields fit its step.
LEMMA GoStep ==
    ASSUME ManagerInv, NEW c \in Callers, mu = c,
           NEW step \in Steps \ {"idle", "lock"}, Goto(c, step), Silent,
           UNCHANGED <<mu, op, live>>, after' \in [Callers -> Sequels],
           cmd' \in MaybeChild, conn' \in MaybeChild, port' \in MaybeChild,
           proc' \in [Children -> Kinds], line' \in [Children -> Lines],
           Fields(c)', NoStray'
    PROVE  ManagerInv'
  <1>1. pc' \in [Callers -> Steps] /\ pc'[c] = step
    BY DEF ManagerInv, TypeOK, Goto
  <1>2. \A d \in Callers \ {c} : pc'[d] = pc[d] /\ pc[d] \in {"idle", "lock"}
    BY DEF ManagerInv, TypeOK, Holder, Goto
  <1>3. TypeOK'
    BY <1>1 DEF ManagerInv, TypeOK, Silent, NoReply, Replies, MaybeChild
  <1>4. Holder'
    BY <1>1, <1>2 DEF ManagerInv, Holder
  <1>5. \A d \in Callers : Fields(d)'
    BY <1>2 DEF Fields
  <1>6. AllOrNothing' /\ EndsClean'
    BY CallersAssumption DEF AllOrNothing, EndsClean, Silent, NoReply
  <1> QED BY <1>3, <1>4, <1>5, <1>6 DEF ManagerInv

\* The call returns: it is enough that the fields belong together, and that a failed
\* Start or a Stop leaves no child known.
LEMMA ReturnStep ==
    ASSUME ManagerInv, NEW c \in Callers, mu \in {None, c}, mu = None => pc[c] = "lock",
           NEW what \in Replies, NEW k \in MaybeChild, Return(c, what, k),
           cmd' \in MaybeChild, conn' = cmd', port' = cmd',
           proc' \in [Children -> Kinds], line' \in [Children -> Lines],
           NoStray',
           what \in {"failed", "stopped"} => cmd' = None
    PROVE  ManagerInv'
  <1>1. pc' \in [Callers -> Steps] /\ pc'[c] = "idle"
    BY DEF ManagerInv, TypeOK, Return, Goto, Steps
  <1>2. \A d \in Callers \ {c} : pc'[d] = pc[d] /\ pc[d] \in {"idle", "lock"}
    BY CallersAssumption DEF ManagerInv, TypeOK, Holder, Return, Goto
  <1>3. TypeOK'
    <2>1. op' \in [Callers -> Ops] /\ after' \in [Callers -> Sequels]
      BY DEF ManagerInv, TypeOK, Return, Ops, Sequels
    <2> QED BY <1>1, <2>1 DEF ManagerInv, TypeOK, Return
  <1>4. Holder'
    BY <1>1, <1>2, CallersAssumption DEF Holder, Return
  <1>5. \A d \in Callers : Fields(d)'
    BY <1>1, <1>2 DEF Fields
  <1>6. AllOrNothing'
    BY DEF AllOrNothing
  <1>7. EndsClean'
    BY ChildrenAssumption DEF EndsClean, NoStray, Return
  <1> QED BY <1>3, <1>4, <1>5, <1>6, <1>7 DEF ManagerInv

\* A step of a call that holds Sidecar.mu, or takes it.
LEMMA ServeStep == ASSUME ManagerInv, NEW c \in Callers, Serve(c) PROVE ManagerInv'
  <1>t. /\ cmd \in MaybeChild /\ conn \in MaybeChild /\ port \in MaybeChild
        /\ pc \in [Callers -> Steps] /\ after \in [Callers -> Sequels]
        /\ proc \in [Children -> Kinds] /\ line \in [Children -> Lines]
        /\ Fields(c) /\ NoStray /\ AllOrNothing
        /\ pc[c] \notin {"idle", "lock"} => mu = c
    BY DEF ManagerInv, TypeOK, Holder
  <1>1. CASE Lock(c)
    <2>1. pc[c] = "lock" /\ mu = None /\ conn = cmd /\ port = cmd
          /\ UNCHANGED <<cmd, conn, port, proc, line>>
      BY <1>1, <1>t DEF Lock, AllOrNothing
    <2>2. NoStray'
      BY <1>t, <2>1 DEF NoStray
    <2>3. CASE op[c] = "port" /\ Return(c, "port", port)
      BY <1>t, <2>1, <2>2, <2>3, ReturnStep DEF Replies
    <2>4. ASSUME mu' = c, NEW step \in {"check", "close"}, Goto(c, step), Silent,
                 step = "close" => after' = [after EXCEPT ![c] = "stopped"],
                 step = "check" => UNCHANGED after,
                 UNCHANGED <<op, live>>
          PROVE  ManagerInv'
      <3>1. pc' \in [Callers -> Steps] /\ pc'[c] = step
        BY <1>t, <2>4 DEF Goto, Steps
      <3>2. \A d \in Callers \ {c} : pc'[d] = pc[d] /\ pc[d] \in {"idle", "lock"}
        BY <2>1, <2>4, CallersAssumption DEF ManagerInv, TypeOK, Holder, Goto
      <3>3. after' \in [Callers -> Sequels] /\ (step = "close" => after'[c] = "stopped")
        BY <1>t, <2>4 DEF Sequels
      <3>4. \A d \in Callers : Fields(d)'
        BY <2>1, <2>4, <3>1, <3>2, <3>3 DEF Fields
      <3>5. Holder'
        BY <2>4, <3>1, <3>2 DEF Holder
      <3>6. TypeOK'
        BY <2>1, <2>4, <3>1, <3>3 DEF ManagerInv, TypeOK, Silent, NoReply, Replies, MaybeChild
      <3>7. AllOrNothing' /\ EndsClean'
        BY <2>4, CallersAssumption DEF AllOrNothing, EndsClean, Silent, NoReply
      <3> QED BY <2>2, <3>4, <3>5, <3>6, <3>7 DEF ManagerInv
    <2> QED BY <1>1, <2>3, <2>4 DEF Lock
  <1>2. ASSUME mu = c, NEW sequel \in Sequels \ {"none"}, Stop(c, sequel),
               conn' \in {None, cmd}, port' \in {None, cmd}, UNCHANGED <<cmd, proc, line>>
        PROVE  ManagerInv'
    <2>1. /\ pc'[c] = "close" /\ after'[c] = sequel
          /\ after' \in [Callers -> Sequels]
      BY <1>t, <1>2 DEF Stop, Goto
    <2>2. conn' \in MaybeChild /\ port' \in MaybeChild /\ NoStray'
      BY <1>t, <1>2 DEF MaybeChild, NoStray
    <2>3. Fields(c)'
      BY <1>2, <2>1 DEF Fields, Sequels
    <2> QED BY <1>t, <1>2, <2>1, <2>2, <2>3, GoStep DEF Stop, Steps
  <1>3. ASSUME mu = c, Continue(c), after[c] \in {"spawn", "failed", "stopped"},
               cmd' = None, conn' = None, port' = None,
               proc' \in [Children -> Kinds], line' \in [Children -> Lines], NoStray'
        PROVE  ManagerInv'
    <2>1. CASE after[c] = "spawn"
      <3>1. Proceed(c, "spawn") /\ pc'[c] = "spawn"
        BY <1>t, <1>3, <2>1 DEF Continue, Proceed, Goto
      <3>2. Fields(c)'
        BY <1>3, <3>1 DEF Fields
      <3> QED BY <1>t, <1>3, <3>1, <3>2, GoStep DEF Proceed, Steps, MaybeChild
    <2>2. CASE after[c] # "spawn"
      BY <1>t, <1>3, <2>2, ReturnStep, CallersAssumption DEF Continue, Replies, MaybeChild
    <2> QED BY <2>1, <2>2
  <1>4. ASSUME mu = c, NEW step \in {"wait", "readPort", "dial", "health", "return"},
               Proceed(c, step), cmd' \in Children,
               conn' = IF step \in {"health", "return"} THEN cmd' ELSE None,
               step = "wait" => port' \in MaybeChild,
               step = "readPort" => port' = None,
               step \in {"dial", "health", "return"} => port' = cmd',
               step = "wait" => after[c] \in {"spawn", "failed", "stopped"},
               proc' \in [Children -> Kinds], UNCHANGED line, NoStray'
        PROVE  ManagerInv'
    <2>1. pc'[c] = step /\ UNCHANGED after
      BY <1>t, <1>4 DEF Proceed, Goto, Steps
    <2>2. cmd' \in MaybeChild /\ conn' \in MaybeChild /\ port' \in MaybeChild
      BY <1>4 DEF MaybeChild
    <2>3. Fields(c)'
      BY <1>4, <2>1 DEF Fields
    <2> QED BY <1>t, <1>4, <2>1, <2>2, <2>3, GoStep DEF Proceed, Steps
  <1>5. CASE Check(c)
    <2>1. /\ mu = c /\ conn = cmd /\ port = cmd
          /\ UNCHANGED <<cmd, conn, port, proc, line>> /\ NoStray'
      BY <1>5, <1>t DEF Check, Fields, NoStray
    <2>2. CASE Healthy(c) /\ Proceed(c, "return")
      BY <1>t, <1>4, <2>1, <2>2 DEF Healthy, MaybeChild
    <2>3. CASE Stop(c, "spawn")
      BY <1>2, <2>1, <2>3 DEF Sequels
    <2> QED BY <1>5, <2>2, <2>3 DEF Check
  <1>6. CASE Close(c)
    <2>1. /\ mu = c /\ conn' = None /\ port \in {None, cmd}
          /\ after[c] \in {"spawn", "failed", "stopped"}
          /\ UNCHANGED <<cmd, proc, line>> /\ NoStray'
      BY <1>6, <1>t DEF Close, DropConn, Fields, NoStray
    <2>2. CASE cmd = None
      BY <1>6, <1>t, <1>3, <2>1, <2>2 DEF Close
    <2>3. CASE cmd # None
      BY <1>6, <1>t, <1>4, <2>1, <2>3 DEF Close, MaybeChild
    <2> QED BY <2>2, <2>3
  <1>7. CASE Wait(c)
    <2>1. /\ mu = c /\ cmd \in Children /\ conn' = None /\ Continue(c)
          /\ after[c] \in {"spawn", "failed", "stopped"}
          /\ cmd' = None /\ port' = None
          /\ proc' = [proc EXCEPT ![cmd] = "absent"]
          /\ line' = [line EXCEPT ![cmd] = "none"]
      BY <1>7, <1>t DEF Wait, Fields, Kill
    <2>2. proc' \in [Children -> Kinds] /\ line' \in [Children -> Lines]
      BY <1>t, <2>1 DEF Kinds, Lines
    <2>3. NoStray'
      BY <1>t, <2>1 DEF NoStray
    <2> QED BY <1>3, <2>1, <2>2, <2>3
  <1>8. CASE Spawn(c)
    <2>1. /\ mu = c /\ cmd = None /\ conn = None /\ port = None
          /\ UNCHANGED <<conn, port, line>>
      BY <1>8, <1>t DEF Spawn, Fields
    <2>2. ASSUME NEW k \in Children, proc' = [proc EXCEPT ![k] = "starting"], cmd' = k,
                 Proceed(c, "readPort")
          PROVE  ManagerInv'
      <3>1. proc' \in [Children -> Kinds]
        BY <1>t, <2>2 DEF Kinds
      <3>2. NoStray'
        BY <1>t, <2>1, <2>2, ChildrenAssumption DEF NoStray
      <3> QED BY <1>4, <2>1, <2>2, <3>1, <3>2
    <2>3. ASSUME Return(c, "failed", None), UNCHANGED <<cmd, proc>> PROVE ManagerInv'
      <3>1. NoStray'
        BY <1>t, <2>3 DEF NoStray
      <3> QED BY <1>t, <2>1, <2>3, <3>1, ReturnStep, CallersAssumption DEF Replies, MaybeChild
    <2> QED BY <1>8, <2>2, <2>3 DEF Spawn, Remember
  <1>9. CASE ReadPort(c)
    <2>1. /\ mu = c /\ cmd \in Children /\ conn = None /\ port = None
          /\ UNCHANGED <<cmd, conn, proc, line>> /\ NoStray'
      BY <1>9, <1>t DEF ReadPort, Fields, NoStray
    <2>2. CASE port' = cmd /\ Proceed(c, "dial")
      BY <1>t, <1>4, <2>1, <2>2
    <2>3. CASE Stop(c, "failed") /\ UNCHANGED port
      BY <1>2, <2>1, <2>3 DEF Sequels
    <2> QED BY <1>9, <2>2, <2>3 DEF ReadPort, PortOf
  <1>10. CASE Dial(c)
    <2>1. /\ mu = c /\ cmd \in Children /\ conn = None /\ port = cmd
          /\ UNCHANGED <<cmd, port, proc, line>> /\ NoStray'
      BY <1>10, <1>t DEF Dial, Fields, NoStray
    <2>2. CASE conn' = port /\ Proceed(c, "health")
      BY <1>t, <1>4, <2>1, <2>2
    <2>3. CASE Stop(c, "failed") /\ UNCHANGED conn
      BY <1>2, <2>1, <2>3 DEF Sequels
    <2> QED BY <1>10, <2>2, <2>3 DEF Dial, Abandon
  <1>11. CASE WaitHealthy(c)
    <2>1. /\ mu = c /\ cmd \in Children /\ conn = cmd /\ port = cmd
          /\ UNCHANGED <<cmd, conn, port, proc, line>> /\ NoStray'
      BY <1>11, <1>t DEF WaitHealthy, Fields, NoStray
    <2>2. CASE Proceed(c, "return")
      BY <1>t, <1>4, <2>1, <2>2
    <2>3. CASE Stop(c, "failed")
      BY <1>2, <2>1, <2>3 DEF Sequels
    <2> QED BY <1>11, <2>2, <2>3 DEF WaitHealthy
  <1>12. CASE ReturnConn(c)
    <2>1. /\ mu = c /\ cmd \in Children /\ conn = cmd /\ port = cmd
          /\ UNCHANGED <<cmd, conn, port, proc, line>> /\ NoStray'
      BY <1>12, <1>t DEF ReturnConn, Fields, NoStray
    <2> QED BY <1>12, <1>t, <2>1, ReturnStep, CallersAssumption DEF ReturnConn, Replies
  <1> QED BY <1>1, <1>5, <1>6, <1>7, <1>8, <1>9, <1>10, <1>11, <1>12 DEF Serve

\* What children do leaves the manager as it is; an absent one does nothing.
LEMMA ChildStep ==
    ASSUME ManagerInv, NEW k \in Children, Announce(k) \/ Turn(k) \/ Exit(k)
    PROVE  ManagerInv'
  <1>1. UNCHANGED <<mu, cmd, conn, port, pc, op, after, live>> /\ Silent
    BY DEF Announce, Turn, Exit, manager, call
  <1>2. proc' \in [Children -> Kinds] /\ line' \in [Children -> Lines]
    BY DEF Announce, Turn, Exit, ManagerInv, TypeOK, Kinds, Lines
  <1>3. NoStray'
    BY <1>1 DEF Announce, Turn, Exit, ManagerInv, TypeOK, NoStray
  <1>4. TypeOK'
    BY <1>1, <1>2 DEF ManagerInv, TypeOK, Silent, NoReply, Replies, MaybeChild
  <1>5. Holder' /\ (\A c \in Callers : Fields(c)') /\ AllOrNothing' /\ EndsClean'
    BY <1>1 DEF ManagerInv, Holder, Fields, AllOrNothing, EndsClean, Silent, NoReply
  <1> QED BY <1>3, <1>4, <1>5 DEF ManagerInv

\* Every step of the specification keeps the invariant.
LEMMA ManagerStep == ManagerInv /\ [Next]_vars => ManagerInv'
  <1> SUFFICES ASSUME ManagerInv, [Next]_vars PROVE ManagerInv'
    OBVIOUS
  <1>1. ASSUME NEW c \in Callers, NEW o \in {"start", "stop", "port"}, Call(c, o)
        PROVE  ManagerInv'
    <2>1. /\ pc[c] = "idle" /\ pc' = [pc EXCEPT ![c] = "lock"]
          /\ op' = [op EXCEPT ![c] = o]
          /\ UNCHANGED <<mu, cmd, conn, port, after, live, proc, line>> /\ reply' = NoReply
      BY <1>1 DEF Call, Goto, Silent, manager
    <2>2. TypeOK'
      BY <2>1 DEF ManagerInv, TypeOK, Steps, Ops, NoReply, Replies, MaybeChild
    <2>3. Holder'
      BY <2>1 DEF ManagerInv, TypeOK, Holder
    <2>4. \A d \in Callers : Fields(d)'
      BY <2>1 DEF ManagerInv, TypeOK, Fields
    <2>5. NoStray' /\ AllOrNothing' /\ EndsClean'
      BY <2>1 DEF ManagerInv, NoStray, AllOrNothing, EndsClean, NoReply
    <2> QED BY <2>2, <2>3, <2>4, <2>5 DEF ManagerInv
  <1>2. ASSUME NEW c \in Callers, Cancel(c) PROVE ManagerInv'
    <2>1. /\ UNCHANGED <<mu, cmd, conn, port, pc, op, after, proc, line>>
          /\ reply' = NoReply /\ live' = [live EXCEPT ![c] = FALSE]
      BY <1>2 DEF Cancel, Silent, manager
    <2>2. TypeOK'
      BY <2>1 DEF ManagerInv, TypeOK, NoReply, Replies, MaybeChild
    <2>3. /\ Holder' /\ (\A d \in Callers : Fields(d)')
          /\ NoStray' /\ AllOrNothing' /\ EndsClean'
      BY <2>1
      DEF ManagerInv, Holder, Fields, NoStray, AllOrNothing, EndsClean, NoReply
    <2> QED BY <2>2, <2>3 DEF ManagerInv
  <1>3. CASE UNCHANGED vars
    BY <1>3
    DEF vars, manager, call, ManagerInv, TypeOK, Holder, Fields, NoStray, AllOrNothing,
        EndsClean
  <1> QED BY <1>1, <1>2, <1>3, ServeStep, ChildStep DEF Next

\* The manager and its calls are well typed, for any number of callers and children.
THEOREM TypeCorrect == Spec => []TypeOK
  <1>1. ManagerInv => TypeOK
    BY DEF ManagerInv
  <1> QED BY <1>1, ManagerInit, ManagerStep, PTL DEF Spec

\* No child is ever lost, dead or alive, however calls overlap, contexts end, timers run
\* out and children die: there is at most one, and the manager knows it (sidecar.go:62-178).
THEOREM ChildrenManaged == Spec => []NoStray
  <1>1. ManagerInv => NoStray
    BY DEF ManagerInv
  <1> QED BY <1>1, ManagerInit, ManagerStep, PTL DEF Spec

\* Between calls the process, the connection and the port belong together
\* (sidecar.go:62-178).
THEOREM FieldsTogether == Spec => []AllOrNothing
  <1>1. ManagerInv => AllOrNothing
    BY DEF ManagerInv
  <1> QED BY <1>1, ManagerInit, ManagerStep, PTL DEF Spec

\* A failed Start and a Stop leave nothing behind, and no process to be waited for
\* (sidecar.go:87-178).
THEOREM NothingLeft == Spec => []EndsClean
  <1>1. ManagerInv => EndsClean
    BY DEF ManagerInv
  <1> QED BY <1>1, ManagerInit, ManagerStep, PTL DEF Spec

-----------------------------------------------------------------------------
(* Sidecar implements SidecarService *)

\* What callers see depends on the call that holds Sidecar.mu alone, if one does.
LEMMA ServingSeen ==
    ASSUME Holder
    PROVE  /\ mu = None => serving = conn
           /\ \A c \in Callers : mu = c => serving = IF Untried(c) THEN None ELSE conn
  BY CallersAssumption DEF Holder, serving, Untried

\* So it does after a step.
LEMMA ServingSeenNext ==
    ASSUME Holder'
    PROVE  /\ mu' = None => serving' = conn'
           /\ \A c \in Callers : mu' = c => serving' = IF Untried(c)' THEN None ELSE conn'
  BY CallersAssumption DEF Holder, serving, Untried

\* A step that shows no change and tells nothing is one of SidecarService.
LEMMA QuietStep ==
    ASSUME ManagerInv, serving' = serving, Silent
    PROVE  Service!Next
  BY DEF Silent, NoReply, Service!Next, Service!Tell, Service!Honest

\* So is an answer that is true of what callers see.
LEMMA AnswerStep ==
    ASSUME serving' = serving,
           NEW what \in {"conn", "port", "failed", "stopped"}, NEW k \in MaybeChild,
           reply' = [said |-> what, child |-> k],
           what \in {"conn", "port"} => k = serving,
           what = "conn" => serving # None,
           what \in {"failed", "stopped"} => serving = None
    PROVE  Service!Next
  BY DEF MaybeChild, Service!Next, Service!Tell, Service!Honest

\* Each step of a call is one step of the service, or none.
LEMMA ServeImplements ==
    ASSUME ManagerInv, ManagerInv', NEW c \in Callers, Serve(c)
    PROVE  Service!Next
  <1> DEFINE Seen(step, next, link) ==
        IF step = "health" \/ (step = "close" /\ next = "failed") THEN None ELSE link
  <1>t. /\ cmd \in MaybeChild /\ conn \in MaybeChild /\ port \in MaybeChild
        /\ pc \in [Callers -> Steps] /\ after \in [Callers -> Sequels]
        /\ Fields(c) /\ Fields(c)' /\ (mu = None => conn = cmd /\ port = cmd)
    BY DEF ManagerInv, TypeOK, AllOrNothing
  <1>h. /\ mu = c <=> pc[c] \notin {"idle", "lock"}
        /\ mu = None => serving = conn
        /\ mu = c => serving = Seen(pc[c], after[c], conn)
        /\ mu' = None => serving' = conn'
        /\ mu' = c => serving' = Seen(pc'[c], after'[c], conn')
    BY ServingSeen, ServingSeenNext DEF ManagerInv, Holder, Untried
  <1>1. ASSUME NEW step \in Steps, Goto(c, step) PROVE pc'[c] = step
    BY <1>t, <1>1 DEF Goto
  <1>2. ASSUME NEW sequel \in Sequels, Stop(c, sequel)
        PROVE  /\ pc'[c] = "close" /\ after'[c] = sequel /\ mu' = mu /\ Silent
    BY <1>t, <1>1, <1>2 DEF Stop, Steps
  <1>3. ASSUME NEW step \in Steps, Proceed(c, step)
        PROVE  /\ pc'[c] = step /\ after'[c] = after[c] /\ mu' = mu /\ Silent
    BY <1>1, <1>3 DEF Proceed
  <1>4. ASSUME Continue(c), mu = c, serving = None, conn' = None,
               after[c] \in {"spawn", "failed", "stopped"}
        PROVE  Service!Next
    <2>1. CASE after[c] = "spawn"
      <3>1. Proceed(c, "spawn")
        BY <1>4, <2>1 DEF Continue
      <3>2. pc'[c] = "spawn" /\ mu' = c /\ Silent
        BY <1>3, <1>4, <3>1 DEF Steps
      <3>3. serving' = None
        BY <1>h, <1>4, <3>2
      <3> QED BY <1>4, <3>2, <3>3, QuietStep
    <2>2. CASE after[c] \in {"failed", "stopped"}
      <3>1. Return(c, after[c], None)
        BY <2>2, <1>4 DEF Continue
      <3>2. mu' = None /\ reply' = [said |-> after[c], child |-> None]
        BY <3>1 DEF Return
      <3>3. serving' = None
        BY <1>h, <1>4, <3>2
      <3> QED BY <1>4, <2>2, <3>2, <3>3, AnswerStep DEF MaybeChild
    <2> QED BY <1>4, <2>1, <2>2
  <1>5. CASE Lock(c)
    <2>1. mu = None /\ UNCHANGED <<cmd, conn, port>> /\ serving = conn /\ conn = port
      BY <1>5, <1>t, <1>h DEF Lock
    <2>2. CASE Return(c, "port", port)
      <3>1. mu' = None /\ reply' = [said |-> "port", child |-> port]
        BY <2>2 DEF Return
      <3> QED BY <1>t, <1>h, <2>1, <3>1, AnswerStep
    <2>3. ASSUME mu' = c, Silent,
                 pc'[c] = "check" \/ (pc'[c] = "close" /\ after'[c] = "stopped")
          PROVE  Service!Next
      <3>1. serving' = conn
        BY <1>h, <2>1, <2>3
      <3> QED BY <2>1, <2>3, <3>1, QuietStep
    <2>4. CASE Goto(c, "check") /\ mu' = c /\ Silent
      <3>1. pc'[c] = "check"
        BY <1>1, <2>4 DEF Steps
      <3> QED BY <2>3, <2>4, <3>1
    <2>5. CASE /\ Goto(c, "close") /\ mu' = c /\ Silent
               /\ after' = [after EXCEPT ![c] = "stopped"]
      <3>1. pc'[c] = "close" /\ after'[c] = "stopped"
        BY <1>t, <1>1, <2>5 DEF Steps
      <3> QED BY <2>3, <2>5, <3>1
    <2> QED BY <1>5, <2>2, <2>4, <2>5 DEF Lock
  <1>6. CASE Check(c)
    <2>1. pc[c] = "check" /\ mu = c /\ serving = conn /\ conn' = conn
      BY <1>6, <1>h DEF Check
    <2>2. /\ Silent /\ mu' = c
          /\ \/ pc'[c] = "return"
             \/ pc'[c] = "close" /\ after'[c] = "spawn"
      BY <1>2, <1>3, <1>6, <2>1 DEF Check, Sequels, Steps
    <2>3. serving' = conn
      BY <1>h, <2>1, <2>2
    <2> QED BY <2>1, <2>2, <2>3, QuietStep
  <1>7. CASE Close(c)
    <2>1. /\ pc[c] = "close" /\ mu = c /\ conn' = None /\ conn \in {None, cmd}
          /\ after[c] \in {"spawn", "failed", "stopped"}
      BY <1>7, <1>t, <1>h DEF Close, DropConn, Fields
    <2>2. CASE cmd = None
      <3>1. serving = None /\ Continue(c)
        BY <1>7, <1>h, <2>1, <2>2 DEF Close
      <3> QED BY <1>4, <2>1, <3>1
    <2>3. CASE cmd # None
      <3>1. pc'[c] = "wait" /\ mu' = c /\ Silent
        BY <1>3, <1>7, <2>1, <2>3 DEF Close, Steps
      <3>2. serving' = None
        BY <1>h, <2>1, <3>1
      <3>3. CASE serving = None
        BY <3>1, <3>2, <3>3, QuietStep
      <3>4. CASE serving # None
        BY <3>1, <3>2, <3>4
        DEF Service!Next, Service!GiveUp, Service!Nothing, Silent, NoReply
      <3> QED BY <3>3, <3>4
    <2> QED BY <2>2, <2>3
  <1>8. CASE Wait(c)
    <2>1. /\ pc[c] = "wait" /\ mu = c /\ conn = None /\ conn' = None /\ Continue(c)
          /\ after[c] \in {"spawn", "failed", "stopped"}
      BY <1>8, <1>t, <1>h DEF Wait, Fields
    <2> QED BY <1>4, <1>h, <2>1
  <1>9. CASE Spawn(c)
    <2>1. pc[c] = "spawn" /\ mu = c /\ conn = None /\ conn' = None /\ serving = None
      BY <1>9, <1>t, <1>h DEF Spawn, Fields
    <2>2. CASE Proceed(c, "readPort")
      <3>1. pc'[c] = "readPort" /\ mu' = c /\ Silent
        BY <1>3, <2>1, <2>2 DEF Steps
      <3> QED BY <1>h, <2>1, <3>1, QuietStep
    <2>3. CASE Return(c, "failed", None)
      <3>1. mu' = None /\ reply' = [said |-> "failed", child |-> None]
        BY <2>3 DEF Return
      <3> QED BY <1>h, <2>1, <3>1, AnswerStep DEF MaybeChild
    <2> QED BY <1>9, <2>2, <2>3 DEF Spawn
  <1>10. CASE ReadPort(c) \/ Dial(c)
    <2>1. pc[c] \in {"readPort", "dial"} /\ mu = c /\ conn = None /\ serving = None
      BY <1>10, <1>t, <1>h DEF ReadPort, Dial, Fields
    <2>2. CASE Stop(c, "failed")
      <3>1. pc'[c] = "close" /\ after'[c] = "failed" /\ mu' = c /\ Silent
        BY <1>2, <2>1, <2>2 DEF Sequels
      <3> QED BY <1>h, <2>1, <3>1, QuietStep
    <2>3. CASE Proceed(c, "dial") /\ UNCHANGED conn
      <3>1. pc'[c] = "dial" /\ mu' = c /\ Silent
        BY <1>3, <2>1, <2>3 DEF Steps
      <3> QED BY <1>h, <2>1, <2>3, <3>1, QuietStep
    <2>4. CASE Proceed(c, "health")
      <3>1. pc'[c] = "health" /\ mu' = c /\ Silent
        BY <1>3, <2>1, <2>4 DEF Steps
      <3> QED BY <1>h, <2>1, <3>1, QuietStep
    <2> QED BY <1>10, <2>2, <2>3, <2>4 DEF ReadPort, Dial, Abandon
  <1>11. CASE WaitHealthy(c)
    <2>1. /\ pc[c] = "health" /\ mu = c /\ conn = cmd /\ cmd \in Children
          /\ conn' = conn /\ serving = None
      BY <1>11, <1>t, <1>h DEF WaitHealthy, Fields
    <2>2. CASE Stop(c, "failed")
      <3>1. pc'[c] = "close" /\ after'[c] = "failed" /\ mu' = c /\ Silent
        BY <1>2, <2>1, <2>2 DEF Sequels
      <3> QED BY <1>h, <2>1, <3>1, QuietStep
    <2>3. CASE Proceed(c, "return")
      <3>1. pc'[c] = "return" /\ mu' = c /\ Silent
        BY <1>3, <2>1, <2>3 DEF Steps
      <3>2. serving' \in Children
        BY <1>h, <2>1, <3>1
      <3> QED
        BY <2>1, <3>1, <3>2
        DEF Service!Next, Service!Appear, Service!Nothing, Silent, NoReply
    <2> QED BY <1>11, <2>2, <2>3 DEF WaitHealthy
  <1>12. CASE ReturnConn(c)
    <2>1. /\ pc[c] = "return" /\ mu = c /\ conn = cmd /\ cmd \in Children
          /\ conn' = conn /\ serving = conn /\ Return(c, "conn", conn)
      BY <1>12, <1>t, <1>h DEF ReturnConn, Fields
    <2>2. mu' = None /\ reply' = [said |-> "conn", child |-> conn] /\ serving' = conn
      BY <1>h, <2>1 DEF Return
    <2> QED BY <1>t, <2>1, <2>2, AnswerStep, ChildrenAssumption
  <1> QED BY <1>5, <1>6, <1>7, <1>8, <1>9, <1>10, <1>11, <1>12 DEF Serve

\* Overlapping calls of Start, Stop and Port are answered as if each took effect at one
\* moment, of one child or none (sidecar.go:62-211).
THEOREM ServiceImplemented == Spec => ImplementsService
  <1>1. Init => Service!Init
    BY DEF Init, NoReply, serving, Service!Init, Service!Nothing
  <1>2. ASSUME ManagerInv, ManagerInv', [Next]_vars PROVE [Service!Next]_(Service!vars)
    <2>1. ASSUME NEW c \in Callers, Serve(c) PROVE Service!Next
      BY <1>2, <2>1, ServeImplements
    <2>2. ASSUME Silent, UNCHANGED <<conn, after>>,
                 \A c \in Callers : pc'[c] = pc[c] \/ {pc[c], pc'[c]} \subseteq {"idle", "lock"}
          PROVE  Service!Next
      <3>1. serving' = serving
        BY <2>2 DEF serving, Untried
      <3> QED BY <1>2, <2>2, <3>1, QuietStep
    <2>3. ASSUME NEW c \in Callers, NEW o \in {"start", "stop", "port"}, Call(c, o)
          PROVE  Service!Next
      BY <1>2, <2>2, <2>3 DEF Call, Goto, manager, ManagerInv, TypeOK
    <2>4. ASSUME NEW c \in Callers, Cancel(c) PROVE Service!Next
      BY <2>2, <2>4 DEF Cancel, manager
    <2>5. ASSUME NEW k \in Children, Announce(k) \/ Turn(k) \/ Exit(k) PROVE Service!Next
      BY <2>2, <2>5 DEF Announce, Turn, Exit, manager, call
    <2>6. CASE UNCHANGED vars
      BY <2>6 DEF vars, manager, call, serving, Untried, Service!vars
    <2> QED BY <1>2, <2>1, <2>3, <2>4, <2>5, <2>6 DEF Next
  <1> QED
    BY <1>1, <1>2, ManagerInit, ManagerStep, PTL DEF Spec, ImplementsService, Service!Spec
============================================================================
