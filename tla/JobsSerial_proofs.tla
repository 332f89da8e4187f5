-------------------------- MODULE JobsSerial_proofs --------------------------
(***************************************************************************)
(* Proofs about module Jobs when clients wait for an insert before they    *)
(* retry it, and name no job as newJobID does: then every id has one run   *)
(* in a process, and the jobs are what JobLedger promises.                 *)
(***************************************************************************)
EXTENDS Jobs_proofs

\* Clients wait, and leave newJobID's names alone.
Patient == ~ Overlap /\ ClientIds \cap Generated = {}

-----------------------------------------------------------------------------
(* One run of each id *)

\* Of two requests about one id of the clients' at most one can start or end a query.
OneInsert ==
    \A g, h \in Handlers :
        g # h /\ pc[g] \in Inserting /\ pc[h] \in Inserting /\ id[g] = id[h]
        => id[g] \notin ClientIds

\* The ids of this process's runs stay in the job map; an insert that has not found its
\* id there will be the one to enter it.
Kept == \A r \in 1 .. runs : era[r] = restarts => jobs[jobOf[r]] # 0
Fresh ==
    \A h \in Handlers : pc[h] = "create" /\ id[h] \in ClientIds => jobs[id[h]] = 0

ClientRunsDiffer ==
    \A r, s \in 1 .. runs :
        r # s /\ jobOf[r] = jobOf[s] /\ jobOf[r] \in ClientIds => era[r] # era[s]

OneRun == OneInsert /\ Kept /\ Fresh /\ ClientRunsDiffer

\* A request starts to insert at an id that nobody inserts, or at one of newJobID's.
LEMMA OneInsertStep ==
  ASSUME Patient, TypeOK, OneInsert, [Next]_vars
  PROVE  OneInsert'
<1> USE DEF TypeOK, OneInsert, Inserting, Goto
<1>1. ASSUME NEW h \in Handlers, StartQuery(h) \/ \E j \in JobIds : StartResults(h, j)
      PROVE  OneInsert'
  BY <1>1, IdsAssumption DEF StartQuery, StartResults, Arrive
<1>2. ASSUME NEW h \in Handlers, NEW c \in ClientIds, StartInsert(h, c)
      PROVE  OneInsert'
  BY <1>2 DEF StartInsert, Arrive, Patient
<1>3. ASSUME NEW h \in Handlers, Generate(h) PROVE OneInsert'
  <2>1. jobCounter + 1 \in Generated
    BY <1>3, BoundsAssumption DEF Generate, Generated
  <2> QED BY <1>3, <2>1 DEF Generate, Patient
<1>4. ASSUME NEW h \in Handlers, Lookup(h) \/ Create(h) \/ Execute(h) \/ Publish(h) \/ Settle(h)
      PROVE  OneInsert'
  <2>1. /\ pc[h] \in Inserting /\ UNCHANGED id
        /\ \A g \in Handlers : g # h => pc'[g] = pc[g]
    BY <1>4 DEF Lookup, Create, Execute, AfterQuery, Publish, Settle, Proceed
  <2> QED BY <2>1
<1>5. ASSUME NEW h \in Handlers,
             \/ AnswerDryRun(h) \/ Record(h) \/ ReplayError(h) \/ ReplayState(h) \/ Fetch(h)
             \/ ReadState(h) \/ ReadError(h) \/ ReadResult(h) \/ Disconnect(h)
      PROVE  OneInsert'
  BY <1>5
  DEF AnswerDryRun, Record, ReplayError, ReplayState, Fetch, ReadState, ReadError, ReadResult,
      Disconnect, Answer, Proceed
<1>6. CASE Restart
  BY <1>6 DEF Restart
<1>7. CASE UNCHANGED vars
  BY <1>7 DEF vars, request
<1> HIDE DEF TypeOK, OneInsert, Inserting, Goto
<1> QED
  BY <1>1, <1>2, <1>3, <1>4, <1>5, <1>6, <1>7 DEF Next, Arrivals, Serve

\* Only GetJob's miss, or newJobID, leads to CreateJob; every step but CreateJob and a
\* restart leaves the job map and the runs' ids alone.
LEMMA MapSteps ==
  ASSUME TypeOK, [Next]_vars, \A h \in Handlers : ~ Create(h), ~ Restart
  PROVE  /\ UNCHANGED <<jobs, runs, jobOf, era, restarts>>
         /\ \A h \in Handlers :
               pc'[h] = "create" =>
                   \/ pc[h] = "create" /\ id'[h] = id[h]
                   \/ pc[h] = "lookup" /\ id'[h] = id[h] /\ jobs[id[h]] = 0
                   \/ id'[h] \in Generated
<1> USE DEF TypeOK, Goto
<1> DEFINE G ==
       /\ UNCHANGED <<jobs, runs, jobOf, era, restarts>>
       /\ \A h \in Handlers :
             pc'[h] = "create" =>
                 \/ pc[h] = "create" /\ id'[h] = id[h]
                 \/ pc[h] = "lookup" /\ id'[h] = id[h] /\ jobs[id[h]] = 0
                 \/ id'[h] \in Generated
<1>1. ASSUME NEW h \in Handlers, Arrivals(h) PROVE G
  BY <1>1 DEF Arrivals, StartQuery, StartInsert, StartResults, Arrive, history
<1>2. ASSUME NEW h \in Handlers, Generate(h) PROVE G
  <2>1. jobCounter + 1 \in Generated
    BY <1>2, BoundsAssumption DEF Generate, Generated
  <2> QED BY <1>2, <2>1 DEF Generate, history
<1>3. ASSUME NEW h \in Handlers, Lookup(h) PROVE G
  BY <1>3 DEF Lookup, Adopted, history
<1>4. ASSUME NEW h \in Handlers, Execute(h) \/ Publish(h) \/ Settle(h) PROVE G
  BY <1>4 DEF Execute, AfterQuery, Publish, Settle, Proceed, history
<1>5. ASSUME NEW h \in Handlers, NEW what, NEW r, Answer(h, what, r),
             UNCHANGED <<jobs, runs, jobOf, era, restarts>>
      PROVE  G
  BY <1>5 DEF Answer
<1>6. ASSUME NEW h \in Handlers, NEW step, step # "create", Proceed(h, step),
             UNCHANGED <<jobs, runs, jobOf, era, restarts>>
      PROVE  G
  BY <1>6 DEF Proceed
<1> HIDE DEF G
<1>7. ASSUME NEW h \in Handlers, AnswerDryRun(h) \/ Record(h) PROVE G
  BY <1>5, <1>7 DEF AnswerDryRun, Record, history
<1>8. ASSUME NEW h \in Handlers, ReplayError(h) \/ ReplayState(h) PROVE G
  BY <1>5, <1>6, <1>8 DEF ReplayError, ReplayState, history
<1>9. ASSUME NEW h \in Handlers, ReadState(h) \/ ReadError(h) \/ ReadResult(h) PROVE G
  BY <1>5, <1>6, <1>9 DEF ReadState, ReadError, ReadResult, history
<1>10. ASSUME NEW h \in Handlers, Fetch(h) \/ Disconnect(h) PROVE G
  BY <1>10 DEF G, Fetch, Disconnect, Answer, history
<1>11. ASSUME UNCHANGED vars PROVE G
  BY <1>11 DEF G, vars, request, history
<1> HIDE DEF TypeOK, Goto
<1>12. G
  <2>1. ASSUME NEW h \in Handlers, Serve(h) PROVE G
    BY <2>1, <1>2, <1>3, <1>4, <1>7, <1>8, <1>9, <1>10 DEF Serve
  <2> QED BY <2>1, <1>1, <1>10, <1>11 DEF Next
<1> QED BY <1>12 DEF G

\* Every step keeps the runs of an id apart.
LEMMA OneRunStep ==
  ASSUME Patient, TypeOK, Placed, ErasPast, OneRun, [Next]_vars
  PROVE  OneRun'
<1>0. OneInsert' /\ 1 .. runs \subseteq Runs /\ runs \in Nat
  BY OneInsertStep, BoundsAssumption DEF OneRun, TypeOK, MaybeRun, Runs
<1>1. ASSUME NEW h \in Handlers, Create(h) PROVE OneRun'
  <2>1. /\ pc[h] = "create" /\ runs' = runs + 1 /\ runs' \in Runs /\ runs' # 0
        /\ pc' = [pc EXCEPT ![h] = "execute"]
        /\ jobs' = [jobs EXCEPT ![id[h]] = runs']
        /\ jobOf' = [jobOf EXCEPT ![runs'] = id[h]] /\ era' = [era EXCEPT ![runs'] = restarts]
        /\ UNCHANGED <<id, restarts>> /\ id[h] \in JobIds
    BY <1>0, <1>1, BoundsAssumption DEF Create, Goto, Placed, Runs
  <2>2. /\ jobOf'[runs'] = id[h] /\ era'[runs'] = restarts /\ jobs'[id[h]] = runs'
        /\ \A r \in 1 .. runs : r # runs' /\ jobOf'[r] = jobOf[r] /\ era'[r] = era[r]
        /\ \A j \in JobIds : jobs[j] # 0 => jobs'[j] # 0
    BY <1>0, <2>1 DEF TypeOK
  <2>3. 1 .. runs' = (1 .. runs) \cup {runs'}
    BY <1>0, <2>1
  <2>4. Kept'
    <3>1. ASSUME NEW r \in 1 .. runs, era[r] = restarts PROVE jobs'[jobOf[r]] # 0
      <4>1. jobs[jobOf[r]] # 0
        BY <3>1 DEF OneRun, Kept
      <4> QED BY <2>1, <4>1 DEF TypeOK
    <3> QED BY <2>1, <2>2, <2>3, <3>1 DEF Kept
  <2>5. Fresh'
    <3>1. ASSUME NEW g \in Handlers, g # h, pc[g] = "create", id[g] \in ClientIds
          PROVE  id[g] # id[h]
      BY <2>1, <3>1 DEF OneRun, OneInsert, Inserting
    <3> QED BY <2>1, <3>1 DEF OneRun, Fresh, TypeOK
  <2>6. ClientRunsDiffer'
    <3>1. ASSUME NEW r \in 1 .. runs, jobOf[r] = id[h], id[h] \in ClientIds
          PROVE  era[r] # restarts
      BY <2>1, <3>1 DEF OneRun, Kept, Fresh
    <3> QED BY <2>2, <2>3, <3>1 DEF OneRun, ClientRunsDiffer
  <2> QED BY <1>0, <2>4, <2>5, <2>6 DEF OneRun
<1>2. CASE Restart
  <2>1. /\ restarts' = restarts + 1 /\ UNCHANGED <<runs, jobOf, era>>
        /\ \A h \in Handlers : pc'[h] = "idle"
    BY <1>2 DEF Restart
  <2>2. \A r \in 1 .. runs : era[r] # restarts'
    BY <1>0, <2>1, BoundsAssumption DEF ErasPast, TypeOK, Eras
  <2> QED BY <1>0, <2>1, <2>2 DEF OneRun, Kept, Fresh, ClientRunsDiffer
<1>3. CASE (\A h \in Handlers : ~ Create(h)) /\ ~ Restart
  <2>1. /\ UNCHANGED <<jobs, runs, jobOf, era, restarts>>
        /\ \A h \in Handlers :
              pc'[h] = "create" /\ id'[h] \in ClientIds =>
                  \/ pc[h] = "create" /\ id'[h] = id[h]
                  \/ jobs[id'[h]] = 0
    BY <1>3, MapSteps DEF Patient
  <2> QED BY <1>0, <2>1 DEF OneRun, Kept, Fresh, ClientRunsDiffer
<1> QED BY <1>1, <1>2, <1>3

\* No run shares its id with another one of its process.
AllSole == \A r \in 1 .. runs : Sole(r)

\* With clients that wait, no id gets a second run in one process.
LEMMA OneRunInvariant == ASSUME Patient PROVE Spec => [](OneRun /\ AllSole)
<1>1. Init => OneRun
  BY DEF Init, OneRun, OneInsert, Kept, Fresh, ClientRunsDiffer, Inserting
<1>2. TypeOK /\ Placed /\ ErasPast /\ OneRun /\ [Next]_vars => OneRun'
  BY OneRunStep
<1>3. OneRun /\ GeneratedJobsPrivate => AllSole
  BY DEF OneRun, ClientRunsDiffer, GeneratedJobsPrivate, AllSole, Sole
<1> QED
  BY <1>1, <1>2, <1>3, TypeCorrect, RowsInvariant, GeneratedPrivate, PTL DEF Spec

\* The query of an id never runs twice in a process, if clients wait before they retry
\* (server.go:246-262).
THEOREM RunsOnce == ASSUME Patient PROVE Spec => []RunsOncePerProcess
<1>1. OneRun => RunsOncePerProcess
  BY DEF OneRun, ClientRunsDiffer, RunsOncePerProcess
<1> QED
  BY <1>1, OneRunInvariant, PTL

-----------------------------------------------------------------------------
(* What a retry is told *)

\* A request that looks up an id was given it by a client; a job that is being replayed
\* has ended.
Replayed ==
    \A h \in Handlers :
        /\ pc[h] = "lookup" => id[h] \in ClientIds
        /\ pc[h] \in Replaying => state[job[h]] = "DONE"

\* A job that GetJob finds has no request left to complete it, so it is DONE.
LEMMA FoundIsDone ==
  ASSUME TypeOK, Placed, Owned, NoOrphanRunning, OneInsert, Replayed,
         NEW h \in Handlers, pc[h] = "lookup", jobs[id[h]] # 0
  PROVE  state[jobs[id[h]]] = "DONE"
<1>1. id[h] \in JobIds /\ id[h] \in ClientIds /\ jobOf[jobs[id[h]]] = id[h]
  BY DEF Placed, Replayed, Owned, MapFits
<1>2. jobs[id[h]] \in Runs
  BY <1>1, BoundsAssumption DEF TypeOK, MaybeRun, Runs
<1> SUFFICES ASSUME state[jobs[id[h]]] = "RUNNING" PROVE FALSE
  BY <1>2 DEF TypeOK
<1>3. PICK g \in Handlers : job[g] = jobs[id[h]] /\ pc[g] \in {"execute", "publish", "settleState"}
  BY <1>1 DEF NoOrphanRunning
<1>4. id[g] = id[h] /\ g # h
  BY <1>1, <1>3 DEF Owned, HeldFits, Holding, Running
<1> QED BY <1>1, <1>3, <1>4 DEF OneInsert, Inserting

\* No step but a restart, which frees every handler, undoes a DONE.
LEMMA ReplayedStep ==
  ASSUME TypeOK, Placed, Owned, NoOrphanRunning, OneInsert, Replayed, [Next]_vars
  PROVE  Replayed'
<1> USE DEF TypeOK, Replayed, Replaying, Goto
<1>1. ASSUME NEW h \in Handlers, Arrivals(h) \/ Generate(h) PROVE Replayed'
  BY <1>1 DEF Arrivals, StartQuery, StartInsert, StartResults, Arrive, Generate, objects
<1>2. ASSUME NEW h \in Handlers, Lookup(h) PROVE Replayed'
  BY <1>2, FoundIsDone DEF Lookup, Adopted, objects
<1>3. ASSUME NEW h \in Handlers, Create(h) PROVE Replayed'
  BY <1>3 DEF Create, objects
<1>4. ASSUME NEW h \in Handlers, Execute(h) PROVE Replayed'
  BY <1>4 DEF Execute, AfterQuery, Proceed, objects
<1>5. ASSUME NEW h \in Handlers, Publish(h) \/ Settle(h) PROVE Replayed'
  <2>1. /\ UNCHANGED <<id, job>> /\ \A g \in Handlers : pc'[g] \in {"lookup"} \cup Replaying => pc'[g] = pc[g]
    BY <1>5 DEF Publish, Settle, Proceed
  <2>2. \A r \in Runs : state[r] = "DONE" => state'[r] = "DONE"
    BY <1>5, CompletionWrites
  <2> QED BY <2>1, <2>2 DEF Placed, Holding
<1>6. ASSUME NEW h \in Handlers, AnswerDryRun(h) \/ Record(h) PROVE Replayed'
  BY <1>6 DEF AnswerDryRun, Record, Answer, objects
<1>7. ASSUME NEW h \in Handlers, ReplayError(h) \/ ReplayState(h) PROVE Replayed'
  BY <1>7 DEF ReplayError, ReplayState, Proceed, Answer, objects
<1>8. ASSUME NEW h \in Handlers, Fetch(h) PROVE Replayed'
  BY <1>8 DEF Fetch, Answer, objects
<1>9. ASSUME NEW h \in Handlers, ReadState(h) \/ ReadError(h) \/ ReadResult(h) \/ Disconnect(h)
      PROVE  Replayed'
  BY <1>9 DEF ReadState, ReadError, ReadResult, Disconnect, Proceed, Answer, objects
<1>10. CASE Restart
  BY <1>10 DEF Restart
<1>11. CASE UNCHANGED vars
  BY <1>11 DEF vars, request, objects
<1> HIDE DEF TypeOK, Replayed, Replaying, Goto
<1> QED
  BY <1>1, <1>2, <1>3, <1>4, <1>5, <1>6, <1>7, <1>8, <1>9, <1>10, <1>11 DEF Next, Serve

\* A client that retries an insert after the call before it has ended is told how the job
\* ended, and nothing that is still being written (server.go:246-262, 333-361).
THEOREM RetriesTold == ASSUME Patient PROVE Spec => []RetriesToldOutcome
<1>1. Init => Replayed /\ RetriesToldOutcome
  BY DEF Init, Replayed, Replaying, RetriesToldOutcome, NoReply
<1>2. TypeOK /\ Placed /\ Owned /\ NoOrphanRunning /\ OneInsert /\ Replayed /\ [Next]_vars => Replayed'
  BY ReplayedStep
<1>3. ASSUME Replayed, RetriesToldOutcome, [Next]_vars
      PROVE  RetriesToldOutcome'
  <2>1. ASSUME NEW h \in Handlers, NEW what, NEW r, Answer(h, what, r),
               what \notin {"replayedRunning", "replayedTorn"}
        PROVE  RetriesToldOutcome'
    BY <2>1 DEF Answer, RetriesToldOutcome
  <2>2. ASSUME Silent PROVE RetriesToldOutcome'
    BY <2>2 DEF Silent, NoReply, RetriesToldOutcome
  <2>3. ASSUME NEW h \in Handlers,
               Arrivals(h) \/ Generate(h) \/ Lookup(h) \/ Create(h) \/ Execute(h)
        PROVE  RetriesToldOutcome'
    BY <2>2, <2>3
    DEF Arrivals, StartQuery, StartInsert, StartResults, Arrive, Generate, Lookup, Create,
        Execute, AfterQuery, Proceed
  <2>4. ASSUME NEW h \in Handlers, Publish(h) \/ Settle(h) \/ Disconnect(h)
        PROVE  RetriesToldOutcome'
    BY <2>2, <2>4 DEF Publish, Settle, Disconnect, Proceed
  <2>5. ASSUME NEW h \in Handlers, AnswerDryRun(h) \/ Record(h) PROVE RetriesToldOutcome'
    BY <2>1, <2>5 DEF AnswerDryRun, Record, OutcomeOf
  <2>6. ASSUME NEW h \in Handlers, ReplayError(h) \/ ReplayState(h) PROVE RetriesToldOutcome'
    <3>1. pc[h] = "replayState" => state[job[h]] = "DONE"
      BY <1>3 DEF Replayed, Replaying
    <3> QED BY <2>1, <2>2, <2>6, <3>1 DEF ReplayError, ReplayState, Proceed
  <2>7. ASSUME NEW h \in Handlers, Fetch(h) \/ ReadState(h) \/ ReadError(h) \/ ReadResult(h)
        PROVE  RetriesToldOutcome'
    BY <2>1, <2>2, <2>7 DEF Fetch, ReadState, ReadError, ReadResult, Proceed
  <2>8. CASE Restart
    BY <2>2, <2>8 DEF Restart
  <2>9. CASE UNCHANGED vars
    BY <1>3, <2>9 DEF vars, RetriesToldOutcome
  <2> QED
    BY <1>3, <2>3, <2>4, <2>5, <2>6, <2>7, <2>8, <2>9 DEF Next, Serve
<1>4. OneRun => OneInsert
  BY DEF OneRun
<1> QED
  BY <1>1, <1>2, <1>3, <1>4, TypeCorrect, Ownership, NoOrphans, OneRunInvariant, PTL DEF Spec

\* What FinishedJobsAnswer needs to say the truth of a replay: a client that waits finds
\* its job finished when its retry comes.
FoundFinished ==
    /\ \A h \in Handlers :
          /\ pc[h] = "lookup" => id[h] \in ClientIds /\ (jobs[id[h]] # 0 => seen[h] = "finished")
          /\ pc[h] \in Replaying => seen[h] = "finished"
    /\ reply.said = "replayedDone" =>
          reply.seen = "finished" /\ reply.run = reply.job /\ reply.job \in 1 .. runs

\* A job that a client inserts once more, after it has waited, is finished.
LEMMA RetriedIsFinished ==
  ASSUME Patient, TypeOK, Placed, Owned, NoOrphanRunning,
         NEW h \in Handlers, NEW c \in ClientIds, StartInsert(h, c), jobs[c] # 0
  PROVE  Known(c) = "finished"
<1>1. \A g \in Handlers : id[g] = c => pc[g] \notin Inserting
  BY DEF StartInsert, Patient
<1>2. c \in JobIds /\ jobs[c] \in Runs /\ jobOf[jobs[c]] = c
  BY BoundsAssumption DEF JobIds, Owned, MapFits, TypeOK, MaybeRun, Runs
<1>3. state[jobs[c]] = "DONE"
  <2> SUFFICES ASSUME state[jobs[c]] = "RUNNING" PROVE FALSE
    BY <1>2 DEF TypeOK
  <2>1. PICK g \in Handlers : job[g] = jobs[c] /\ pc[g] \in {"execute", "publish", "settleState"}
    BY <1>2 DEF NoOrphanRunning
  <2>2. id[g] = c
    BY <1>2, <2>1 DEF Owned, HeldFits, Holding, Running
  <2> QED BY <1>1, <2>1, <2>2 DEF Inserting
<1>4. ASSUME NEW g \in Handlers, pc[g] \in Completing, jobs[id[g]] = jobs[c] PROVE FALSE
  <2>1. id[g] \in JobIds
    BY <1>4 DEF Placed, Completing
  <2>2. jobOf[jobs[id[g]]] = id[g]
    BY <1>4, <2>1 DEF Owned, MapFits
  <2> QED BY <1>1, <1>2, <1>4, <2>2 DEF Completing, Inserting
<1> QED BY <1>3, <1>4 DEF Known, Finished, BeingCompleted

\* A request keeps what it found of its job, and nobody else enters the id meanwhile.
LEMMA FoundFinishedStep ==
  ASSUME Patient, TypeOK, Placed, Owned, NoOrphanRunning, OneInsert, FoundFinished, [Next]_vars
  PROVE  FoundFinished'
<1> DEFINE Found(h) ==
       /\ pc[h] = "lookup" => id[h] \in ClientIds /\ (jobs[id[h]] # 0 => seen[h] = "finished")
       /\ pc[h] \in Replaying => seen[h] = "finished"
<1>1. runs \in Nat /\ runs' \in Nat /\ runs <= runs'
  BY RunsGrow
<1>2. \A g \in Handlers : Found(g)
  BY DEF FoundFinished
<1>3. ASSUME Silent \/ reply'.said # "replayedDone", \A g \in Handlers : Found(g)'
      PROVE  FoundFinished'
  BY <1>3 DEF FoundFinished, Silent, NoReply
<1>4. ASSUME NEW h \in Handlers, UNCHANGED jobs, Found(h)',
             \A g \in Handlers \ {h} : pc'[g] = pc[g] /\ id'[g] = id[g] /\ seen'[g] = seen[g]
      PROVE  \A g \in Handlers : Found(g)'
  BY <1>2, <1>4
<1> USE DEF TypeOK, Goto
<1>5. ASSUME NEW h \in Handlers, StartQuery(h) \/ \E j \in JobIds : StartResults(h, j)
      PROVE  FoundFinished'
  <2>1. /\ Silent /\ UNCHANGED jobs /\ pc'[h] \in {"generate", "fetch"}
        /\ \A g \in Handlers \ {h} : pc'[g] = pc[g] /\ id'[g] = id[g] /\ seen'[g] = seen[g]
    BY <1>5 DEF StartQuery, StartResults, Arrive
  <2>2. Found(h)'
    BY <2>1 DEF Replaying
  <2> QED BY <1>3, <1>4, <2>1, <2>2
<1>6. ASSUME NEW h \in Handlers, NEW c \in ClientIds, StartInsert(h, c) PROVE FoundFinished'
  <2>1. /\ Silent /\ UNCHANGED jobs
        /\ pc'[h] = "lookup" /\ id'[h] = c /\ seen'[h] = Known(c)
        /\ \A g \in Handlers \ {h} : pc'[g] = pc[g] /\ id'[g] = id[g] /\ seen'[g] = seen[g]
    BY <1>6 DEF StartInsert, Arrive
  <2>2. Found(h)'
    BY <1>6, <2>1, RetriedIsFinished DEF Replaying
  <2> QED BY <1>3, <1>4, <2>1, <2>2
<1>7. ASSUME NEW h \in Handlers, Generate(h) \/ Execute(h) \/ Publish(h) \/ Settle(h) \/ Disconnect(h)
      PROVE  FoundFinished'
  <2>1. /\ Silent /\ UNCHANGED jobs
        /\ pc'[h] \notin {"lookup"} \cup Replaying
        /\ \A g \in Handlers \ {h} : pc'[g] = pc[g] /\ id'[g] = id[g] /\ seen'[g] = seen[g]
    BY <1>7
    DEF Generate, Execute, AfterQuery, Publish, Settle, Disconnect, Proceed, Replaying
  <2> QED BY <1>3, <1>4, <2>1
<1>8. ASSUME NEW h \in Handlers, Lookup(h) PROVE FoundFinished'
  <2>1. /\ Silent /\ UNCHANGED <<jobs, id, seen>> /\ pc[h] = "lookup"
        /\ pc'[h] = IF jobs[id[h]] = 0 THEN "create" ELSE "replayError"
        /\ \A g \in Handlers \ {h} : pc'[g] = pc[g]
    BY <1>8 DEF Lookup, Adopted
  <2>2. Found(h)'
    BY <1>2, <2>1 DEF Replaying
  <2> QED BY <1>3, <1>4, <2>1, <2>2
<1>9. ASSUME NEW h \in Handlers, Create(h) PROVE FoundFinished'
  <2>1. /\ Silent /\ UNCHANGED <<id, seen>> /\ pc[h] = "create"
        /\ jobs' = [jobs EXCEPT ![id[h]] = runs']
        /\ pc' = [pc EXCEPT ![h] = "execute"]
    BY <1>9 DEF Create
  <2>2. \A g \in Handlers : pc[g] = "lookup" => id[g] # id[h]
    BY <1>2, <2>1 DEF OneInsert, Inserting
  <2>3. \A g \in Handlers : Found(g)'
    BY <1>2, <2>1, <2>2 DEF Replaying
  <2> QED BY <1>3, <2>1, <2>3
<1>10. ASSUME NEW h \in Handlers, AnswerDryRun(h) \/ Record(h) \/ Fetch(h) \/ ReadState(h)
                                  \/ ReadError(h) \/ ReadResult(h)
       PROVE  FoundFinished'
  <2>1. /\ Silent \/ reply'.said # "replayedDone"
        /\ UNCHANGED jobs /\ pc'[h] \notin {"lookup"} \cup Replaying
        /\ \A g \in Handlers \ {h} : pc'[g] = pc[g] /\ id'[g] = id[g] /\ seen'[g] = seen[g]
    BY <1>10
    DEF AnswerDryRun, Record, OutcomeOf, Fetch, ReadState, ReadError, ReadResult, Answer,
        Proceed, Replaying
  <2> QED BY <1>3, <1>4, <2>1
<1>11. ASSUME NEW h \in Handlers, ReplayError(h) \/ ReplayState(h) PROVE FoundFinished'
  <2>1. /\ UNCHANGED jobs /\ pc[h] \in Replaying
        /\ \A g \in Handlers \ {h} : pc'[g] = pc[g] /\ id'[g] = id[g] /\ seen'[g] = seen[g]
        /\ \/ pc'[h] = "idle"
           \/ pc'[h] = "replayState" /\ seen'[h] = seen[h] /\ Silent
    BY <1>11 DEF ReplayError, ReplayState, Answer, Proceed, Replaying
  <2>2. \A g \in Handlers : Found(g)'
    BY <1>2, <1>4, <2>1 DEF Replaying
  <2>3. job[h] \in 1 .. runs
    BY <1>1, <2>1, BoundsAssumption DEF Placed, Owned, HeldFits, Holding, Replaying, Runs
  <2>4. reply'.said = "replayedDone" =>
            reply'.seen = seen[h] /\ reply'.run = job[h] /\ reply'.job = job[h]
    BY <1>11 DEF ReplayError, ReplayState, Answer, Proceed, Silent, NoReply
  <2>5. job[h] \in 1 .. runs'
    BY <1>1, <2>3
  <2> QED BY <1>2, <2>1, <2>2, <2>4, <2>5 DEF FoundFinished
<1>12. CASE Restart
  BY <1>3, <1>12 DEF Restart, Replaying
<1>13. CASE UNCHANGED vars
  BY <1>13 DEF vars, request, history, FoundFinished
<1> HIDE DEF Goto, TypeOK
<1> QED
  BY <1>5, <1>6, <1>7, <1>8, <1>9, <1>10, <1>11, <1>12, <1>13 DEF Next, Arrivals, Serve

\* "only replays job's already-recorded outcome, success or failure alike" (server.go:334-339)
\* is true for clients that wait: a retry that is told DONE is told so of a job that succeeded.
THEOREM ReplaysTrue == ASSUME Patient PROVE Spec => []ReplayMatchesOutcome
<1>1. Init => FoundFinished
  BY DEF Init, FoundFinished, Replaying, NoReply
<1>2. TypeOK /\ Placed /\ Owned /\ NoOrphanRunning /\ OneInsert /\ FoundFinished /\ [Next]_vars
      => FoundFinished'
  BY FoundFinishedStep
<1>3. AllSole /\ FoundFinished /\ FinishedJobsAnswer => ReplayMatchesOutcome
  BY DEF AllSole, FoundFinished, FinishedJobsAnswer, ReplayMatchesOutcome
<1>4. OneRun => OneInsert
  BY DEF OneRun
<1> QED
  BY <1>1, <1>2, <1>3, <1>4, TypeCorrect, Ownership, NoOrphans, OneRunInvariant,
     FinishedAnswered, PTL DEF Spec

\* "tracks all executed jobs" (info_schema.go:88) is true in the first process that uses the
\* file, for clients that wait and stay: who is told that a query ended finds it listed.
THEOREM RowsComplete ==
  ASSUME Patient, ~ Disconnects, MaxRestarts = 0
  PROVE  Spec => []AnsweredRunsHaveRows
<1>1. TypeOK /\ AllSole => \A r \in 1 .. runs : OnlyRun(r)
  <2> SUFFICES ASSUME TypeOK, AllSole, NEW r \in 1 .. runs, NEW s \in 1 .. runs,
                      jobOf[s] = jobOf[r], s # r
               PROVE  FALSE
    BY DEF OnlyRun
  <2>1. r \in Runs /\ s \in Runs
    BY BoundsAssumption DEF TypeOK, MaybeRun, Runs
  <2>2. era[r] = 0 /\ era[s] = 0
    BY <2>1 DEF TypeOK, Eras
  <2> QED BY <2>2 DEF AllSole, Sole
<1>2. TypeOK /\ AllSole /\ RepliedRun /\ OnlyRunsListed => AnsweredRunsHaveRows
  BY <1>1 DEF RepliedRun, OnlyRunsListed, AnsweredRunsHaveRows
<1> QED
  BY <1>2, TypeCorrect, OneRunInvariant, JobsListed, PTL

-----------------------------------------------------------------------------
(* Jobs implements JobLedger *)

\* What the map shows of id j.
Shown(j) ==
    IF jobs[j] = 0 THEN "absent"
    ELSE IF ~ Finished(jobs[j]) THEN "running"
    ELSE IF errorOf[jobs[j]] # 0 THEN "failed" ELSE "succeeded"

\* CreateJob begins the query of its id.
LEMMA CreateBegins ==
  ASSUME TypeOK, Placed, Owned, AllSole', NEW h \in Handlers, Create(h)
  PROVE  /\ id' = id
         /\ id[h] \in JobIds /\ Shown(id[h]) = "absent" /\ Shown(id[h])' = "running"
         /\ \A j \in JobIds \ {id[h]} : Shown(j)' = Shown(j)
<1>0. runs \in Nat
  BY BoundsAssumption DEF TypeOK, MaybeRun
<1>1. /\ runs' = runs + 1 /\ runs' \in Runs /\ runs' # 0
      /\ pc' = [pc EXCEPT ![h] = "execute"] /\ id[h] \in JobIds
      /\ jobs' = [jobs EXCEPT ![id[h]] = runs']
      /\ jobOf' = [jobOf EXCEPT ![runs'] = id[h]] /\ era' = [era EXCEPT ![runs'] = restarts]
      /\ UNCHANGED <<id, state, errorOf>> /\ pc[h] = "create"
  BY <1>0, BoundsAssumption DEF Create, Goto, Placed, Runs, objects
<1>2. jobs[id[h]] = 0
  <2> SUFFICES ASSUME jobs[id[h]] # 0 PROVE FALSE
    OBVIOUS
  <2> DEFINE o == jobs[id[h]]
  <2>1. o \in Runs /\ o \in 1 .. runs' /\ o # runs' /\ runs' \in 1 .. runs'
        /\ jobOf[o] = id[h] /\ era[o] = restarts
    BY <1>0, <1>1, BoundsAssumption DEF Owned, MapFits, TypeOK, MaybeRun, Runs
  <2>2. jobOf'[o] = jobOf'[runs'] /\ era'[o] = era'[runs']
    BY <1>1, <2>1 DEF TypeOK
  <2> QED BY <2>1, <2>2 DEF AllSole, Sole
<1>3. state[runs'] = "RUNNING"
  BY <1>0, <1>1 DEF Owned, BlankBeyond
<1>4. Shown(id[h])' = "running"
  BY <1>1, <1>3 DEF Shown, Finished, TypeOK
<1>5. ASSUME NEW g \in Handlers, pc[g] \in Completing PROVE jobs[id[g]] # 0 /\ id[g] # id[h] /\ g # h
  BY <1>1, <1>2, <1>5 DEF Owned, OwnersRegistered, Own, Ended, Completing
<1>6. ASSUME NEW j \in JobIds \ {id[h]} PROVE Shown(j)' = Shown(j)
  <2>1. jobs'[j] = jobs[j]
    BY <1>1 DEF TypeOK
  <2>2. \A g \in Handlers : pc'[g] \in Completing <=> pc[g] \in Completing
    BY <1>1 DEF TypeOK, Completing
  <2>3. \A g \in Handlers : pc[g] \in Completing => jobs'[id[g]] = jobs[id[g]]
    BY <1>1, <1>5 DEF TypeOK
  <2>4. \A o : BeingCompleted(o)' <=> BeingCompleted(o)
    BY <1>1, <2>2, <2>3 DEF BeingCompleted
  <2>5. \A o : Finished(o)' <=> Finished(o)
    BY <1>1, <2>4 DEF Finished
  <2> QED BY <1>1, <2>1, <2>5 DEF Shown
<1> QED BY <1>1, <1>2, <1>4, <1>6 DEF Shown

\* CompleteJob's first write is not seen; with its second the query has ended.
LEMMA CompletionFinishes ==
  ASSUME TypeOK, Placed, Owned, AllSole, SoleProgress, NEW h \in Handlers, Publish(h) \/ Settle(h)
  PROVE  /\ id' = id
         /\ id[h] \in JobIds /\ Shown(id[h]) = "running"
         /\ Publish(h) => Shown(id[h])' = "running"
         /\ Settle(h) => Shown(id[h])' \in {"succeeded", "failed"}
         /\ \A j \in JobIds \ {id[h]} : Shown(j)' = Shown(j)
<1> DEFINE o == job[h]
<1>1. /\ pc[h] \in Own
      /\ Publish(h) => pc[h] = "publish"
      /\ Settle(h) => pc[h] \in Completing
  BY DEF Publish, Settle, Own, Ended, Completing
<1>2. /\ o \in 1 .. runs /\ id[h] \in JobIds /\ Sole(o) /\ jobs[id[h]] = o /\ o # 0 /\ o \in Runs
  <2>1. o \in 1 .. runs /\ id[h] \in JobIds /\ (Sole(o) => jobs[id[h]] = o)
    BY <1>1, SoleOwner
  <2>2. Sole(o)
    BY <2>1 DEF AllSole
  <2>3. runs \in 0 .. MaxRuns
    BY DEF TypeOK, MaybeRun
  <2>4. o # 0 /\ o \in Runs
    BY <2>1, <2>3, BoundsAssumption DEF Runs
  <2> QED BY <2>1, <2>2, <2>4
<1>3. /\ UNCHANGED <<jobs, id, job>>
      /\ \A g \in Handlers : g # h => pc'[g] = pc[g]
      /\ Publish(h) => pc'[h] \in Completing
      /\ Settle(h) => pc'[h] = "record"
      /\ \A r \in Runs : r # o => state'[r] = state[r] /\ errorOf'[r] = errorOf[r]
  <2>1. /\ UNCHANGED <<jobs, id, job>>
        /\ \A g \in Handlers : g # h => pc'[g] = pc[g]
        /\ Publish(h) => pc'[h] \in Completing
        /\ Settle(h) => pc'[h] = "record"
    BY <1>1 DEF Publish, Settle, Proceed, Goto, TypeOK, Completing
  <2>2. \A r \in Runs : r # o => state'[r] = state[r] /\ errorOf'[r] = errorOf[r]
    BY <1>2, CompletionWrites DEF TypeOK
  <2> QED BY <2>1, <2>2
<1>4. ASSUME NEW g \in Handlers, g # h, pc[g] \in Completing PROVE jobs[id[g]] # o
  <2>1. pc[g] \in Own
    BY <1>4 DEF Completing, Own, Ended
  <2>2. jobs[id[g]] = job[g]
    BY <2>1, SoleOwner DEF AllSole
  <2> QED BY <1>1, <1>4, <2>1, <2>2 DEF Owned, OwnersDiffer
<1>5. Shown(id[h]) = "running"
  <2>1. CASE Publish(h)
    BY <1>1, <1>2, <2>1 DEF SoleProgress, Shown, Finished
  <2>2. CASE Settle(h)
    BY <1>1, <1>2, <2>2 DEF Shown, Finished, BeingCompleted
  <2> QED BY <2>1, <2>2
<1>6. ASSUME Publish(h) PROVE Shown(id[h])' = "running"
  BY <1>2, <1>3, <1>6 DEF Shown, Finished, BeingCompleted
<1>7. ASSUME Settle(h) PROVE Shown(id[h])' \in {"succeeded", "failed"}
  <2>1. pc'[h] \notin Completing
    BY <1>3, <1>7 DEF Completing
  <2>2. ~ BeingCompleted(o)'
    BY <1>3, <1>4, <2>1 DEF BeingCompleted
  <2>3. state'[o] = "DONE"
    <3>1. CASE pc[h] = "settleState"
      BY <1>2, <1>7, <3>1 DEF Settle, WriteState, TypeOK
    <3>2. CASE pc[h] = "settleOutcome"
      BY <1>2, <1>7, <3>2 DEF Settle, SoleProgress
    <3> QED BY <1>7, <3>1, <3>2 DEF Settle
  <2> QED BY <1>2, <1>3, <2>2, <2>3 DEF Shown, Finished
<1>8. ASSUME NEW j \in JobIds \ {id[h]} PROVE Shown(j)' = Shown(j)
  <2>1. jobs[j] = 0 \/ (jobs[j] # o /\ jobs[j] \in Runs)
    BY <1>2, BoundsAssumption DEF Owned, MapFits, TypeOK, MaybeRun, Runs
  <2>2. \A r : r # o => (BeingCompleted(r)' <=> BeingCompleted(r))
    BY <1>2, <1>3 DEF BeingCompleted
  <2> QED BY <1>3, <2>1, <2>2 DEF Shown, Finished
<1> QED BY <1>2, <1>3, <1>5, <1>6, <1>7, <1>8

\* All other steps, but a restart, show nothing new.
LEMMA OthersUnseen ==
  ASSUME TypeOK, NEW h \in Handlers,
         \/ Arrivals(h) \/ Generate(h) \/ Lookup(h) \/ AnswerDryRun(h) \/ Record(h)
         \/ Execute(h) \/ ReplayError(h) \/ ReplayState(h) \/ Fetch(h) \/ ReadState(h)
         \/ ReadError(h) \/ ReadResult(h) \/ Disconnect(h)
  PROVE  \A j \in JobIds : Shown(j)' = Shown(j)
<1>1. /\ UNCHANGED <<jobs, state, errorOf>>
      /\ \A g \in Handlers : (pc'[g] \in Completing <=> pc[g] \in Completing)
      /\ \A g \in Handlers : pc[g] \in Completing => id'[g] = id[g]
  <2>1. CASE Execute(h)
    BY <2>1 DEF Execute, AfterQuery, Proceed, Goto, TypeOK, Completing, objects
  <2>2. CASE ~ Execute(h)
    <3>1. Completing \subseteq Own
      BY DEF Completing, Own, Ended
    <3> QED BY <2>2, <3>1, OtherSteps DEF objects
  <2> QED BY <2>1, <2>2
<1>2. \A o : BeingCompleted(o)' <=> BeingCompleted(o)
  BY <1>1 DEF BeingCompleted
<1>3. \A o : Finished(o)' <=> Finished(o)
  BY <1>1, <1>2 DEF Finished
<1> QED BY <1>1, <1>3 DEF Shown

\* What the map shows changes in one place only.
LEMMA OneChange ==
  ASSUME NEW S, NEW f, NEW g, NEW k \in S, NEW v,
         f = [j \in S |-> f[j]], g = [j \in S |-> g[j]],
         g[k] = v, \A j \in S \ {k} : g[j] = f[j]
  PROVE  g = [f EXCEPT ![k] = v]
OBVIOUS

\* If clients wait before they retry, jobs come and go as JobLedger promises: an id is
\* taken once in a process, and its outcome stands (server.go:246-361, meta.go:291-329).
THEOREM LedgerImplemented ==
  ASSUME Patient
  PROVE  Spec => Ledger!Init /\ [][Ledger!Next]_shown
<1>1. shown = [j \in JobIds |-> Shown(j)]
  BY DEF shown, Shown
<1>2. Init => Ledger!Init
  BY <1>1 DEF Init, Ledger!Init, Shown
<1>3. ASSUME TypeOK, Placed, Owned, AllSole, AllSole', SoleProgress, [Next]_vars
      PROVE  [Ledger!Next]_shown
  <2>1. shown' = [j \in JobIds |-> Shown(j)']
    BY DEF shown, Shown, JobIds, Generated
  <2>0. /\ shown = [j \in JobIds |-> shown[j]] /\ shown' = [j \in JobIds |-> shown'[j]]
        /\ \A j \in JobIds : shown[j] = Shown(j) /\ shown'[j] = Shown(j)'
    BY <1>1, <2>1
  <2>2. ASSUME NEW h \in Handlers, Create(h) PROVE Ledger!Next
    <3>1. /\ id[h] \in JobIds /\ shown[id[h]] = "absent" /\ shown'[id[h]] = "running"
          /\ \A j \in JobIds \ {id[h]} : shown'[j] = shown[j]
      BY <1>3, <2>0, <2>2, CreateBegins
    <3>2. shown' = [shown EXCEPT ![id[h]] = "running"]
      BY <2>0, <3>1, OneChange
    <3> QED BY <3>1, <3>2 DEF Ledger!Next, Ledger!Begin
  <2>3. ASSUME NEW h \in Handlers, Publish(h) PROVE shown' = shown
    <3>1. \A j \in JobIds : shown'[j] = shown[j]
      BY <1>3, <2>0, <2>3, CompletionFinishes
    <3> QED BY <2>0, <3>1
  <2>4. ASSUME NEW h \in Handlers, Settle(h) PROVE Ledger!Next
    <3>1. /\ id[h] \in JobIds /\ shown[id[h]] = "running"
          /\ shown'[id[h]] \in {"succeeded", "failed"}
          /\ \A j \in JobIds \ {id[h]} : shown'[j] = shown[j]
      BY <1>3, <2>0, <2>4, CompletionFinishes
    <3>2. shown' = [shown EXCEPT ![id[h]] = shown'[id[h]]]
      BY <2>0, <3>1, OneChange
    <3> QED BY <3>1, <3>2 DEF Ledger!Next, Ledger!Finish
  <2>5. CASE Restart
    <3>1. shown' = [j \in JobIds |-> "absent"]
      BY <2>1, <2>5 DEF Restart, Shown
    <3> QED BY <3>1 DEF Ledger!Next, Ledger!Forget
  <2>6. ASSUME NEW h \in Handlers,
               \/ Arrivals(h) \/ Generate(h) \/ Lookup(h) \/ AnswerDryRun(h) \/ Record(h)
               \/ Execute(h) \/ ReplayError(h) \/ ReplayState(h) \/ Fetch(h) \/ ReadState(h)
               \/ ReadError(h) \/ ReadResult(h) \/ Disconnect(h)
        PROVE  shown' = shown
    BY <1>1, <1>3, <2>1, <2>6, OthersUnseen
  <2>7. CASE UNCHANGED vars
    BY <2>7 DEF vars, objects, request, shown, Finished, BeingCompleted
  <2> QED
    BY <1>3, <2>2, <2>3, <2>4, <2>5, <2>6, <2>7 DEF Next, Serve
<1> QED
  BY <1>2, <1>3, TypeCorrect, Ownership, OneRunInvariant, SoleInvariant, PTL DEF Spec
============================================================================
