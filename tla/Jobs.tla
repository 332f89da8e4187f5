------------------------------- MODULE Jobs --------------------------------
(***************************************************************************)
(* Query jobs of the localbq server: the handlers of internal/api that     *)
(* create, run, complete, record and replay a job, and the in-memory job   *)
(* map of internal/meta they share.                                        *)
(*                                                                         *)
(* net/http runs every request in a goroutine of its own; here a request   *)
(* runs on a handler h, whose pc names its next step.  A step is a section *)
(* of code that no other handler can interleave with: a critical section   *)
(* of Store.mu, of Engine.mu or of jobMu, or one unlocked access to a      *)
(* field of a shared *Job.  Job objects and the runs of queries they stand *)
(* for are numbered 1, 2, ... in the order CreateJob makes them; 0 stands  *)
(* for "no job", a nil pointer and an empty job id.                        *)
(***************************************************************************)
EXTENDS Naturals, FiniteSets

CONSTANTS
    Handlers,       \* requests the server can be serving at one time
    NoHandler,      \* the holder of Store.mu when nobody writes
    ClientIds,      \* ids that clients put in a jobReference
    MaxGenerated,   \* bound: ids newJobID gives out in one process
    MaxRuns,        \* bound: jobs created over all restarts
    MaxRestarts,    \* bound: restarts of the server
    Disconnects,    \* may a client go away while its request is served?
    Overlap         \* may a client insert an id whose insert is in flight?

\* newJobID's "job_<n>" is the number n; a client may name a job like that too.
Generated == 1 .. MaxGenerated
JobIds == ClientIds \cup Generated
Runs == 1 .. MaxRuns
MaybeRun == 0 .. MaxRuns
Eras == 0 .. MaxRestarts

ASSUME NoHandlerAssumption == NoHandler \notin Handlers
ASSUME IdsAssumption == 0 \notin ClientIds
ASSUME BoundsAssumption ==
    /\ MaxGenerated \in Nat
    /\ MaxRuns \in Nat
    /\ MaxRestarts \in Nat
ASSUME SwitchesAssumption == Disconnects \in BOOLEAN /\ Overlap \in BOOLEAN

VARIABLES
    \* Memory of the server process.
    jobCounter,     \* server.go: the number newJobID gave out last
    jobs,           \* Store.jobs: the object under each id, 0 for no entry
    state,          \* Status.State of each object
    errorOf,        \* Status.Error of each object: the run that failed, or 0
    resultOf,       \* Result of each object: the run that produced it, or 0
    mu,             \* the handler that holds Store.mu across steps
    \* One request per handler.
    pc,             \* the handler's next step
    id,             \* the job id the request is about
    job,            \* the handler's own run, or the object GetJob returned
    live,           \* r.Context() has not been cancelled
    seen,           \* history: what the map held of id when the request came
    reply,          \* history: what the last step told a client, about which run
    \* The DuckDB file.
    row,            \* _bq_meta.jobs: the run recorded under each id
    \* History.
    runs,           \* runs created so far
    jobOf,          \* the id each run was created for
    era,            \* the process, counted in restarts, that created each run
    verdict,        \* what Engine.Query returned to the handler of each run
    restarts        \* restarts so far

objects == <<state, errorOf, resultOf>>
request == <<pc, id, job, live, seen>>
history == <<runs, jobOf, era, verdict, restarts>>
vars == <<jobCounter, jobs, objects, mu, request, reply, row, history>>

Inserting == {"lookup", "generate", "create", "execute", "publish",
              "settleState", "settleOutcome", "record"}
Replaying == {"replayError", "replayState"}
Reading == {"fetch", "readState", "readError", "readResult"}
Steps == {"idle"} \cup Inserting \cup Replaying \cup Reading
\* From CreateJob up to the reply: the steps that start and end a query.
Running == {"create", "execute", "publish", "settleState", "settleOutcome", "record"}
Completing == {"settleState", "settleOutcome"}

Replies == {"none", "dryRun", "ran", "failed", "replayedError", "replayedDone",
            "replayedRunning", "replayedTorn", "notFound", "pending", "error",
            "rows", "panic"}
Knowledge == {"nothing", "unfinished", "finished"}
Reply == [said : Replies, run : MaybeRun,
          id : JobIds \cup {0}, job : MaybeRun, seen : Knowledge]
NoReply == [said |-> "none", run |-> 0, id |-> 0, job |-> 0, seen |-> "nothing"]

TypeOK ==
    /\ jobCounter \in 0 .. MaxGenerated
    /\ jobs \in [JobIds -> MaybeRun]
    /\ state \in [Runs -> {"RUNNING", "DONE"}]
    /\ errorOf \in [Runs -> MaybeRun]
    /\ resultOf \in [Runs -> MaybeRun]
    /\ mu \in Handlers \cup {NoHandler}
    /\ pc \in [Handlers -> Steps]
    /\ id \in [Handlers -> JobIds \cup {0}]
    /\ job \in [Handlers -> MaybeRun]
    /\ live \in [Handlers -> BOOLEAN]
    /\ seen \in [Handlers -> Knowledge]
    /\ reply \in Reply
    /\ row \in [JobIds -> MaybeRun]
    /\ runs \in MaybeRun
    /\ jobOf \in [Runs -> JobIds \cup {0}]
    /\ era \in [Runs -> Eras]
    /\ verdict \in [Runs -> {"none", "ok", "failed"}]
    /\ restarts \in Eras

Init ==
    /\ jobCounter = 0
    /\ jobs = [j \in JobIds |-> 0]
    /\ state = [r \in Runs |-> "RUNNING"]
    /\ errorOf = [r \in Runs |-> 0]
    /\ resultOf = [r \in Runs |-> 0]
    /\ mu = NoHandler
    /\ pc = [h \in Handlers |-> "idle"]
    /\ id = [h \in Handlers |-> 0]
    /\ job = [h \in Handlers |-> 0]
    /\ live = [h \in Handlers |-> TRUE]
    /\ seen = [h \in Handlers |-> "nothing"]
    /\ reply = NoReply
    /\ row = [j \in JobIds |-> 0]
    /\ runs = 0
    /\ jobOf = [r \in Runs |-> 0]
    /\ era = [r \in Runs |-> 0]
    /\ verdict = [r \in Runs |-> "none"]
    /\ restarts = 0

-----------------------------------------------------------------------------
(* Helpers *)

\* CompleteJob's two writes to object o are under way.
BeingCompleted(o) ==
    \E h \in Handlers : pc[h] \in Completing /\ jobs[id[h]] = o

\* CompleteJob has returned for object o.
Finished(o) == state[o] = "DONE" /\ ~ BeingCompleted(o)

\* What the job map holds of id j.
Known(j) ==
    IF jobs[j] = 0 THEN "nothing"
    ELSE IF Finished(jobs[j]) THEN "finished" ELSE "unfinished"

Goto(h, step) == pc' = [pc EXCEPT ![h] = step]

\* This step tells no client anything.
Silent == reply' = NoReply

\* The request stays where it is in its handler's code, but for its next step.
Proceed(h, step) == Goto(h, step) /\ Silent /\ UNCHANGED <<id, job, live, seen>>

\* The request of handler h is answered; the handler is free.
Answer(h, what, r) ==
    /\ Goto(h, "idle")
    /\ reply' = [said |-> what, run |-> r, id |-> id[h], job |-> job[h], seen |-> seen[h]]
    /\ id' = [id EXCEPT ![h] = 0]
    /\ job' = [job EXCEPT ![h] = 0]
    /\ live' = [live EXCEPT ![h] = TRUE]
    /\ seen' = [seen EXCEPT ![h] = "nothing"]

\* The bounds leave room for every request that may still need a job and an id.
Budget ==
    LET waiting == Cardinality({h \in Handlers : pc[h] \in {"lookup", "generate", "create"}})
    IN  /\ runs + waiting < MaxRuns
        /\ jobCounter + waiting < MaxGenerated

\* A request that names job j (0: names none) arrives and starts at step.
Arrive(h, j, step, known) ==
    /\ pc[h] = "idle"
    /\ Goto(h, step)
    /\ id' = [id EXCEPT ![h] = j]
    /\ seen' = [seen EXCEPT ![h] = known]
    /\ Silent
    /\ UNCHANGED <<jobCounter, jobs, objects, mu, job, live, row, history>>

-----------------------------------------------------------------------------
(* jobs.query, and jobs.insert without a jobReference *)

StartQuery(h) == Budget /\ Arrive(h, 0, "generate", "nothing")

\* Mutant of Increment: two callers read the counter before either stores it.
LostIncrement(h) ==
    jobCounter' = IF \E g \in Handlers \ {h} : pc[g] = "generate"
                  THEN jobCounter ELSE jobCounter + 1
Increment(h) == jobCounter' = jobCounter + 1
\* newJobID, under jobMu.
Generate(h) ==
    /\ pc[h] = "generate"
    /\ jobCounter < MaxGenerated
    /\ Increment(h)
    /\ id' = [id EXCEPT ![h] = jobCounter + 1]
    /\ Goto(h, "create")
    /\ Silent
    /\ UNCHANGED <<jobs, objects, mu, job, live, seen, row, history>>

\* jobs.insert that names job c: a client's first call, or its retry.
StartInsert(h, c) ==
    /\ Budget
    /\ Overlap \/ \A g \in Handlers : id[g] = c => pc[g] \notin Inserting
    /\ Arrive(h, c, "lookup", Known(c))

\* The job a retried insert adopts.  Mutants: only a job that is DONE; only one
\* that did not fail.
AdoptedIfDone(o) == IF o # 0 /\ state[o] = "DONE" THEN o ELSE 0
AdoptedIfOk(o) == IF o # 0 /\ errorOf[o] = 0 THEN o ELSE 0
Adopted(o) == o

\* GetJob: a known id is answered from its stored job, an unknown one goes on.
Lookup(h) ==
    /\ pc[h] = "lookup"
    /\ mu = NoHandler
    /\ job' = [job EXCEPT ![h] = Adopted(jobs[id[h]])]
    /\ Goto(h, IF job'[h] = 0 THEN "create" ELSE "replayError")
    /\ Silent
    /\ UNCHANGED <<jobCounter, jobs, objects, mu, id, live, seen, row, history>>

\* A dry run answers before a job is created.
AnswerDryRun(h) ==
    /\ pc[h] = "create"
    /\ Answer(h, "dryRun", 0)
    /\ UNCHANGED <<jobCounter, jobs, objects, mu, row, history>>

\* CreateJob: a new object replaces whatever the map holds of the id.
Create(h) ==
    /\ pc[h] = "create"
    /\ mu = NoHandler
    /\ runs < MaxRuns
    /\ runs' = runs + 1
    /\ jobs' = [jobs EXCEPT ![id[h]] = runs']
    /\ job' = [job EXCEPT ![h] = runs']
    /\ jobOf' = [jobOf EXCEPT ![runs'] = id[h]]
    /\ era' = [era EXCEPT ![runs'] = restarts]
    /\ Goto(h, "execute")
    /\ Silent
    /\ UNCHANGED <<jobCounter, objects, mu, id, live, seen, row, verdict, restarts>>

\* What follows the query, failed or not.  Mutant: a failed one is not completed.
CompleteUnlessFailed(h, outcome) ==
    Proceed(h, IF outcome = "failed" THEN "record" ELSE "publish")
AfterQuery(h, outcome) == Proceed(h, "publish")

\* Engine.Query, under Engine.mu: it fails for a bad query or a cancelled context.
Execute(h) ==
    /\ pc[h] = "execute"
    /\ \E outcome \in {"ok", "failed"} :
          /\ outcome = "ok" => live[h]
          /\ verdict' = [verdict EXCEPT ![job[h]] = outcome]
          /\ AfterQuery(h, outcome)
    /\ UNCHANGED <<jobCounter, jobs, objects, mu, row, runs, jobOf, era, restarts>>

\* CompleteJob's two assignments to the object o that the map holds of the id.
\* Mutants: the wrong state; the outcomes exchanged.
WritePending(o) == state' = [state EXCEPT ![o] = "PENDING"]
WriteInverted(o, r) ==
    IF verdict[r] = "failed"
    THEN resultOf' = [resultOf EXCEPT ![o] = r] /\ UNCHANGED errorOf
    ELSE errorOf' = [errorOf EXCEPT ![o] = r] /\ UNCHANGED resultOf
WriteState(o) == state' = [state EXCEPT ![o] = "DONE"]
WriteOutcome(o, r) ==
    IF verdict[r] = "failed"
    THEN errorOf' = [errorOf EXCEPT ![o] = r] /\ UNCHANGED resultOf
    ELSE resultOf' = [resultOf EXCEPT ![o] = r] /\ UNCHANGED errorOf

\* CompleteJob takes Store.mu and makes one of its two writes; unlocked readers
\* of the object may see them in either order.  (An entry is never removed, so
\* CompleteJob's "not ok" return is not reached.)
Publish(h) ==
    LET o == jobs[id[h]]
    IN  /\ pc[h] = "publish"
        /\ mu = NoHandler
        /\ mu' = h
        /\ \/ WriteState(o) /\ UNCHANGED <<errorOf, resultOf>> /\ Proceed(h, "settleOutcome")
           \/ WriteOutcome(o, job[h]) /\ UNCHANGED state /\ Proceed(h, "settleState")
        /\ UNCHANGED <<jobCounter, jobs, row, history>>

\* Store.mu is released.  Mutant: the unlock is forgotten.
KeepMu(h) == mu' = h
ReleaseMu(h) == mu' = NoHandler

\* The second write, and the release of Store.mu.
Settle(h) ==
    LET o == jobs[id[h]]
    IN  /\ \/ pc[h] = "settleOutcome" /\ WriteOutcome(o, job[h]) /\ UNCHANGED state
           \/ pc[h] = "settleState" /\ WriteState(o) /\ UNCHANGED <<errorOf, resultOf>>
        /\ ReleaseMu(h)
        /\ Proceed(h, "record")
        /\ UNCHANGED <<jobCounter, jobs, row, history>>

\* What the client of run r is told.  Mutant: as the job map has it under id j.
OutcomeInMap(j, r) == IF errorOf[jobs[j]] = 0 THEN "ran" ELSE "failed"
OutcomeOf(j, r) == IF verdict[r] = "ok" THEN "ran" ELSE "failed"

\* RecordJob, then the reply.  The INSERT fails, unnoticed, on a cancelled
\* context and on a primary key that is already there.
Record(h) ==
    /\ pc[h] = "record"
    /\ row' = IF live[h] /\ row[id[h]] = 0
              THEN [row EXCEPT ![id[h]] = job[h]]
              ELSE row
    /\ Answer(h, OutcomeOf(id[h], job[h]), job[h])
    /\ UNCHANGED <<jobCounter, jobs, objects, mu, history>>

-----------------------------------------------------------------------------
(* writeJobResponse: the replay of a known job, read without Store.mu *)

\* Status.Error of object o.  Mutant: only its state is looked at, as jobs.get does.
NoError(o) == 0
ErrorOf(o) == errorOf[o]

ReplayError(h) ==
    LET o == job[h]
    IN  /\ pc[h] = "replayError"
        /\ IF ErrorOf(o) # 0
           THEN Answer(h, "replayedError", ErrorOf(o))
           ELSE Proceed(h, "replayState")
        /\ UNCHANGED <<jobCounter, jobs, objects, mu, row, history>>

\* A string is two words: a read that races CompleteJob's write may mix them.
ReplayState(h) ==
    LET o == job[h]
    IN  /\ pc[h] = "replayState"
        /\ \/ Answer(h, IF state[o] = "DONE" THEN "replayedDone" ELSE "replayedRunning", o)
           \/ /\ state[o] = "RUNNING"
              /\ BeingCompleted(o)
              /\ Answer(h, "replayedTorn", o)
        /\ UNCHANGED <<jobCounter, jobs, objects, mu, row, history>>

-----------------------------------------------------------------------------
(* jobs.getQueryResults *)

StartResults(h, j) == Arrive(h, j, "fetch", Known(j))

Fetch(h) ==
    LET o == jobs[id[h]]
    IN  /\ pc[h] = "fetch"
        /\ mu = NoHandler
        /\ IF o = 0
           THEN Answer(h, "notFound", 0)
           ELSE /\ Goto(h, "readState")
                /\ job' = [job EXCEPT ![h] = o]
                /\ Silent
                /\ UNCHANGED <<id, live, seen>>
        /\ UNCHANGED <<jobCounter, jobs, objects, mu, row, history>>

\* Unlocked; a torn state differs from DONE like RUNNING does.
ReadState(h) ==
    LET o == job[h]
    IN  /\ pc[h] = "readState"
        /\ IF state[o] = "DONE" THEN Proceed(h, "readError")
                                ELSE Answer(h, "pending", o)
        /\ UNCHANGED <<jobCounter, jobs, objects, mu, row, history>>

ReadError(h) ==
    LET o == job[h]
    IN  /\ pc[h] = "readError"
        /\ IF ErrorOf(o) # 0 THEN Answer(h, "error", ErrorOf(o))
                             ELSE Proceed(h, "readResult")
        /\ UNCHANGED <<jobCounter, jobs, objects, mu, row, history>>

\* buildQueryResponse dereferences the result: on nil the handler panics.
ReadResult(h) ==
    LET o == job[h]
    IN  /\ pc[h] = "readResult"
        /\ Answer(h, IF resultOf[o] = 0 THEN "panic" ELSE "rows", resultOf[o])
        /\ UNCHANGED <<jobCounter, jobs, objects, mu, row, history>>

-----------------------------------------------------------------------------
(* The environment *)

\* The client goes away, or its timeout ends: r.Context() is cancelled.  Only
\* Query and RecordJob use the context, so it matters before these two.
Disconnect(h) ==
    /\ Disconnects
    /\ pc[h] \in {"execute", "record"}
    /\ live[h]
    /\ live' = [live EXCEPT ![h] = FALSE]
    /\ Silent
    /\ UNCHANGED <<jobCounter, jobs, objects, mu, pc, id, job, seen, row, history>>

\* The process stops, at any point, and a new one opens the same file.
Restart ==
    /\ restarts < MaxRestarts
    /\ restarts' = restarts + 1
    /\ jobCounter' = 0
    /\ jobs' = [j \in JobIds |-> 0]
    /\ mu' = NoHandler
    /\ pc' = [h \in Handlers |-> "idle"]
    /\ id' = [h \in Handlers |-> 0]
    /\ job' = [h \in Handlers |-> 0]
    /\ live' = [h \in Handlers |-> TRUE]
    /\ seen' = [h \in Handlers |-> "nothing"]
    /\ state' = [r \in Runs |-> "RUNNING"]
    /\ errorOf' = [r \in Runs |-> 0]
    /\ resultOf' = [r \in Runs |-> 0]
    /\ Silent
    /\ UNCHANGED <<row, runs, jobOf, era, verdict>>

Arrivals(h) ==
    \/ StartQuery(h)
    \/ \E c \in ClientIds : StartInsert(h, c)
    \/ \E j \in JobIds : StartResults(h, j)

\* A step of the request h is serving.
Serve(h) ==
    \/ Generate(h) \/ Lookup(h) \/ AnswerDryRun(h) \/ Create(h) \/ Execute(h)
    \/ Publish(h) \/ Settle(h) \/ Record(h)
    \/ ReplayError(h) \/ ReplayState(h)
    \/ Fetch(h) \/ ReadState(h) \/ ReadError(h) \/ ReadResult(h)

Next ==
    \/ \E h \in Handlers : Arrivals(h) \/ Serve(h) \/ Disconnect(h)
    \/ Restart

Spec == Init /\ [][Next]_vars

\* The Go scheduler runs every goroutine, and RWMutex and Mutex let every waiter in.
FairSpec == Spec /\ \A h \in Handlers : WF_vars(Serve(h))

-----------------------------------------------------------------------------
(* Properties *)

\* Run r is the only one of its process that was created for its id.
Sole(r) ==
    \A s \in 1 .. runs : s # r /\ jobOf[s] = jobOf[r] => era[s] # era[r]

\* An insert of an id that the server already knew when the request came never
\* starts a query, whatever else the server is serving (server.go:246-262).
RetryAdopts ==
    \A h \in Handlers : seen[h] # "nothing" => pc[h] \notin Running

\* A job under an id that newJobID made and no client named is its caller's own:
\* no second run of the process gets the id, and only that run's outcome is stored.
GeneratedJobsPrivate ==
    \A r \in 1 .. runs :
        jobOf[r] \notin ClientIds =>
            Sole(r) /\ errorOf[r] \in {0, r} /\ resultOf[r] \in {0, r}

\* The outcome stored in a job is that of a run of the same id in the same
\* process, an error only of a run that failed, a result only of one that did not
\* (CompleteJob finds the job by id, and may find another request's object).
OutcomeBelongsToId ==
    \A o \in 1 .. runs :
        /\ errorOf[o] # 0 => /\ jobOf[errorOf[o]] = jobOf[o]
                             /\ era[errorOf[o]] = era[o]
                             /\ verdict[errorOf[o]] = "failed"
        /\ resultOf[o] # 0 => /\ jobOf[resultOf[o]] = jobOf[o]
                              /\ era[resultOf[o]] = era[o]
                              /\ verdict[resultOf[o]] = "ok"

\* A job the map shows as RUNNING has a request that is still going to complete it:
\* no failure, cancelled context or overwritten entry leaves it RUNNING for ever.
NoOrphanRunning ==
    \A j \in JobIds :
        jobs[j] # 0 /\ state[jobs[j]] = "RUNNING" =>
            \E h \in Handlers :
                job[h] = jobs[j] /\ pc[h] \in {"execute", "publish", "settleState"}

\* A job that was finished when a request for it came, under an id only one run of
\* the process used, answers with its outcome: never "running", torn or a nil result.
FinishedJobsAnswer ==
    reply.seen = "finished" /\ reply.said # "none" =>
        /\ reply.job # 0
        /\ Sole(reply.job) =>
               reply.said \in IF verdict[reply.job] = "ok"
                              THEN {"replayedDone", "rows"}
                              ELSE {"replayedError", "error"}

\* Whatever run a client is told about belongs to the id it asked for, and a
\* client is told of a failure or of rows only if that run failed or gave rows.
AnswersAreTrue ==
    reply.run # 0 =>
        /\ jobOf[reply.run] = reply.id
        /\ reply.said \in {"failed", "error", "replayedError"} => verdict[reply.run] = "failed"
        /\ reply.said \in {"ran", "rows"} => verdict[reply.run] = "ok"

\* INFORMATION_SCHEMA lists under an id only a run of that id that has ended, and
\* if this process ran it, jobs.get no longer shows that job as running.
RowsAreOfFinishedRuns ==
    \A j \in JobIds :
        LET r == row[j]
        IN  r # 0 =>
                /\ jobOf[r] = j
                /\ verdict[r] # "none"
                /\ era[r] = restarts /\ Sole(r) => jobs[j] = r /\ Finished(r)

-----------------------------------------------------------------------------
(* Clients that wait for an insert before they retry it (Overlap = FALSE) *)

\* What the job map shows of each id.
shown ==
    [j \in JobIds |->
        IF jobs[j] = 0 THEN "absent"
        ELSE IF ~ Finished(jobs[j]) THEN "running"
        ELSE IF errorOf[jobs[j]] # 0 THEN "failed" ELSE "succeeded"]

Ledger == INSTANCE JobLedger WITH Ids <- JobIds, status <- shown

\* Jobs come and go as JobLedger promises: an id is taken once, and its outcome
\* stands until the process stops.
ImplementsLedger == Ledger!Spec

\* A client that retries an insert after the first call has ended is told its
\* outcome: it never meets a job that runs, or one half written.
RetriesToldOutcome ==
    reply.said \notin {"replayedRunning", "replayedTorn"}

\* Every request is answered, unless the process stops: no request waits for ever
\* for Store.mu, and no handler ends without a reply.
RequestsAnswered ==
    \A h \in Handlers : pc[h] # "idle" ~> pc[h] = "idle"

-----------------------------------------------------------------------------
(* What the comments of the code say, and overlapping requests do not keep *)

\* server.go:246-252: a retried insert "adopts the same job rather than starting a
\* second one it pays for twice", "the query never runs twice".
RunsOncePerProcess ==
    \A r, s \in 1 .. runs :
        /\ r # s /\ jobOf[r] = jobOf[s] /\ jobOf[r] \in ClientIds /\ era[r] = era[s]
        => "none" \in {verdict[r], verdict[s]}

\* server.go:334-339: a repeated insert "only replays job's already-recorded outcome,
\* success or failure alike": it does not tell of a failed run that it is DONE.
ReplayMatchesOutcome ==
    reply.said = "replayedDone" => verdict[reply.run] # "failed"

\* info_schema.go:88: JOBS_BY_PROJECT "tracks all executed jobs".
AnsweredRunsHaveRows ==
    reply.said \in {"ran", "failed"} => row[reply.id] = reply.run
============================================================================
