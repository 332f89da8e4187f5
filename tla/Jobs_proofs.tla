---------------------------- MODULE Jobs_proofs -----------------------------
(***************************************************************************)
(* Proofs about module Jobs, for every number of handlers, every set of    *)
(* client ids and every bound.                                             *)
(***************************************************************************)
EXTENDS Jobs, TLAPS

-----------------------------------------------------------------------------
(* Types *)

\* The part of TypeOK that a step of a request changes in the request and its reply.
RequestOK ==
    /\ pc \in [Handlers -> Steps]
    /\ id \in [Handlers -> JobIds \cup {0}]
    /\ job \in [Handlers -> MaybeRun]
    /\ live \in [Handlers -> BOOLEAN]
    /\ seen \in [Handlers -> Knowledge]
    /\ reply \in Reply

\* From CreateJob or GetJob on, a request holds a job object.
Holding == (Running \ {"create"}) \cup Replaying \cup (Reading \ {"fetch"})

\* What TypeOK needs to be inductive: a request that reads the job map names an id,
\* and one that reads an object has it, so no step follows a nil pointer.
Placed ==
    \A h \in Handlers :
        /\ pc[h] \notin {"idle", "generate"} => id[h] \in JobIds
        /\ pc[h] \in Holding => job[h] \in Runs

\* Telling no client anything is a typed reply.
LEMMA SilentTyped == ASSUME Silent PROVE reply' \in Reply
BY BoundsAssumption DEF Silent, NoReply, Reply, Replies, Knowledge, MaybeRun

\* Moving on to a next step keeps requests and replies typed.
LEMMA ProceedTyped ==
  ASSUME RequestOK, NEW h \in Handlers, NEW step \in Steps, Proceed(h, step)
  PROVE  RequestOK'
BY SilentTyped DEF RequestOK, Proceed, Goto

\* So does answering a request, with any reply about any run.
LEMMA AnswerTyped ==
  ASSUME RequestOK, NEW h \in Handlers, NEW what \in Replies, NEW r \in MaybeRun,
         Answer(h, what, r)
  PROVE  RequestOK'
<1>1. reply' \in Reply
  BY DEF RequestOK, Answer, Reply
<1>2. 0 \in MaybeRun
  BY BoundsAssumption DEF MaybeRun
<1>3. QED
  BY <1>1, <1>2 DEF RequestOK, Answer, Goto, Steps, Knowledge

\* So does the arrival of a request for any id, or none.
LEMMA ArriveTyped ==
  ASSUME RequestOK, NEW h \in Handlers, NEW j \in JobIds \cup {0}, NEW step \in Steps,
         NEW known \in Knowledge, Arrive(h, j, step, known)
  PROVE  RequestOK'
BY SilentTyped DEF RequestOK, Arrive, Goto

\* Every variable keeps to its declared range: no step of a handler stores what
\* the types of the Go code would not hold.
THEOREM TypeCorrect == Spec => [](TypeOK /\ Placed)
<1>1. Init => TypeOK
  BY BoundsAssumption
  DEF Init, TypeOK, Runs, MaybeRun, Eras, Steps, Reply, NoReply, Replies, Knowledge
<1>2. Init => Placed
  BY DEF Init, Placed, Holding, Running, Replaying, Reading
<1>3. TypeOK /\ Placed /\ [Next]_vars => TypeOK'
  <2> SUFFICES ASSUME TypeOK, Placed, [Next]_vars PROVE TypeOK'
    OBVIOUS
  <2>0. RequestOK
    BY DEF TypeOK, RequestOK
  <2>1. ASSUME NEW h \in Handlers, Arrivals(h) PROVE TypeOK'
    <3>1. \A j \in JobIds : Known(j) \in Knowledge
      BY DEF Known, Knowledge
    <3>2. RequestOK'
      BY <2>0, <2>1, <3>1, ArriveTyped
      DEF Arrivals, StartQuery, StartInsert, StartResults, JobIds, Steps, Inserting,
          Reading, Knowledge
    <3> QED
      BY <2>1, <3>2
      DEF TypeOK, RequestOK, Arrivals, StartQuery, StartInsert, StartResults, Arrive,
          objects, history
  <2>2. ASSUME NEW h \in Handlers, Generate(h) PROVE TypeOK'
    <3>1. jobCounter + 1 \in Generated /\ jobCounter' = jobCounter + 1
      BY <2>2, BoundsAssumption DEF TypeOK, Generate, Increment, Generated
    <3>2. RequestOK'
      BY <2>0, <2>2, <3>1, SilentTyped
      DEF RequestOK, Generate, Goto, Steps, Inserting, JobIds
    <3> QED
      BY <2>2, <3>1, <3>2, BoundsAssumption
      DEF TypeOK, RequestOK, Generate, Generated, objects, history
  <2>3. ASSUME NEW h \in Handlers, Lookup(h) PROVE TypeOK'
    <3>1. id[h] \in JobIds
      BY <2>3 DEF Lookup, Placed
    <3>2. RequestOK'
      BY <2>0, <2>3, <3>1, SilentTyped
      DEF TypeOK, RequestOK, Lookup, Adopted, Goto, Steps, Inserting, Replaying
    <3> QED
      BY <2>3, <3>2 DEF TypeOK, RequestOK, Lookup, objects, history
  <2>4. ASSUME NEW h \in Handlers, Create(h) PROVE TypeOK'
    <3>1. runs + 1 \in Runs /\ runs' = runs + 1
      BY <2>4, BoundsAssumption DEF TypeOK, Create, Runs, MaybeRun
    <3>2. RequestOK'
      BY <2>0, <2>4, <3>1, SilentTyped
      DEF RequestOK, Create, Goto, Steps, Inserting, Runs, MaybeRun
    <3> QED
      BY <2>4, <3>1, <3>2
      DEF TypeOK, RequestOK, Create, objects, Runs, MaybeRun
  <2>5. ASSUME NEW h \in Handlers, Execute(h) PROVE TypeOK'
    <3>1. RequestOK'
      BY <2>0, <2>5, ProceedTyped DEF Execute, AfterQuery, Steps, Inserting
    <3> QED
      BY <2>5, <3>1 DEF TypeOK, RequestOK, Execute, objects
  <2>6. ASSUME NEW h \in Handlers, Publish(h) \/ Settle(h) PROVE TypeOK'
    <3>1. RequestOK'
      BY <2>0, <2>6, ProceedTyped DEF Publish, Settle, Steps, Inserting
    <3>2. /\ state' \in [Runs -> {"RUNNING", "DONE"}]
          /\ errorOf' \in [Runs -> MaybeRun]
          /\ resultOf' \in [Runs -> MaybeRun]
      BY <2>6 DEF TypeOK, Publish, Settle, WriteState, WriteOutcome
    <3> QED
      BY <2>6, <3>1, <3>2
      DEF TypeOK, RequestOK, Publish, Settle, ReleaseMu, history
  <2>7. ASSUME NEW h \in Handlers, Record(h) PROVE TypeOK'
    <3>1. RequestOK'
      BY <2>0, <2>7, AnswerTyped DEF RequestOK, Record, OutcomeOf, Replies
    <3> QED
      BY <2>7, <3>1 DEF TypeOK, RequestOK, Record, objects, history
  <2>8. ASSUME NEW h \in Handlers, AnswerDryRun(h) PROVE TypeOK'
    <3>1. RequestOK'
      BY <2>0, <2>8, AnswerTyped, BoundsAssumption DEF AnswerDryRun, Replies, MaybeRun
    <3> QED
      BY <2>8, <3>1 DEF TypeOK, RequestOK, AnswerDryRun, objects, history
  <2>9. ASSUME NEW h \in Handlers, ReplayError(h) \/ ReplayState(h) PROVE TypeOK'
    <3>1. ErrorOf(job[h]) \in MaybeRun
      BY <2>9 DEF TypeOK, Placed, Holding, Replaying, ErrorOf, ReplayError, ReplayState
    <3>2. RequestOK'
      BY <2>0, <2>9, <3>1, AnswerTyped, ProceedTyped
      DEF RequestOK, ReplayError, ReplayState, Replies, Steps, Replaying
    <3> QED
      BY <2>9, <3>2 DEF TypeOK, RequestOK, ReplayError, ReplayState, objects, history
  <2>10. ASSUME NEW h \in Handlers, Fetch(h) PROVE TypeOK'
    <3>1. id[h] \in JobIds
      BY <2>10 DEF Fetch, Placed
    <3>2. jobs[id[h]] \in MaybeRun
      BY <3>1 DEF TypeOK
    <3>3. RequestOK'
      <4>1. CASE jobs[id[h]] = 0
        BY <2>0, <2>10, <3>2, <4>1, AnswerTyped DEF Fetch, Replies
      <4>2. CASE jobs[id[h]] # 0
        BY <2>0, <2>10, <3>2, <4>2, SilentTyped
        DEF RequestOK, Fetch, Goto, Steps, Reading
      <4> QED
        BY <4>1, <4>2
    <3> QED
      BY <2>10, <3>3 DEF TypeOK, RequestOK, Fetch, objects, history
  <2>11. ASSUME NEW h \in Handlers, ReadState(h) \/ ReadError(h) \/ ReadResult(h)
         PROVE  TypeOK'
    <3>1. ErrorOf(job[h]) \in MaybeRun /\ resultOf[job[h]] \in MaybeRun
      BY <2>11
      DEF TypeOK, Placed, Holding, Reading, ErrorOf, ReadState, ReadError, ReadResult
    <3>2. RequestOK'
      <4>1. CASE ReadState(h)
        BY <2>0, <4>1, AnswerTyped, ProceedTyped
        DEF RequestOK, ReadState, Replies, Steps, Reading
      <4>2. CASE ReadError(h)
        BY <2>0, <3>1, <4>2, AnswerTyped, ProceedTyped
        DEF ReadError, Replies, Steps, Reading
      <4>3. CASE ReadResult(h)
        BY <2>0, <3>1, <4>3, AnswerTyped DEF ReadResult, Replies
      <4> QED
        BY <2>11, <4>1, <4>2, <4>3
    <3> QED
      BY <2>11, <3>2
      DEF TypeOK, RequestOK, ReadState, ReadError, ReadResult, objects, history
  <2>12. ASSUME NEW h \in Handlers, Disconnect(h) PROVE TypeOK'
    BY <2>12, SilentTyped DEF TypeOK, Disconnect, objects, history
  <2>13. ASSUME Restart PROVE TypeOK'
    BY <2>13, SilentTyped, BoundsAssumption
    DEF TypeOK, Restart, Steps, Knowledge, MaybeRun, Eras
  <2>14. CASE UNCHANGED vars
    BY <2>14 DEF TypeOK, vars, objects, request, history
  <2> QED
    BY <2>1, <2>2, <2>3, <2>4, <2>5, <2>6, <2>7, <2>8, <2>9, <2>10, <2>11, <2>12,
       <2>13, <2>14 DEF Next, Serve
<1>4. TypeOK /\ Placed /\ [Next]_vars => Placed'
  <2> SUFFICES ASSUME TypeOK, Placed, [Next]_vars PROVE Placed'
    OBVIOUS
  <2> USE DEF TypeOK, Placed, Holding, Running, Replaying, Reading, Goto
  <2>1. ASSUME NEW h \in Handlers, Arrivals(h) PROVE Placed'
    BY <2>1 DEF Arrivals, StartQuery, StartInsert, StartResults, Arrive, JobIds
  <2>2. ASSUME NEW h \in Handlers, Generate(h) PROVE Placed'
    BY <2>2, BoundsAssumption DEF Generate, JobIds, Generated
  <2>3. ASSUME NEW h \in Handlers, Lookup(h) PROVE Placed'
    BY <2>3 DEF Lookup, Adopted, MaybeRun, Runs
  <2>4. ASSUME NEW h \in Handlers, Create(h) PROVE Placed'
    BY <2>4, BoundsAssumption DEF Create, MaybeRun, Runs
  <2>5. ASSUME NEW h \in Handlers, Execute(h) \/ Publish(h) \/ Settle(h) PROVE Placed'
    BY <2>5 DEF Execute, AfterQuery, Publish, Settle, Proceed
  <2>6. ASSUME NEW h \in Handlers, AnswerDryRun(h) \/ Record(h) PROVE Placed'
    BY <2>6 DEF AnswerDryRun, Record, Answer
  <2>7. ASSUME NEW h \in Handlers, ReplayError(h) \/ ReplayState(h) PROVE Placed'
    BY <2>7 DEF ReplayError, ReplayState, Proceed, Answer
  <2>8. ASSUME NEW h \in Handlers, Fetch(h) PROVE Placed'
    <3>1. id[h] \in JobIds /\ pc[h] = "fetch"
      BY <2>8 DEF Fetch
    <3>2. CASE jobs[id[h]] = 0
      BY <2>8, <3>1, <3>2 DEF Fetch, Answer
    <3>3. CASE jobs[id[h]] # 0
      <4>1. jobs[id[h]] \in Runs
        BY <3>1, <3>3, BoundsAssumption DEF MaybeRun, Runs
      <4> QED
        BY <2>8, <3>1, <3>3, <4>1 DEF Fetch
    <3> QED
      BY <3>2, <3>3
  <2>9. ASSUME NEW h \in Handlers, ReadState(h) \/ ReadError(h) \/ ReadResult(h)
        PROVE  Placed'
    BY <2>9 DEF ReadState, ReadError, ReadResult, Proceed, Answer
  <2>10. ASSUME NEW h \in Handlers, Disconnect(h) PROVE Placed'
    BY <2>10 DEF Disconnect
  <2>11. CASE Restart
    BY <2>11 DEF Restart
  <2>12. CASE UNCHANGED vars
    BY <2>12 DEF vars, request
  <2> HIDE DEF TypeOK, Placed, Holding, Running, Replaying, Reading, Goto
  <2> QED
    BY <2>1, <2>2, <2>3, <2>4, <2>5, <2>6, <2>7, <2>8, <2>9, <2>10, <2>11, <2>12
    DEF Next, Serve
<1>5. QED
  BY <1>1, <1>2, <1>3, <1>4, PTL DEF Spec

-----------------------------------------------------------------------------
(* Retries *)

\* The inductive form of RetryAdopts: an insert whose id was known when it came
\* still finds the id in the map when it looks, since no entry is ever removed.
Adoption ==
    \A h \in Handlers :
        seen[h] # "nothing" =>
            \/ pc[h] = "lookup" /\ jobs[id[h]] # 0
            \/ pc[h] \in {"idle"} \cup Replaying \cup Reading

\* A retried insert never runs its query again if the server knew the id when the
\* retry came (server.go:246-262), for any number of concurrent requests.
THEOREM RetriesAdopt == Spec => []RetryAdopts
<1>1. Init => Adoption
  BY DEF Init, Adoption
<1>2. TypeOK /\ Placed /\ Adoption /\ [Next]_vars => Adoption'
  <2> SUFFICES ASSUME TypeOK, Placed, Adoption, [Next]_vars PROVE Adoption'
    OBVIOUS
  <2> USE DEF TypeOK, Adoption, Replaying, Reading, Goto
  <2>1. ASSUME NEW h \in Handlers, Arrivals(h) PROVE Adoption'
    BY <2>1 DEF Arrivals, StartQuery, StartInsert, StartResults, Arrive, Known, JobIds
  <2>2. ASSUME NEW h \in Handlers, Generate(h) PROVE Adoption'
    BY <2>2 DEF Generate
  <2>3. ASSUME NEW h \in Handlers, Lookup(h) PROVE Adoption'
    BY <2>3 DEF Lookup, Adopted
  <2>4. ASSUME NEW h \in Handlers, Create(h) PROVE Adoption'
    <3>1. runs' # 0 /\ jobs' = [jobs EXCEPT ![id[h]] = runs']
      BY <2>4, BoundsAssumption DEF Create, MaybeRun
    <3>2. \A g \in Handlers : pc[g] = "lookup" => id[g] \in JobIds
      BY DEF Placed
    <3> QED
      BY <2>4, <3>1, <3>2 DEF Create
  <2>5. ASSUME NEW h \in Handlers,
               Execute(h) \/ Publish(h) \/ Settle(h) \/ Record(h) \/ AnswerDryRun(h)
        PROVE  Adoption'
    BY <2>5
    DEF Execute, AfterQuery, Publish, Settle, Record, AnswerDryRun, Proceed, Answer
  <2>6. ASSUME NEW h \in Handlers, ReplayError(h) \/ ReplayState(h) PROVE Adoption'
    BY <2>6 DEF ReplayError, ReplayState, Proceed, Answer
  <2>7. ASSUME NEW h \in Handlers,
               Fetch(h) \/ ReadState(h) \/ ReadError(h) \/ ReadResult(h)
        PROVE  Adoption'
    BY <2>7 DEF Fetch, ReadState, ReadError, ReadResult, Proceed, Answer
  <2>8. ASSUME NEW h \in Handlers, Disconnect(h) PROVE Adoption'
    BY <2>8 DEF Disconnect
  <2>9. CASE Restart
    BY <2>9 DEF Restart
  <2>10. CASE UNCHANGED vars
    BY <2>10 DEF vars, request
  <2> HIDE DEF TypeOK, Adoption, Replaying, Reading, Goto
  <2> QED
    BY <2>1, <2>2, <2>3, <2>4, <2>5, <2>6, <2>7, <2>8, <2>9, <2>10 DEF Next, Serve
<1>3. Adoption => RetryAdopts
  BY DEF Adoption, RetryAdopts, Running, Replaying, Reading
<1>4. QED
  BY <1>1, <1>2, <1>3, TypeCorrect, PTL DEF Spec

-----------------------------------------------------------------------------
(* Who owns which job *)

\* The steps of a handler whose query has ended, and those with a run of its own.
Ended == {"publish", "settleState", "settleOutcome", "record"}
Own == {"execute"} \cup Ended

\* The object a handler holds, and the object under an id, are of this process and
\* were made for that id.
HeldFits ==
    \A h \in Handlers :
        pc[h] \in Holding =>
            job[h] <= runs /\ jobOf[job[h]] = id[h] /\ era[job[h]] = restarts
MapFits ==
    \A j \in JobIds :
        jobs[j] # 0 =>
            jobs[j] <= runs /\ jobOf[jobs[j]] = j /\ era[jobs[j]] = restarts

\* No two handlers run the same job, and CompleteJob finds an entry under its id.
OwnersDiffer ==
    \A g, h \in Handlers :
        g # h /\ pc[g] \in Own /\ pc[h] \in Own => job[g] # job[h]
OwnersRegistered ==
    \A h \in Handlers : pc[h] \in Own => jobs[id[h]] # 0

\* A run has a verdict from the end of its query on; one not yet created is blank.
VerdictsFit ==
    \A h \in Handlers :
        /\ pc[h] = "execute" => verdict[job[h]] = "none"
        /\ pc[h] \in Ended => verdict[job[h]] # "none"
BlankBeyond ==
    \A r \in Runs :
        r > runs => /\ verdict[r] = "none" /\ state[r] = "RUNNING"
                    /\ errorOf[r] = 0 /\ resultOf[r] = 0

Owned ==
    /\ HeldFits /\ MapFits
    /\ OwnersDiffer /\ OwnersRegistered
    /\ VerdictsFit /\ BlankBeyond

\* A reply frees its handler, so whatever held of the other handlers still does.
LEMMA AnswerKeepsOwned ==
  ASSUME TypeOK, Placed, Owned, NEW h \in Handlers, NEW what, NEW r,
         Answer(h, what, r), UNCHANGED <<jobs, objects, history>>
  PROVE  Owned'
<1>1. /\ pc' = [pc EXCEPT ![h] = "idle"]
      /\ id' = [id EXCEPT ![h] = 0]
      /\ job' = [job EXCEPT ![h] = 0]
  BY DEF Answer, Goto
<1>2. "idle" \notin Holding \cup Own
  BY DEF Holding, Own, Ended, Running, Replaying, Reading
<1>3. ASSUME NEW g \in Handlers, pc'[g] \in Holding \cup Own
      PROVE  g # h /\ pc'[g] = pc[g] /\ id'[g] = id[g] /\ job'[g] = job[g]
  BY <1>1, <1>2, <1>3 DEF TypeOK
<1>4. HeldFits'
  BY <1>3 DEF Owned, HeldFits, history
<1>5. MapFits'
  BY DEF Owned, MapFits, history
<1>6. OwnersDiffer' /\ OwnersRegistered'
  BY <1>3 DEF Owned, OwnersDiffer, OwnersRegistered
<1>7. VerdictsFit'
  BY <1>1, <1>3 DEF TypeOK, Owned, VerdictsFit, history, Own, Ended
<1>8. BlankBeyond'
  BY DEF Owned, BlankBeyond, history, objects
<1>9. QED
  BY <1>4, <1>5, <1>6, <1>7, <1>8 DEF Owned

\* Jobs, handlers and ids fit together in every reachable state; CompleteJob's
\* lookup by id never misses (meta.go:318-321).
THEOREM Ownership == Spec => []Owned
<1>1. Init => Owned
  BY DEF Init, Owned, HeldFits, MapFits, OwnersDiffer, OwnersRegistered, VerdictsFit,
         BlankBeyond, Own, Ended, Holding, Running, Replaying, Reading
<1>2. TypeOK /\ Placed /\ Owned /\ [Next]_vars => Owned'
  <2> SUFFICES ASSUME TypeOK, Placed, Owned, [Next]_vars PROVE Owned'
    OBVIOUS
  <2> DEFINE Steady == UNCHANGED <<jobs, objects, history>>
  <2>1. ASSUME NEW h \in Handlers, Arrivals(h) \/ Generate(h) \/ Lookup(h) PROVE Owned'
    <3> USE <2>1 DEF TypeOK, Owned, HeldFits, MapFits, OwnersDiffer, OwnersRegistered,
                VerdictsFit, BlankBeyond, Own, Ended, Holding, Running, Replaying,
                Reading, Goto, objects, history
    <3>1. CASE Arrivals(h)
      BY <3>1 DEF Arrivals, StartQuery, StartInsert, StartResults, Arrive
    <3>2. CASE Generate(h)
      BY <3>2 DEF Generate
    <3>3. CASE Lookup(h)
      BY <3>3 DEF Lookup, Adopted, Placed
    <3> QED
      BY <3>1, <3>2, <3>3
  <2>2. ASSUME NEW h \in Handlers, Create(h) PROVE Owned'
    <3>1. /\ pc[h] = "create" /\ id[h] \in JobIds
          /\ runs' = runs + 1 /\ runs' \in Runs /\ runs \in Nat
          /\ pc' = [pc EXCEPT ![h] = "execute"]
          /\ job' = [job EXCEPT ![h] = runs']
          /\ jobs' = [jobs EXCEPT ![id[h]] = runs']
          /\ jobOf' = [jobOf EXCEPT ![runs'] = id[h]]
          /\ era' = [era EXCEPT ![runs'] = restarts]
          /\ UNCHANGED <<id, state, errorOf, resultOf, verdict, restarts>>
      <4>1. runs' = runs + 1 /\ runs \in Nat /\ runs < MaxRuns
        BY <2>2, BoundsAssumption DEF Create, TypeOK, MaybeRun
      <4>2. runs' \in Runs
        BY <4>1, BoundsAssumption DEF Runs
      <4> QED
        BY <2>2, <4>1, <4>2 DEF Create, Placed, Goto, objects
    <3>2. \A g \in Handlers : pc[g] \in Holding => job[g] \in Runs /\ job[g] <= runs
      BY DEF Owned, HeldFits, Placed
    <3>3. HeldFits'
      BY <3>1, <3>2 DEF TypeOK, Owned, HeldFits, Runs
    <3>4. MapFits'
      <4> SUFFICES ASSUME NEW j \in JobIds, jobs'[j] # 0
                   PROVE  /\ jobs'[j] <= runs' /\ jobOf'[jobs'[j]] = j
                          /\ era'[jobs'[j]] = restarts'
        BY DEF MapFits
      <4>1. CASE j = id[h]
        BY <3>1, <4>1 DEF TypeOK, Runs
      <4>2. CASE j # id[h]
        <5>1. jobs'[j] = jobs[j] /\ jobs[j] <= runs /\ jobOf[jobs[j]] = j
              /\ era[jobs[j]] = restarts /\ jobs[j] \in Runs
          BY <3>1, <4>2, BoundsAssumption
          DEF TypeOK, Owned, MapFits, MaybeRun, Runs
        <5> QED
          BY <3>1, <5>1 DEF TypeOK, Runs
      <4> QED
        BY <4>1, <4>2
    <3>5. OwnersDiffer'
      BY <3>1, <3>2
      DEF TypeOK, Owned, OwnersDiffer, Own, Ended, Holding, Running, Runs
    <3>6. OwnersRegistered'
      <4>1. runs' # 0
        BY <3>1
      <4> QED
        BY <3>1, <4>1
        DEF TypeOK, Owned, OwnersRegistered, Placed, Own, Ended
    <3>7. VerdictsFit'
      BY <3>1, <3>2
      DEF TypeOK, Owned, VerdictsFit, BlankBeyond, Ended, Holding, Running, Runs
    <3>8. BlankBeyond'
      BY <3>1 DEF Owned, BlankBeyond, Runs
    <3> QED
      BY <3>3, <3>4, <3>5, <3>6, <3>7, <3>8 DEF Owned
  <2>3. ASSUME NEW h \in Handlers, Execute(h) PROVE Owned'
    <3>1. /\ pc[h] = "execute" /\ pc' = [pc EXCEPT ![h] = "publish"]
          /\ job[h] \in Runs /\ job[h] <= runs
          /\ UNCHANGED <<id, job, jobs, state, errorOf, resultOf, runs, jobOf, era,
                         restarts>>
      BY <2>3
      DEF Execute, AfterQuery, Proceed, Goto, objects, Placed, Owned, HeldFits, Holding,
          Running
    <3>2. PICK outcome \in {"ok", "failed"} : verdict' = [verdict EXCEPT ![job[h]] = outcome]
      BY <2>3 DEF Execute
    <3>3. HeldFits' /\ MapFits'
      BY <3>1 DEF TypeOK, Owned, HeldFits, MapFits, Holding, Running
    <3>4. OwnersDiffer' /\ OwnersRegistered'
      BY <3>1 DEF TypeOK, Owned, OwnersDiffer, OwnersRegistered, Own, Ended
    <3>5. VerdictsFit'
      BY <3>1, <3>2
      DEF TypeOK, Owned, VerdictsFit, OwnersDiffer, Own, Ended, Placed, Holding, Running
    <3>6. BlankBeyond'
      BY <3>1, <3>2 DEF TypeOK, Owned, BlankBeyond, Runs, MaybeRun
    <3> QED
      BY <3>3, <3>4, <3>5, <3>6 DEF Owned
  <2>4. ASSUME NEW h \in Handlers, Publish(h) \/ Settle(h) PROVE Owned'
    <3>1. /\ pc[h] \in Ended
          /\ \E step \in Ended : pc' = [pc EXCEPT ![h] = step]
          /\ UNCHANGED <<id, job, jobs, runs, jobOf, era, verdict, restarts>>
      BY <2>4 DEF Publish, Settle, Proceed, Goto, history, Ended
    <3>2. jobs[id[h]] \in Runs /\ jobs[id[h]] <= runs
      <4>1. id[h] \in JobIds /\ jobs[id[h]] # 0
        BY <3>1 DEF Placed, Owned, OwnersRegistered, Own, Ended
      <4> QED
        BY <4>1, BoundsAssumption DEF TypeOK, Owned, MapFits, MaybeRun, Runs
    <3>3. \A r \in Runs : r # jobs[id[h]] =>
              /\ state'[r] = state[r]
              /\ errorOf'[r] = errorOf[r] /\ resultOf'[r] = resultOf[r]
      BY <2>4 DEF TypeOK, Publish, Settle, WriteState, WriteOutcome
    <3>4. HeldFits' /\ MapFits'
      BY <3>1 DEF TypeOK, Owned, HeldFits, MapFits, Holding, Running, Ended
    <3>5. OwnersDiffer' /\ OwnersRegistered'
      BY <3>1 DEF TypeOK, Owned, OwnersDiffer, OwnersRegistered, Own
    <3>6. VerdictsFit'
      BY <3>1 DEF TypeOK, Owned, VerdictsFit, Ended
    <3>7. BlankBeyond'
      BY <3>1, <3>2, <3>3 DEF TypeOK, Owned, BlankBeyond, Runs, MaybeRun
    <3> QED
      BY <3>4, <3>5, <3>6, <3>7 DEF Owned
  <2>5. ASSUME NEW h \in Handlers, Record(h) \/ AnswerDryRun(h) \/ ReadResult(h)
        PROVE  Owned'
    BY <2>5, AnswerKeepsOwned DEF Record, AnswerDryRun, ReadResult
  <2>6. ASSUME NEW h \in Handlers, NEW step \in Replaying \cup Reading,
               pc[h] \in Holding, Proceed(h, step), Steady
        PROVE  Owned'
    BY <2>6
    DEF Proceed, Goto, TypeOK, Owned, HeldFits, MapFits, OwnersDiffer, OwnersRegistered,
        VerdictsFit, BlankBeyond, Own, Ended, Replaying, Reading, objects, history
  <2>7. ASSUME NEW h \in Handlers,
               ReplayError(h) \/ ReplayState(h) \/ ReadState(h) \/ ReadError(h)
        PROVE  Owned'
    BY <2>6, <2>7, AnswerKeepsOwned
    DEF ReplayError, ReplayState, ReadState, ReadError, Holding, Replaying, Reading
  <2>8. ASSUME NEW h \in Handlers, Fetch(h) PROVE Owned'
    <3>1. CASE jobs[id[h]] = 0
      BY <2>8, <3>1, AnswerKeepsOwned DEF Fetch
    <3>2. CASE jobs[id[h]] # 0
      <4>1. /\ pc[h] = "fetch" /\ id[h] \in JobIds
            /\ pc' = [pc EXCEPT ![h] = "readState"]
            /\ job' = [job EXCEPT ![h] = jobs[id[h]]]
            /\ UNCHANGED <<id, jobs, objects, history>>
        BY <2>8, <3>2 DEF Fetch, Goto, Placed
      <4>2. HeldFits'
        BY <3>2, <4>1 DEF TypeOK, Owned, HeldFits, MapFits, history
      <4>3. QED
        BY <4>1, <4>2
        DEF TypeOK, Owned, MapFits, OwnersDiffer, OwnersRegistered, VerdictsFit,
            BlankBeyond, Own, Ended, objects, history
    <3> QED
      BY <3>1, <3>2
  <2>9. ASSUME NEW h \in Handlers, Disconnect(h) PROVE Owned'
    BY <2>9
    DEF Disconnect, Owned, HeldFits, MapFits, OwnersDiffer, OwnersRegistered,
        VerdictsFit, BlankBeyond, objects, history
  <2>10. CASE Restart
    BY <2>10
    DEF Restart, TypeOK, Owned, HeldFits, MapFits, OwnersDiffer, OwnersRegistered,
        VerdictsFit, BlankBeyond, Own, Ended, Holding, Running, Replaying, Reading
  <2>11. CASE UNCHANGED vars
    BY <2>11
    DEF vars, request, Owned, HeldFits, MapFits, OwnersDiffer, OwnersRegistered,
        VerdictsFit, BlankBeyond, objects, history
  <2> QED
    BY <2>1, <2>2, <2>3, <2>4, <2>5, <2>7, <2>8, <2>9, <2>10, <2>11 DEF Next, Serve
<1>3. QED
  BY <1>1, <1>2, TypeCorrect, PTL DEF Spec

-----------------------------------------------------------------------------
(* Outcomes *)

\* Five kinds of steps change the jobs, their objects, the rows or the runs.
LEMMA StepKinds ==
  ASSUME [Next]_vars
  PROVE  \/ \E h \in Handlers : Create(h)
         \/ \E h \in Handlers : Execute(h)
         \/ \E h \in Handlers : Publish(h) \/ Settle(h)
         \/ \E h \in Handlers : Record(h)
         \/ Restart
         \/ UNCHANGED <<jobs, objects, row, history>>
BY DEF Next, vars, Arrivals, StartQuery, StartInsert, StartResults, Arrive, Serve,
       Generate, Lookup, AnswerDryRun, ReplayError, ReplayState, Fetch, ReadState,
       ReadError, ReadResult, Disconnect

\* CompleteJob writes the handler's own outcome into an object of the handler's id.
LEMMA CompletionWrites ==
  ASSUME TypeOK, Placed, Owned, NEW h \in Handlers, Publish(h) \/ Settle(h)
  PROVE  LET o == jobs[id[h]]
             r == job[h]
         IN  /\ o \in Runs /\ o <= runs /\ r \in Runs /\ r <= runs
             /\ jobOf[o] = id[h] /\ jobOf[r] = id[h]
             /\ era[o] = restarts /\ era[r] = restarts
             /\ verdict[r] \in {"ok", "failed"}
             /\ \/ UNCHANGED <<errorOf, resultOf>> /\ state' = [state EXCEPT ![o] = "DONE"]
                \/ /\ verdict[r] = "failed" /\ errorOf' = [errorOf EXCEPT ![o] = r]
                   /\ UNCHANGED <<state, resultOf>>
                \/ /\ verdict[r] = "ok" /\ resultOf' = [resultOf EXCEPT ![o] = r]
                   /\ UNCHANGED <<state, errorOf>>
             /\ UNCHANGED <<jobs, row, history>>
<1>1. pc[h] \in Ended
  BY DEF Publish, Settle, Ended
<1>2. id[h] \in JobIds /\ jobs[id[h]] # 0 /\ job[h] \in Runs
  BY <1>1 DEF Placed, Owned, OwnersRegistered, Own, Ended, Holding, Running
<1>3. /\ jobs[id[h]] \in Runs /\ jobs[id[h]] <= runs
      /\ jobOf[jobs[id[h]]] = id[h] /\ era[jobs[id[h]]] = restarts
  BY <1>2, BoundsAssumption DEF TypeOK, Owned, MapFits, MaybeRun, Runs
<1>4. job[h] <= runs /\ jobOf[job[h]] = id[h] /\ era[job[h]] = restarts
  BY <1>1 DEF Owned, HeldFits, Ended, Holding, Running
<1>5. verdict[job[h]] \in {"ok", "failed"}
  BY <1>1, <1>2 DEF TypeOK, Owned, VerdictsFit
<1>6. QED
  BY <1>2, <1>3, <1>4, <1>5
  DEF Publish, Settle, WriteState, WriteOutcome, history

\* The outcome stored in a job is always that of a run of the job's own id, whatever
\* inserts of that id overlap (CompleteJob, meta.go:314-329).
THEOREM OutcomesBelong == Spec => []OutcomeBelongsToId
<1>1. Init => OutcomeBelongsToId
  BY BoundsAssumption DEF Init, OutcomeBelongsToId
<1>2. TypeOK /\ Placed /\ Owned /\ OutcomeBelongsToId /\ [Next]_vars
      => OutcomeBelongsToId'
  <2> SUFFICES ASSUME TypeOK, Placed, Owned, OutcomeBelongsToId, [Next]_vars
               PROVE  OutcomeBelongsToId'
    OBVIOUS
  <2>0. 1 .. runs \subseteq Runs /\ runs \in Nat
    BY BoundsAssumption DEF TypeOK, MaybeRun, Runs
  <2>1. ASSUME NEW h \in Handlers, Create(h) PROVE OutcomeBelongsToId'
    <3>1. /\ runs' = runs + 1 /\ runs' \in Runs
          /\ jobOf' = [jobOf EXCEPT ![runs'] = id[h]]
          /\ era' = [era EXCEPT ![runs'] = restarts]
          /\ UNCHANGED <<errorOf, resultOf, verdict>>
      BY <2>0, <2>1, BoundsAssumption DEF Create, objects, Runs
    <3>2. verdict[runs'] = "none" /\ errorOf[runs'] = 0 /\ resultOf[runs'] = 0
      BY <2>0, <3>1 DEF Owned, BlankBeyond
    <3>3. \A o \in Runs : errorOf[o] \in MaybeRun /\ resultOf[o] \in MaybeRun
      BY DEF TypeOK
    <3>4. ASSUME NEW o \in 1 .. runs', o # runs' PROVE o \in 1 .. runs
      BY <2>0, <3>1, <3>4
    <3> QED
      BY <2>0, <3>1, <3>2, <3>3, <3>4 DEF TypeOK, OutcomeBelongsToId, MaybeRun, Runs
  <2>2. ASSUME NEW h \in Handlers, Execute(h) PROVE OutcomeBelongsToId'
    <3>1. /\ verdict[job[h]] = "none" /\ job[h] \in Runs
          /\ UNCHANGED <<errorOf, resultOf, runs, jobOf, era>>
      BY <2>2
      DEF Execute, objects, Owned, VerdictsFit, Placed, Holding, Running
    <3>2. \A r \in Runs : r # job[h] => verdict'[r] = verdict[r]
      BY <2>2 DEF Execute, TypeOK
    <3>3. \A o \in Runs : errorOf[o] \in MaybeRun /\ resultOf[o] \in MaybeRun
      BY DEF TypeOK
    <3>4. \A r \in MaybeRun : r # 0 => r \in Runs
      BY BoundsAssumption DEF MaybeRun, Runs
    <3> QED
      BY <2>0, <3>1, <3>2, <3>3, <3>4 DEF OutcomeBelongsToId
  <2>3. ASSUME NEW h \in Handlers, Publish(h) \/ Settle(h) PROVE OutcomeBelongsToId'
    BY <2>0, <2>3, CompletionWrites DEF TypeOK, OutcomeBelongsToId, history
  <2>4. CASE Restart
    BY <2>0, <2>4 DEF Restart, OutcomeBelongsToId
  <2>5. ASSUME NEW h \in Handlers, Record(h) PROVE OutcomeBelongsToId'
    BY <2>5 DEF Record, OutcomeBelongsToId, objects, history
  <2>6. CASE UNCHANGED <<jobs, objects, row, history>>
    BY <2>6 DEF OutcomeBelongsToId, objects, history
  <2> QED
    BY <2>1, <2>2, <2>3, <2>4, <2>5, <2>6, StepKinds
<1>3. QED
  BY <1>1, <1>2, TypeCorrect, Ownership, PTL DEF Spec

\* No client is told of another id's run, of a failure that did not happen or of
\* rows that the run did not give.
THEOREM AnswersTrue == Spec => []AnswersAreTrue
<1>1. Init => AnswersAreTrue
  BY DEF Init, NoReply, AnswersAreTrue
<1>2. TypeOK /\ Placed /\ Owned /\ OutcomeBelongsToId /\ AnswersAreTrue /\ [Next]_vars
      => AnswersAreTrue'
  <2> SUFFICES ASSUME TypeOK, Placed, Owned, OutcomeBelongsToId, AnswersAreTrue,
                      [Next]_vars
               PROVE  AnswersAreTrue'
    OBVIOUS
  <2>1. CASE Silent
    BY <2>1 DEF Silent, NoReply, AnswersAreTrue
  <2>2. ASSUME NEW h \in Handlers, Record(h) PROVE AnswersAreTrue'
    <3>1. /\ jobOf[job[h]] = id[h] /\ verdict[job[h]] \in {"ok", "failed"}
      BY <2>2
      DEF Record, TypeOK, Placed, Owned, HeldFits, VerdictsFit, Ended, Holding, Running
    <3> QED
      BY <2>2, <3>1 DEF Record, Answer, OutcomeOf, AnswersAreTrue, history
  <2>3. ASSUME NEW h \in Handlers, pc[h] \in Holding
        PROVE  LET o == job[h]
               IN  /\ jobOf[o] = id[h]
                   /\ errorOf[o] # 0 => /\ jobOf[errorOf[o]] = id[h]
                                        /\ verdict[errorOf[o]] = "failed"
                   /\ resultOf[o] # 0 => /\ jobOf[resultOf[o]] = id[h]
                                         /\ verdict[resultOf[o]] = "ok"
    <3>1. job[h] \in 1 .. runs /\ jobOf[job[h]] = id[h]
      BY <2>3, BoundsAssumption DEF TypeOK, Placed, Owned, HeldFits, Runs, MaybeRun
    <3> QED
      BY <3>1 DEF OutcomeBelongsToId
  <2>4. ASSUME NEW h \in Handlers,
               ReplayError(h) \/ ReplayState(h) \/ ReadState(h) \/ ReadError(h)
               \/ ReadResult(h)
        PROVE  AnswersAreTrue'
    <3>1. pc[h] \in Holding
      BY <2>4
      DEF ReplayError, ReplayState, ReadState, ReadError, ReadResult, Holding, Replaying,
          Reading
    <3> QED
      BY <2>1, <2>3, <2>4, <3>1
      DEF ReplayError, ReplayState, ReadState, ReadError, ReadResult, Answer, Proceed,
          ErrorOf, AnswersAreTrue, history
  <2>5. ASSUME NEW h \in Handlers, AnswerDryRun(h) \/ Fetch(h) PROVE AnswersAreTrue'
    BY <2>1, <2>5 DEF AnswerDryRun, Fetch, Answer, AnswersAreTrue
  <2>6. CASE UNCHANGED vars
    BY <2>6 DEF vars, history, AnswersAreTrue
  <2> QED
    BY <2>1, <2>2, <2>4, <2>5, <2>6
    DEF Next, Arrivals, StartQuery, StartInsert, StartResults, Arrive, Serve, Generate,
        Lookup, Create, Execute, AfterQuery, Publish, Settle, Proceed, Disconnect, Restart
<1>3. QED
  BY <1>1, <1>2, TypeCorrect, Ownership, OutcomesBelong, PTL DEF Spec

-----------------------------------------------------------------------------
(* Completion *)

\* A job that the map shows RUNNING always has the handler that will complete it.
THEOREM NoOrphans == Spec => []NoOrphanRunning
<1> DEFINE Will(h, o) == job[h] = o /\ pc[h] \in {"execute", "publish", "settleState"}
<1>1. Init => NoOrphanRunning
  BY DEF Init, NoOrphanRunning
<1>2. TypeOK /\ Placed /\ Owned /\ NoOrphanRunning /\ [Next]_vars => NoOrphanRunning'
  <2> SUFFICES ASSUME TypeOK, Placed, Owned, NoOrphanRunning, [Next]_vars,
                      NEW j \in JobIds, jobs'[j] # 0, state'[jobs'[j]] = "RUNNING"
               PROVE  \E h \in Handlers : Will(h, jobs[j])' 
    BY DEF NoOrphanRunning
  <2>1. ASSUME jobs' = jobs, state[jobs[j]] = "RUNNING"
        PROVE  \E h \in Handlers : Will(h, jobs[j])
    BY <2>1 DEF NoOrphanRunning
  <2>2. ASSUME NEW h \in Handlers, Create(h) PROVE \E g \in Handlers : Will(g, jobs[j])'
    <3>1. CASE j = id[h]
      BY <2>2, <3>1 DEF Create, Goto, TypeOK
    <3>2. CASE j # id[h]
      <4>1. jobs'[j] = jobs[j] /\ state' = state
        BY <2>2, <3>2 DEF Create, TypeOK, objects
      <4>2. PICK g \in Handlers : Will(g, jobs[j])
        BY <4>1 DEF NoOrphanRunning
      <4>3. g # h
        BY <2>2, <4>2 DEF Create
      <4> QED
        BY <2>2, <4>1, <4>2, <4>3 DEF Create, Goto, TypeOK
    <3> QED
      BY <3>1, <3>2
  <2>3. ASSUME NEW h \in Handlers, Execute(h) PROVE \E g \in Handlers : Will(g, jobs[j])'
    BY <2>1, <2>3 DEF Execute, AfterQuery, Proceed, Goto, objects, TypeOK
  <2>4. ASSUME NEW h \in Handlers, Publish(h) \/ Settle(h)
        PROVE  \E g \in Handlers : Will(g, jobs[j])'
    <3>1. jobs' = jobs /\ job' = job
      BY <2>4 DEF Publish, Settle, Proceed
    <3>2. jobs[j] \in Runs /\ jobOf[jobs[j]] = j
      BY <3>1, BoundsAssumption DEF TypeOK, Owned, MapFits, MaybeRun, Runs
    <3>3. state[jobs[j]] = "RUNNING"
      BY <2>4, <3>2, CompletionWrites DEF TypeOK
    <3>4. PICK g \in Handlers : Will(g, jobs[j])
      BY <2>1, <3>1, <3>3
    <3>5. CASE g # h
      BY <2>4, <3>1, <3>4, <3>5 DEF Publish, Settle, Proceed, Goto, TypeOK
    <3>6. CASE g = h
      <4>1. jobs[id[h]] = jobs[j]
        BY <2>4, <3>2, <3>4, <3>6, CompletionWrites
      <4> QED
        BY <2>4, <3>1, <3>2, <3>4, <3>6, <4>1
        DEF Publish, Settle, WriteState, Proceed, Goto, TypeOK
    <3> QED
      BY <3>5, <3>6
  <2>5. CASE Restart
    BY <2>5 DEF Restart
  <2>6. CASE UNCHANGED vars
    BY <2>1, <2>6 DEF vars, objects, request
  <2>7. ASSUME NEW h \in Handlers,
               Arrivals(h) \/ Generate(h) \/ Lookup(h) \/ AnswerDryRun(h) \/ Record(h)
               \/ ReplayError(h) \/ ReplayState(h) \/ Fetch(h) \/ ReadState(h)
               \/ ReadError(h) \/ ReadResult(h) \/ Disconnect(h)
        PROVE  \E g \in Handlers : Will(g, jobs[j])'
    <3>1. /\ jobs' = jobs /\ state' = state
          /\ pc[h] \in {"execute", "publish", "settleState"} => pc' = pc /\ job' = job
          /\ \A g \in Handlers \ {h} : pc'[g] = pc[g] /\ job'[g] = job[g]
      BY <2>7
      DEF Arrivals, StartQuery, StartInsert, StartResults, Arrive, Generate, Lookup,
          AnswerDryRun, Record, ReplayError, ReplayState, Fetch, ReadState, ReadError,
          ReadResult, Disconnect, Answer, Proceed, Goto, objects, TypeOK
    <3>2. PICK g \in Handlers : Will(g, jobs[j])
      BY <2>1, <3>1
    <3> QED
      BY <3>1, <3>2
  <2> QED
    BY <2>2, <2>3, <2>4, <2>5, <2>6, <2>7 DEF Next, Serve
<1>3. QED
  BY <1>1, <1>2, TypeCorrect, Ownership, PTL DEF Spec

-----------------------------------------------------------------------------
(* Ids that one run of the process used *)

\* Runs are only added, and keep their id and process.
LEMMA RunsGrow ==
  ASSUME TypeOK, [Next]_vars
  PROVE  /\ runs \in Nat /\ runs' \in Nat /\ runs <= runs'
         /\ \A r \in 1 .. runs : r \in Runs /\ jobOf'[r] = jobOf[r] /\ era'[r] = era[r]
<1>1. runs \in Nat /\ runs <= MaxRuns /\ 1 .. runs \subseteq Runs
  BY BoundsAssumption DEF TypeOK, MaybeRun, Runs
<1>2. ASSUME NEW h \in Handlers, Create(h)
      PROVE  /\ runs' = runs + 1
             /\ \A r \in 1 .. runs : jobOf'[r] = jobOf[r] /\ era'[r] = era[r]
  BY <1>1, <1>2 DEF Create, TypeOK
<1>3. CASE \A h \in Handlers : ~ Create(h)
  <2>1. UNCHANGED <<runs, jobOf, era>>
    BY <1>3, StepKinds DEF Execute, Publish, Settle, Record, Restart, history
  <2> QED
    BY <1>1, <2>1
<1> QED
  BY <1>1, <1>2, <1>3

\* A run that is the only one of its id stays so only by having been so before.
LEMMA SoleBefore ==
  ASSUME TypeOK, [Next]_vars, NEW r \in 1 .. runs, Sole(r)'
  PROVE  Sole(r)
<1>1. \A q \in 1 .. runs : q \in 1 .. runs' /\ jobOf'[q] = jobOf[q] /\ era'[q] = era[q]
  BY RunsGrow
<1>2. QED
  BY <1>1 DEF Sole

\* The handler of a sole run finds its own object under its id, and only it completes it.
LEMMA SoleOwner ==
  ASSUME TypeOK, Placed, Owned, NEW h \in Handlers, pc[h] \in Own
  PROVE  /\ job[h] \in 1 .. runs /\ id[h] \in JobIds
         /\ jobOf[job[h]] = id[h] /\ era[job[h]] = restarts
         /\ jobs[id[h]] \in 1 .. runs
         /\ Sole(job[h]) => jobs[id[h]] = job[h]
         /\ Sole(jobs[id[h]]) => jobs[id[h]] = job[h]
<1>1. id[h] \in JobIds /\ jobs[id[h]] # 0
  BY DEF Placed, Owned, OwnersRegistered, Own, Ended
<1>2. /\ jobs[id[h]] \in Runs /\ jobs[id[h]] <= runs
      /\ jobOf[jobs[id[h]]] = id[h] /\ era[jobs[id[h]]] = restarts
  BY <1>1, BoundsAssumption DEF TypeOK, Owned, MapFits, MaybeRun, Runs
<1>3. /\ job[h] \in Runs
      /\ job[h] <= runs /\ jobOf[job[h]] = id[h] /\ era[job[h]] = restarts
  BY DEF Placed, Owned, HeldFits, Own, Ended, Holding, Running
<1>4. job[h] \in 1 .. runs /\ jobs[id[h]] \in 1 .. runs
  BY <1>2, <1>3, BoundsAssumption DEF TypeOK, MaybeRun, Runs
<1>5. QED
  BY <1>1, <1>2, <1>3, <1>4 DEF Sole

\* What a run that ended left in object o, if o is its own.
Stored(o) ==
    IF verdict[o] = "ok" THEN resultOf[o] = o ELSE verdict[o] = "failed" /\ errorOf[o] = o

\* How far a sole run's object has come, by the step of its handler ...
SoleProgress ==
    \A h \in Handlers :
        Sole(job[h]) =>
            /\ pc[h] \in {"execute", "publish"} => state[job[h]] = "RUNNING"
            /\ pc[h] = "settleState" => Stored(job[h])
            /\ pc[h] \in {"settleOutcome", "record"} => state[job[h]] = "DONE"

\* ... and, once CompleteJob has returned, for good.
SoleSettled ==
    \A o \in 1 .. runs :
        Sole(o) /\ era[o] = restarts /\ Finished(o) => Stored(o)

\* The handler of a sole run writes its own object, in CompleteJob's two steps.
LEMMA SoleWrites ==
  ASSUME TypeOK, Placed, Owned, NEW h \in Handlers, Sole(job[h])
  PROVE  /\ Publish(h) =>
              \/ state'[job[h]] = "DONE" /\ pc'[h] = "settleOutcome"
              \/ Stored(job[h])' /\ pc'[h] = "settleState" /\ state' = state
         /\ Settle(h) =>
              /\ pc'[h] = "record"
              /\ pc[h] = "settleOutcome" => Stored(job[h])' /\ state' = state
              /\ pc[h] = "settleState" =>
                     state'[job[h]] = "DONE" /\ UNCHANGED <<errorOf, resultOf>>
<1> SUFFICES ASSUME Publish(h) \/ Settle(h)
             PROVE  /\ Publish(h) =>
                         \/ state'[job[h]] = "DONE" /\ pc'[h] = "settleOutcome"
                         \/ Stored(job[h])' /\ pc'[h] = "settleState" /\ state' = state
                    /\ Settle(h) =>
                         /\ pc'[h] = "record"
                         /\ pc[h] = "settleOutcome" => Stored(job[h])' /\ state' = state
                         /\ pc[h] = "settleState" =>
                                state'[job[h]] = "DONE" /\ UNCHANGED <<errorOf, resultOf>>
  OBVIOUS
<1>1. pc[h] \in Own
  BY DEF Publish, Settle, Own, Ended
<1>2. jobs[id[h]] = job[h] /\ job[h] \in Runs
  BY <1>1, SoleOwner, BoundsAssumption DEF TypeOK, MaybeRun, Runs
<1>3. verdict[job[h]] \in {"ok", "failed"} /\ verdict' = verdict /\ job' = job
  BY CompletionWrites DEF Publish, Settle, Proceed, history
<1>4. WriteOutcome(job[h], job[h]) => Stored(job[h])'
  BY <1>2, <1>3 DEF WriteOutcome, Stored, TypeOK
<1>5. WriteState(job[h]) => state'[job[h]] = "DONE"
  BY <1>2 DEF WriteState, TypeOK
<1>6. \A step : Proceed(h, step) => pc'[h] = step
  BY DEF Proceed, Goto, TypeOK
<1>7. CASE Publish(h)
  <2>1. pc[h] = "publish"
    BY <1>7 DEF Publish
  <2> QED
    BY <1>2, <1>4, <1>5, <1>6, <1>7, <2>1 DEF Publish, Settle
<1>8. CASE Settle(h)
  <2>1. pc'[h] = "record" /\ pc[h] # "publish"
    BY <1>6, <1>8 DEF Settle
  <2> QED
    BY <1>2, <1>4, <1>5, <1>8, <2>1 DEF Publish, Settle
<1> QED
  BY <1>7, <1>8

\* Every other step leaves the runs alone and starts no step of a run.
LEMMA OtherSteps ==
  ASSUME TypeOK, NEW h \in Handlers,
         Arrivals(h) \/ Generate(h) \/ Lookup(h) \/ AnswerDryRun(h) \/ Record(h)
         \/ ReplayError(h) \/ ReplayState(h) \/ Fetch(h) \/ ReadState(h)
         \/ ReadError(h) \/ ReadResult(h) \/ Disconnect(h)
  PROVE  /\ UNCHANGED <<jobs, objects, history>>
         /\ \A g \in Handlers :
               pc'[g] \in Own => pc'[g] = pc[g] /\ job'[g] = job[g] /\ id'[g] = id[g]
         /\ \A g \in Handlers : pc[g] \in Completing => pc'[g] = pc[g] /\ id'[g] = id[g]
         /\ Record(h) \/ UNCHANGED row
BY DEF Arrivals, StartQuery, StartInsert, StartResults, Arrive, Generate, Lookup,
       AnswerDryRun, Record, ReplayError, ReplayState, Fetch, ReadState, ReadError,
       ReadResult, Disconnect, Answer, Proceed, Goto, TypeOK, Own, Ended, Completing

\* How far the object of a run that alone uses its id has come, at each step of its
\* handler, and that its outcome stays once it is stored.
LEMMA SoleInvariant == Spec => [](SoleProgress /\ SoleSettled)
<1> USE DEF Own, Ended, Completing
<1>1. Init => SoleProgress /\ SoleSettled
  BY DEF Init, SoleProgress, SoleSettled
<1>2. TypeOK /\ Placed /\ Owned /\ SoleProgress /\ SoleSettled /\ [Next]_vars
      => SoleProgress' /\ SoleSettled'
  <2> SUFFICES ASSUME TypeOK, Placed, Owned, SoleProgress, SoleSettled, [Next]_vars
               PROVE  SoleProgress' /\ SoleSettled'
    OBVIOUS
  <2>0. \A r \in 1 .. runs : Sole(r)' => Sole(r)
    BY SoleBefore
  <2>11. 1 .. runs \subseteq Runs /\ runs \in Nat
    BY BoundsAssumption DEF TypeOK, MaybeRun, Runs
  <2>10. \A g \in Handlers : pc[g] \in Own => job[g] \in 1 .. runs /\ job[g] \in Runs
    BY SoleOwner, <2>11
  <2>1. ASSUME NEW h \in Handlers, Create(h) PROVE SoleProgress' /\ SoleSettled'
    <3>1. /\ pc[h] = "create" /\ runs' = runs + 1 /\ runs' \in Runs
          /\ pc' = [pc EXCEPT ![h] = "execute"]
          /\ job' = [job EXCEPT ![h] = runs']
          /\ jobs' = [jobs EXCEPT ![id[h]] = runs']
          /\ jobOf'[runs'] = id[h] /\ era'[runs'] = restarts
          /\ UNCHANGED <<id, state, errorOf, resultOf, verdict, restarts>>
      BY <2>1, <2>11, BoundsAssumption DEF Create, Goto, TypeOK, objects, Runs
    <3>2. state[runs'] = "RUNNING"
      BY <2>11, <3>1 DEF Owned, BlankBeyond
    <3>3. SoleProgress'
      BY <2>0, <2>10, <3>1, <3>2 DEF SoleProgress, Stored, TypeOK
    <3>4. ASSUME NEW o \in 1 .. runs', Sole(o)', era'[o] = restarts', Finished(o)'
          PROVE  Stored(o)'
      <4>1. o \in 1 .. runs /\ o # runs'
        BY <2>11, <3>1, <3>2, <3>4 DEF Finished
      <4>2. Sole(o) /\ jobOf'[o] = jobOf[o] /\ era'[o] = era[o]
        BY <2>0, <3>4, <4>1, RunsGrow
      <4>3. jobOf[o] # id[h]
        BY <2>11, <3>1, <3>4, <4>1, <4>2 DEF Sole
      <4>4. ASSUME NEW g \in Handlers, pc[g] \in Completing, jobs[id[g]] = o
            PROVE  FALSE
        <5>1. id[g] \in JobIds /\ jobOf[o] = id[g]
          BY <4>1, <4>4, SoleOwner, <2>11 DEF TypeOK, Owned, MapFits, Runs
        <5> QED
          BY <3>1, <3>4, <4>3, <4>4, <5>1 DEF Finished, BeingCompleted, TypeOK
      <4> QED
        BY <3>1, <3>4, <4>1, <4>2, <4>4 DEF SoleSettled, Finished, BeingCompleted, Stored
    <3> QED
      BY <3>3, <3>4 DEF SoleSettled
  <2>2. ASSUME NEW h \in Handlers, Execute(h) PROVE SoleProgress' /\ SoleSettled'
    <3>1. /\ pc[h] = "execute" /\ pc' = [pc EXCEPT ![h] = "publish"]
          /\ UNCHANGED <<id, job, jobs, state, errorOf, resultOf, runs, jobOf, era, restarts>>
          /\ \A r \in Runs : r # job[h] => verdict'[r] = verdict[r]
      BY <2>2 DEF Execute, AfterQuery, Proceed, Goto, objects, TypeOK
    <3>2. \A g \in Handlers : g # h /\ pc[g] \in Own => job[g] # job[h]
      BY <3>1 DEF Owned, OwnersDiffer
    <3>3. SoleProgress'
      BY <2>0, <2>10, <3>1, <3>2 DEF SoleProgress, Stored, TypeOK
    <3>4. ASSUME NEW o \in 1 .. runs, Sole(o), era[o] = restarts, Finished(o)'
          PROVE  Stored(o)'
      <4>1. Finished(o)
        BY <3>1, <3>4 DEF Finished, BeingCompleted, TypeOK
      <4>2. o # job[h]
        BY <3>1, <3>4, <4>1 DEF SoleProgress, Finished
      <4> QED
        BY <2>11, <3>1, <3>4, <4>1, <4>2 DEF SoleSettled, Stored
    <3> QED
      BY <2>0, <3>1, <3>3, <3>4 DEF SoleSettled
  <2>3. ASSUME NEW h \in Handlers, Publish(h) \/ Settle(h)
        PROVE  SoleProgress' /\ SoleSettled'
    <3>1. /\ pc[h] \in Ended /\ UNCHANGED <<jobs, id, job, history>>
          /\ \A g \in Handlers : g # h => pc'[g] = pc[g]
          /\ \A r \in Runs : r # jobs[id[h]] =>
                /\ state'[r] = state[r]
                /\ errorOf'[r] = errorOf[r] /\ resultOf'[r] = resultOf[r]
      BY <2>3
      DEF Publish, Settle, WriteState, WriteOutcome, Proceed, Goto, TypeOK
    <3>2. \A r : Sole(r)' = Sole(r)
      BY <3>1 DEF Sole, history
    <3>3. ASSUME NEW g \in Handlers, g # h, pc[g] \in Own, Sole(job[g])
          PROVE  job[g] # jobs[id[h]]
      BY <3>1, <3>3, SoleOwner DEF Owned, OwnersDiffer
    <3>4. SoleProgress'
      <4> SUFFICES ASSUME NEW g \in Handlers, Sole(job[g])
                   PROVE  /\ pc'[g] \in {"execute", "publish"} => state'[job[g]] = "RUNNING"
                          /\ pc'[g] = "settleState" => Stored(job[g])'
                          /\ pc'[g] \in {"settleOutcome", "record"} => state'[job[g]] = "DONE"
        BY <3>1, <3>2 DEF SoleProgress
      <4>1. CASE g # h
        BY <2>10, <3>1, <3>3, <4>1 DEF SoleProgress, Stored, history
      <4>2. CASE g = h
        BY <2>3, <4>2, SoleWrites DEF SoleProgress, Settle
      <4> QED
        BY <4>1, <4>2
    <3>5. ASSUME NEW o \in 1 .. runs, Sole(o), era[o] = restarts, Finished(o)'
          PROVE  Stored(o)'
      <4>1. CASE o = jobs[id[h]]
        <5>1. o = job[h] /\ Sole(job[h])
          BY <3>1, <3>5, <4>1, SoleOwner
        <5>2. ~ Publish(h)
          BY <3>1, <3>5, <4>1, <5>1, SoleWrites DEF Finished, BeingCompleted
        <5>3. Settle(h)
          BY <2>3, <5>2
        <5>4. CASE pc[h] = "settleOutcome"
          BY <5>1, <5>3, <5>4, SoleWrites, <3>1
        <5>5. CASE pc[h] = "settleState"
          BY <5>1, <5>3, <5>5, SoleWrites, <3>1 DEF SoleProgress, Stored, history
        <5> QED
          BY <5>3, <5>4, <5>5 DEF Settle
      <4>2. CASE o # jobs[id[h]]
        <5>1. Finished(o)
          BY <2>11, <3>1, <3>5, <4>2 DEF Finished, BeingCompleted
        <5> QED
          BY <2>11, <3>1, <3>5, <4>2, <5>1 DEF SoleSettled, Stored, history
      <4> QED
        BY <4>1, <4>2
    <3> QED
      BY <3>1, <3>2, <3>4, <3>5 DEF SoleSettled, history
  <2>4. CASE Restart
    <3>1. \A g \in Handlers : pc'[g] = "idle"
      BY <2>4 DEF Restart
    <3>2. \A r \in 1 .. runs' : state'[r] = "RUNNING"
      BY <2>4, <2>11 DEF Restart
    <3> QED
      BY <3>1, <3>2 DEF SoleProgress, SoleSettled, Finished
  <2>5. ASSUME UNCHANGED <<jobs, objects, history>>,
               \A g \in Handlers :
                  pc'[g] \in Own => pc'[g] = pc[g] /\ job'[g] = job[g] /\ id'[g] = id[g],
               \A g \in Handlers : pc[g] \in Completing => pc'[g] = pc[g] /\ id'[g] = id[g]
        PROVE  SoleProgress' /\ SoleSettled'
    <3>1. \A r : Sole(r)' = Sole(r) /\ Stored(r)' = Stored(r)
      BY <2>5 DEF Sole, Stored, objects, history
    <3>2. \A r : Finished(r)' => Finished(r)
      BY <2>5 DEF Finished, BeingCompleted, objects
    <3> QED
      BY <2>5, <3>1, <3>2 DEF SoleProgress, SoleSettled, objects, history
  <2>6. CASE UNCHANGED vars
    BY <2>5, <2>6 DEF vars, request
  <2> QED
    BY <2>1, <2>2, <2>3, <2>4, <2>5, <2>6, OtherSteps DEF Next, Serve
<1>3. QED
  BY <1>1, <1>2, TypeCorrect, Ownership, PTL DEF Spec

-----------------------------------------------------------------------------
(* Rows of INFORMATION_SCHEMA *)

ErasPast == \A r \in Runs : era[r] <= restarts

RowsFit ==
    \A j \in JobIds :
        LET r == row[j]
        IN  r # 0 =>
                /\ r <= runs /\ jobOf[r] = j /\ verdict[r] # "none"
                /\ \A h \in Handlers : pc[h] \in Own => job[h] # r
                /\ era[r] = restarts /\ Sole(r) => jobs[j] = r /\ state[r] = "DONE"

\* A recorded run has ended, nobody works on it, and the job map shows it as done.
LEMMA RowsInvariant == Spec => [](ErasPast /\ RowsFit)
<1> USE DEF Own, Ended
<1>1. Init => ErasPast /\ RowsFit
  BY DEF Init, ErasPast, RowsFit
<1>2. TypeOK /\ Placed /\ Owned /\ SoleProgress /\ ErasPast /\ RowsFit /\ [Next]_vars
      => ErasPast' /\ RowsFit'
  <2> SUFFICES ASSUME TypeOK, Placed, Owned, SoleProgress, ErasPast, RowsFit, [Next]_vars
               PROVE  ErasPast' /\ RowsFit'
    OBVIOUS
  <2>1. restarts \in Nat /\ \A r \in Runs : era[r] \in Nat
    BY BoundsAssumption DEF TypeOK, Eras
  <2>2. /\ runs \in Nat /\ 1 .. runs \subseteq Runs
        /\ \A j \in JobIds : row[j] # 0 => row[j] \in 1 .. runs /\ row[j] \in Runs
    BY BoundsAssumption DEF TypeOK, MaybeRun, Runs, RowsFit
  <2>3. \A r \in 1 .. runs : Sole(r)' => Sole(r)
    BY SoleBefore
  <2>4. ASSUME NEW h \in Handlers, Create(h) PROVE ErasPast' /\ RowsFit'
    <3>1. /\ pc[h] = "create" /\ runs' = runs + 1 /\ runs' \in Runs
          /\ pc' = [pc EXCEPT ![h] = "execute"]
          /\ job' = [job EXCEPT ![h] = runs']
          /\ jobs' = [jobs EXCEPT ![id[h]] = runs']
          /\ jobOf' = [jobOf EXCEPT ![runs'] = id[h]]
          /\ era' = [era EXCEPT ![runs'] = restarts]
          /\ UNCHANGED <<row, state, verdict, restarts>>
      BY <2>2, <2>4, BoundsAssumption DEF Create, Goto, objects, Runs
    <3>2. ErasPast'
      BY <2>1, <3>1 DEF ErasPast, TypeOK
    <3>3. ASSUME NEW j \in JobIds, row[j] # 0
          PROVE  /\ row[j] <= runs' /\ jobOf'[row[j]] = j /\ verdict[row[j]] # "none"
                 /\ \A g \in Handlers : pc'[g] \in Own => job'[g] # row[j]
                 /\ era'[row[j]] = restarts /\ Sole(row[j])'
                      => jobs'[j] = row[j] /\ state[row[j]] = "DONE"
      <4>1. /\ row[j] \in 1 .. runs /\ row[j] # runs' /\ row[j] <= runs'
            /\ jobOf'[row[j]] = jobOf[row[j]] /\ era'[row[j]] = era[row[j]]
        BY <2>2, <3>1, <3>3 DEF TypeOK
      <4>2. \A g \in Handlers : pc'[g] \in Own => job'[g] # row[j]
        BY <3>1, <3>3, <4>1 DEF RowsFit, TypeOK
      <4>3. ASSUME j = id[h], era'[row[j]] = restarts, Sole(row[j])' PROVE FALSE
        <5>1. runs' \in 1 .. runs' /\ jobOf'[runs'] = j /\ era'[runs'] = restarts
          BY <2>2, <3>1, <4>3 DEF TypeOK
        <5> QED
          BY <3>1, <3>3, <4>1, <4>3, <5>1 DEF Sole, RowsFit
      <4> QED
        BY <2>3, <3>1, <3>3, <4>1, <4>2, <4>3 DEF RowsFit, TypeOK
    <3> QED
      BY <3>1, <3>2, <3>3 DEF RowsFit
  <2>5. ASSUME NEW h \in Handlers, Execute(h) PROVE ErasPast' /\ RowsFit'
    <3>1. /\ pc[h] = "execute" /\ pc' = [pc EXCEPT ![h] = "publish"]
          /\ UNCHANGED <<row, job, jobs, state, runs, jobOf, era, restarts>>
          /\ \A r \in Runs : r # job[h] => verdict'[r] = verdict[r]
      BY <2>5 DEF Execute, AfterQuery, Proceed, Goto, objects, TypeOK
    <3>2. \A r : Sole(r)' = Sole(r)
      BY <3>1 DEF Sole
    <3> QED
      BY <2>2, <3>1, <3>2 DEF ErasPast, RowsFit, TypeOK
  <2>6. ASSUME NEW h \in Handlers, Publish(h) \/ Settle(h) PROVE ErasPast' /\ RowsFit'
    <3>1. /\ UNCHANGED <<row, job, jobs, history>>
          /\ \A g \in Handlers : pc'[g] \in Own => pc[g] \in Own
          /\ \A r \in Runs : state[r] = "DONE" => state'[r] = "DONE"
      BY <2>6
      DEF Publish, Settle, WriteState, WriteOutcome, Proceed, Goto, TypeOK
    <3>2. \A r : Sole(r)' = Sole(r)
      BY <3>1 DEF Sole, history
    <3> QED
      BY <2>2, <3>1, <3>2 DEF ErasPast, RowsFit, history
  <2>7. ASSUME NEW h \in Handlers, Record(h) PROVE ErasPast' /\ RowsFit'
    <3>1. /\ pc[h] = "record" /\ id[h] \in JobIds
          /\ UNCHANGED <<jobs, objects, history>>
          /\ row' = row \/ row' = [row EXCEPT ![id[h]] = job[h]]
          /\ \A g \in Handlers :
                pc'[g] \in Own => g # h /\ pc'[g] = pc[g] /\ job'[g] = job[g]
      BY <2>7 DEF Record, Answer, Goto, TypeOK, Placed
    <3>2. \A r : Sole(r)' = Sole(r)
      BY <3>1 DEF Sole, history
    <3>3. /\ job[h] <= runs /\ jobOf[job[h]] = id[h] /\ verdict[job[h]] # "none"
          /\ Sole(job[h]) => jobs[id[h]] = job[h] /\ state[job[h]] = "DONE"
      BY <3>1, SoleOwner
      DEF Owned, HeldFits, VerdictsFit, Holding, Running, SoleProgress
    <3>4. \A g \in Handlers : g # h /\ pc[g] \in Own => job[g] # job[h]
      BY <3>1 DEF Owned, OwnersDiffer
    <3>5. ASSUME NEW j \in JobIds, row'[j] # 0
          PROVE  \/ row'[j] = row[j]
                 \/ j = id[h] /\ row'[j] = job[h]
      BY <3>1 DEF TypeOK
    <3> QED
      BY <3>1, <3>2, <3>3, <3>4, <3>5 DEF ErasPast, RowsFit, objects, history
  <2>8. CASE Restart
    <3>1. /\ restarts' = restarts + 1 /\ \A g \in Handlers : pc'[g] = "idle"
          /\ UNCHANGED <<row, runs, jobOf, era, verdict>>
      BY <2>8 DEF Restart
    <3>2. \A r \in Runs : era[r] <= restarts /\ era[r] # restarts'
      BY <2>1, <3>1 DEF ErasPast
    <3> QED
      BY <2>1, <2>2, <3>1, <3>2 DEF ErasPast, RowsFit
  <2>9. ASSUME UNCHANGED <<jobs, objects, history, row>>,
               \A g \in Handlers : pc'[g] \in Own => pc'[g] = pc[g] /\ job'[g] = job[g]
        PROVE  ErasPast' /\ RowsFit'
    <3>1. \A r : Sole(r)' = Sole(r)
      BY <2>9 DEF Sole, history
    <3> QED
      BY <2>9, <3>1 DEF ErasPast, RowsFit, objects, history
  <2>10. CASE UNCHANGED vars
    BY <2>9, <2>10 DEF vars, request
  <2> QED
    BY <2>4, <2>5, <2>6, <2>7, <2>8, <2>9, <2>10, OtherSteps DEF Next, Serve
<1>3. QED
  BY <1>1, <1>2, TypeCorrect, Ownership, SoleInvariant, PTL DEF Spec

\* A row of _bq_meta.jobs is that of a run of its id that ended, and that jobs.get
\* shows as done: RecordJob never runs ahead of CompleteJob.
THEOREM RowsFinished == Spec => []RowsAreOfFinishedRuns
<1>1. TypeOK /\ Placed /\ Owned /\ RowsFit => RowsAreOfFinishedRuns
  <2> SUFFICES ASSUME TypeOK, Placed, Owned, RowsFit, NEW j \in JobIds, row[j] # 0,
                      era[row[j]] = restarts, Sole(row[j])
               PROVE  ~ BeingCompleted(row[j])
    BY DEF RowsAreOfFinishedRuns, RowsFit, Finished
  <2>1. \A h \in Handlers :
           pc[h] \in Completing /\ jobs[id[h]] = row[j] => pc[h] \in Own /\ job[h] = row[j]
    BY SoleOwner DEF Completing, Own, Ended
  <2> QED
    BY <2>1 DEF BeingCompleted, RowsFit
<1>2. QED
  BY <1>1, TypeCorrect, Ownership, RowsInvariant, PTL

-----------------------------------------------------------------------------
(* Generated ids *)

\* newJobID's counter is ahead of every id it gave out; an id on its way to CreateJob
\* is in no entry and on no other way there, unless a client can name it.
Numbered ==
    /\ \A j \in JobIds : jobs[j] # 0 /\ j \notin ClientIds => j <= jobCounter
    /\ \A h \in Handlers :
          /\ pc[h] = "lookup" => id[h] \in ClientIds
          /\ pc[h] = "create" /\ id[h] \notin ClientIds =>
                /\ id[h] <= jobCounter /\ jobs[id[h]] = 0
                /\ \A g \in Handlers \ {h} : pc[g] = "create" => id[g] # id[h]

\* Every run of this process still has an entry, and under a generated id it is sole.
Entered ==
    \A r \in 1 .. runs :
        /\ jobOf[r] \in JobIds
        /\ era[r] = restarts => jobs[jobOf[r]] # 0
        /\ jobOf[r] \notin ClientIds => Sole(r)

\* A job under an id that only newJobID gives out is run and completed once, by the
\* request it was made for, in a process that serves any number of requests.
THEOREM GeneratedPrivate == Spec => []GeneratedJobsPrivate
<1>1. Init => Numbered /\ Entered
  BY DEF Init, Numbered, Entered
<1>2. TypeOK /\ Placed /\ ErasPast /\ Numbered /\ Entered /\ [Next]_vars
      => Numbered' /\ Entered'
  <2> SUFFICES ASSUME TypeOK, Placed, ErasPast, Numbered, Entered, [Next]_vars
               PROVE  Numbered' /\ Entered'
    OBVIOUS
  <2>1. /\ runs \in Nat /\ 1 .. runs \subseteq Runs
        /\ jobCounter \in Nat /\ restarts \in Nat
    BY BoundsAssumption DEF TypeOK, MaybeRun, Runs, Eras
  <2>2. \A j \in JobIds : j \notin ClientIds => j \in Nat
    BY DEF JobIds, Generated
  <2>3. ASSUME NEW h \in Handlers, Generate(h) PROVE Numbered' /\ Entered'
    <3>1. /\ pc[h] = "generate" /\ pc' = [pc EXCEPT ![h] = "create"]
          /\ jobCounter' = jobCounter + 1 /\ id' = [id EXCEPT ![h] = jobCounter + 1]
          /\ UNCHANGED <<jobs, history>>
          /\ jobCounter + 1 \in JobIds
      BY <2>1, <2>3, BoundsAssumption DEF Generate, Increment, Goto, JobIds, Generated
    <3>2. jobCounter + 1 \notin ClientIds => jobs[jobCounter + 1] = 0
      BY <2>1, <3>1 DEF Numbered
    <3>3. \A g \in Handlers : pc[g] = "create" => id[g] \in JobIds
      BY DEF Placed
    <3>4. Numbered'
      BY <2>1, <2>2, <3>1, <3>2, <3>3 DEF Numbered, TypeOK
    <3> QED
      BY <3>1, <3>4 DEF Entered, Sole, history
  <2>4. ASSUME NEW h \in Handlers, Create(h) PROVE Numbered' /\ Entered'
    <3>1. /\ pc[h] = "create" /\ id[h] \in JobIds
          /\ runs' = runs + 1 /\ runs' \in Runs /\ runs' # 0
          /\ pc' = [pc EXCEPT ![h] = "execute"]
          /\ jobs' = [jobs EXCEPT ![id[h]] = runs']
          /\ jobOf' = [jobOf EXCEPT ![runs'] = id[h]]
          /\ era' = [era EXCEPT ![runs'] = restarts]
          /\ UNCHANGED <<jobCounter, id, restarts>>
      BY <2>1, <2>4, BoundsAssumption DEF Create, Goto, Placed, Runs
    <3>2. Numbered'
      BY <3>1 DEF Numbered, Placed, TypeOK
    <3>3. \A r \in 1 .. runs : r # runs' /\ jobOf'[r] = jobOf[r] /\ era'[r] = era[r]
      BY <2>1, <3>1 DEF TypeOK
    <3>4. jobOf'[runs'] = id[h] /\ era'[runs'] = restarts /\ jobs'[id[h]] = runs'
      BY <3>1 DEF TypeOK
    <3>5. 1 .. runs' = (1 .. runs) \cup {runs'}
      BY <2>1, <3>1
    <3>6. ASSUME NEW r \in 1 .. runs, jobOf[r] = id[h], id[h] \notin ClientIds
          PROVE  era[r] # restarts
      BY <3>1, <3>6 DEF Numbered, Entered
    <3>7. ASSUME NEW r \in 1 .. runs', jobOf'[r] \notin ClientIds PROVE Sole(r)'
      BY <3>3, <3>4, <3>5, <3>6, <3>7 DEF Sole, Entered
    <3>8. ASSUME NEW r \in 1 .. runs'
          PROVE  jobOf'[r] \in JobIds /\ (era'[r] = restarts' => jobs'[jobOf'[r]] # 0)
      BY <3>1, <3>3, <3>4, <3>5 DEF Entered, TypeOK
    <3> QED
      BY <3>2, <3>7, <3>8 DEF Entered
  <2>5. CASE Restart
    <3>1. /\ restarts' = restarts + 1 /\ \A g \in Handlers : pc'[g] = "idle"
          /\ \A j \in JobIds : jobs'[j] = 0
          /\ UNCHANGED <<runs, jobOf, era>>
      BY <2>5 DEF Restart
    <3>2. \A r \in Runs : era[r] # restarts'
      BY <2>1, <3>1, BoundsAssumption DEF ErasPast, TypeOK, Eras
    <3> QED
      BY <2>1, <3>1, <3>2 DEF Numbered, Entered, Sole
  <2>6. ASSUME UNCHANGED <<jobs, jobCounter, runs, jobOf, era, restarts>>,
               \A g \in Handlers :
                  /\ pc'[g] = "lookup" => id'[g] \in ClientIds
                  /\ pc'[g] = "create" =>
                        id'[g] = id[g] /\ (pc[g] = "create" \/ id[g] \in ClientIds)
        PROVE  Numbered' /\ Entered'
    BY <2>6 DEF Numbered, Entered, Sole
  <2>7. ASSUME NEW h \in Handlers,
               Arrivals(h) \/ Lookup(h) \/ AnswerDryRun(h) \/ Execute(h) \/ Publish(h)
               \/ Settle(h) \/ Record(h) \/ ReplayError(h) \/ ReplayState(h) \/ Fetch(h)
               \/ ReadState(h) \/ ReadError(h) \/ ReadResult(h) \/ Disconnect(h)
        PROVE  Numbered' /\ Entered'
    <3>1. UNCHANGED <<jobs, jobCounter, runs, jobOf, era, restarts>>
      BY <2>7
      DEF Arrivals, StartQuery, StartInsert, StartResults, Arrive, Lookup, AnswerDryRun,
          Execute, Publish, Settle, Record, ReplayError, ReplayState, Fetch, ReadState,
          ReadError, ReadResult, Disconnect, history
    <3>2. \A g \in Handlers : g # h => pc'[g] = pc[g] /\ id'[g] = id[g]
      BY <2>7
      DEF Arrivals, StartQuery, StartInsert, StartResults, Arrive, Lookup, AnswerDryRun,
          Execute, AfterQuery, Publish, Settle, Record, ReplayError, ReplayState, Fetch,
          ReadState, ReadError, ReadResult, Disconnect, Answer, Proceed, Goto, TypeOK
    <3>3. CASE Arrivals(h)
      BY <2>6, <3>1, <3>2, <3>3
      DEF Arrivals, StartQuery, StartInsert, StartResults, Arrive, Goto, TypeOK, Numbered
    <3>4. CASE Lookup(h)
      BY <2>6, <3>1, <3>2, <3>4 DEF Lookup, Goto, TypeOK, Numbered
    <3>5. CASE ~ Arrivals(h) /\ ~ Lookup(h)
      <4>1. pc'[h] \notin {"lookup", "create"}
        BY <2>7, <3>5
        DEF AnswerDryRun, Execute, AfterQuery, Publish, Settle, Record, ReplayError,
            ReplayState, Fetch, ReadState, ReadError, ReadResult, Disconnect, Answer,
            Proceed, Goto, TypeOK
      <4> QED
        BY <2>6, <3>1, <3>2, <4>1 DEF Numbered
    <3> QED
      BY <3>3, <3>4, <3>5
  <2>8. CASE UNCHANGED vars
    BY <2>6, <2>8 DEF vars, request, history, Numbered
  <2> QED
    BY <2>3, <2>4, <2>5, <2>7, <2>8 DEF Next, Serve
<1>3. TypeOK /\ Owned /\ Entered /\ OutcomeBelongsToId => GeneratedJobsPrivate
  <2> SUFFICES ASSUME TypeOK, Owned, Entered, OutcomeBelongsToId,
                      NEW r \in 1 .. runs, jobOf[r] \notin ClientIds
               PROVE  Sole(r) /\ errorOf[r] \in {0, r} /\ resultOf[r] \in {0, r}
    BY DEF GeneratedJobsPrivate
  <2>1. r \in Runs /\ Sole(r)
    BY BoundsAssumption DEF TypeOK, MaybeRun, Runs, Entered
  <2>2. \A e \in Runs : verdict[e] # "none" => e \in 1 .. runs
    BY BoundsAssumption DEF TypeOK, Owned, BlankBeyond, MaybeRun, Runs
  <2>3. \A e \in MaybeRun : e # 0 => e \in Runs
    BY BoundsAssumption DEF MaybeRun, Runs
  <2>4. errorOf[r] \in MaybeRun /\ resultOf[r] \in MaybeRun
    BY <2>1 DEF TypeOK
  <2> QED
    BY <2>1, <2>2, <2>3, <2>4 DEF Sole, OutcomeBelongsToId
<1>4. QED
  BY <1>1, <1>2, <1>3, TypeCorrect, Ownership, OutcomesBelong, RowsInvariant, PTL DEF Spec

-----------------------------------------------------------------------------
(* Replies about finished jobs *)

\* Once finished, the job of a sole run stays finished while the process lives.
LEMMA FinishedForGood ==
  ASSUME TypeOK, Placed, Owned, SoleProgress, [Next]_vars, ~ Restart,
         NEW o \in 1 .. runs, Sole(o)', Finished(o)
  PROVE  Finished(o)'
<1>1. Sole(o) /\ o \in Runs
  BY SoleBefore, RunsGrow
<1>2. ASSUME NEW h \in Handlers, Create(h) PROVE Finished(o)'
  <2>1. /\ runs' # o /\ state' = state /\ pc[h] = "create"
        /\ pc' = [pc EXCEPT ![h] = "execute"] /\ id' = id
        /\ jobs' = [jobs EXCEPT ![id[h]] = runs'] /\ id[h] \in JobIds
    BY <1>2, RunsGrow DEF Create, Goto, objects, Placed
  <2> QED
    BY <1>2, <2>1 DEF Finished, BeingCompleted, Completing, TypeOK
<1>3. ASSUME NEW h \in Handlers, Execute(h) PROVE Finished(o)'
  BY <1>3
  DEF Execute, AfterQuery, Proceed, Goto, objects, TypeOK, Finished, BeingCompleted,
      Completing
<1>4. ASSUME NEW h \in Handlers, Publish(h) \/ Settle(h) PROVE Finished(o)'
  <2>1. state'[o] = "DONE" /\ jobs' = jobs /\ id' = id
    BY <1>1, <1>4 DEF Publish, Settle, WriteState, WriteOutcome, Proceed, Finished, TypeOK
  <2>2. \A g \in Handlers : g # h => pc'[g] = pc[g]
    BY <1>4 DEF Publish, Settle, Proceed, Goto, TypeOK
  <2>3. CASE Publish(h)
    <3>1. pc[h] \in Own /\ pc[h] = "publish"
      BY <2>3 DEF Publish, Own, Ended
    <3>2. jobs[id[h]] # o
      BY <1>1, <3>1, SoleOwner DEF SoleProgress, Finished
    <3> QED
      BY <2>1, <2>2, <3>2 DEF Finished, BeingCompleted
  <2>4. CASE Settle(h)
    BY <2>1, <2>2, <2>4 DEF Settle, Finished, BeingCompleted, Completing
  <2> QED
    BY <1>4, <2>3, <2>4
<1>5. ASSUME UNCHANGED <<jobs, objects>>,
             \A g \in Handlers : pc'[g] \in Own => pc'[g] = pc[g] /\ id'[g] = id[g]
      PROVE  Finished(o)'
  BY <1>5 DEF Finished, BeingCompleted, Completing, Own, Ended, objects
<1>6. CASE UNCHANGED vars
  BY <1>5, <1>6 DEF vars, request
<1> QED
  BY <1>2, <1>3, <1>4, <1>5, <1>6, OtherSteps DEF Next, Serve

\* A failed sole run left its error in its object, and one that did not left none.
LEMMA SoleError ==
  ASSUME TypeOK, Owned, SoleSettled, OutcomeBelongsToId,
         NEW o \in 1 .. runs, era[o] = restarts, Sole(o), Finished(o)
  PROVE  IF verdict[o] = "ok" THEN resultOf[o] = o /\ errorOf[o] = 0 ELSE errorOf[o] # 0
<1>1. o \in Runs /\ errorOf[o] \in MaybeRun
  BY BoundsAssumption DEF TypeOK, MaybeRun, Runs
<1>2. ASSUME errorOf[o] # 0 PROVE verdict[o] = "failed"
  <2>1. errorOf[o] \in Runs /\ verdict[errorOf[o]] = "failed"
    BY <1>1, <1>2, BoundsAssumption DEF OutcomeBelongsToId, MaybeRun, Runs
  <2>2. errorOf[o] \in 1 .. runs
    BY <2>1, BoundsAssumption DEF Owned, BlankBeyond, TypeOK, MaybeRun, Runs
  <2> QED
    BY <1>2, <2>1, <2>2 DEF OutcomeBelongsToId, Sole
<1>3. Stored(o)
  BY DEF SoleSettled
<1> QED
  BY <1>1, <1>2, <1>3, BoundsAssumption DEF Stored, Runs

\* A request that found its job finished when it came goes on to find it so.
SeenFit(h) ==
    \/ /\ pc[h] \in {"lookup", "fetch"}
       /\ jobs[id[h]] # 0
       /\ Sole(jobs[id[h]]) => Finished(jobs[id[h]])
    \/ /\ pc[h] \in Replaying \cup (Reading \ {"fetch"})
       /\ Sole(job[h]) => Finished(job[h])
       /\ pc[h] \in {"replayState", "readResult"} /\ Sole(job[h]) => verdict[job[h]] = "ok"
SeenFits == \A h \in Handlers : seen[h] = "finished" => SeenFit(h)

\* What a request found finished when it came stays finished while it is served.
LEMMA SeenInvariant == Spec => []SeenFits
<1>1. Init => SeenFits
  BY DEF Init, SeenFits
<1>2. /\ TypeOK /\ Placed /\ Owned /\ SoleProgress /\ SoleSettled
      /\ OutcomeBelongsToId /\ SeenFits /\ [Next]_vars
      => SeenFits'
  <2> SUFFICES ASSUME TypeOK, Placed, Owned, SoleProgress, SoleSettled,
                      OutcomeBelongsToId, SeenFits, [Next]_vars, ~ Restart
               PROVE  SeenFits'
    BY DEF Restart, SeenFits
  <2>1. \A o \in 1 .. runs : Sole(o)' /\ (Sole(o) => Finished(o)) => Sole(o) /\ Finished(o)'
    BY SoleBefore, FinishedForGood
  <2>2. \A g \in Handlers :
           pc[g] \in Holding => job[g] \in 1 .. runs /\ era[job[g]] = restarts
    BY BoundsAssumption DEF TypeOK, MaybeRun, Runs, Placed, Owned, HeldFits
  <2>3. \A j \in JobIds :
           jobs[j] # 0 => /\ jobs[j] \in 1 .. runs /\ jobOf[jobs[j]] = j
                          /\ era[jobs[j]] = restarts
    BY BoundsAssumption DEF TypeOK, MaybeRun, Runs, Owned, MapFits
  <2>4. \A j \in JobIds :
           jobs[j] # 0 => jobs'[j] # 0 /\ (Sole(jobs[j])' => jobs'[j] = jobs[j])
    <3>1. ASSUME NEW h \in Handlers, Create(h), NEW j \in JobIds, jobs[j] # 0
          PROVE  jobs'[j] # 0 /\ (Sole(jobs[j])' => jobs'[j] = jobs[j])
      <4>1. /\ runs' = runs + 1 /\ runs' \in Runs /\ runs \in Nat
            /\ jobs' = [jobs EXCEPT ![id[h]] = runs']
            /\ jobOf' = [jobOf EXCEPT ![runs'] = id[h]]
            /\ era' = [era EXCEPT ![runs'] = restarts]
        BY <3>1, RunsGrow, BoundsAssumption DEF Create, Runs
      <4>2. /\ jobs[j] \in 1 .. runs' /\ jobs[j] # runs' /\ runs' # 0
            /\ jobOf'[jobs[j]] = j /\ era'[jobs[j]] = restarts
        BY <2>3, <3>1, <4>1 DEF TypeOK
      <4>3. CASE j = id[h]
        <5>1. /\ jobs'[j] = runs' /\ jobOf'[runs'] = j /\ era'[runs'] = restarts
          BY <3>1, <4>1, <4>3 DEF TypeOK
        <5> QED
          BY <4>2, <5>1 DEF Sole
      <4>4. CASE j # id[h]
        BY <3>1, <4>1, <4>4 DEF TypeOK
      <4> QED
        BY <4>3, <4>4
    <3>2. CASE jobs' = jobs
      BY <3>2
    <3> QED
      BY <3>1, <3>2, StepKinds DEF Execute, Publish, Settle, Record
  <2>5. \A r \in 1 .. runs : verdict[r] = "ok" => verdict'[r] = "ok"
    <3>1. ASSUME NEW h \in Handlers, Execute(h), NEW r \in 1 .. runs, verdict[r] = "ok"
          PROVE  verdict'[r] = "ok"
      BY <3>1 DEF Execute, TypeOK, Owned, VerdictsFit
    <3>2. CASE verdict' = verdict
      BY <3>2
    <3> QED
      BY <3>1, <3>2, StepKinds DEF Create, Publish, Settle, Record, history
  <2>6. ASSUME NEW g \in Handlers, seen[g] = "finished",
               pc'[g] = pc[g], id'[g] = id[g], job'[g] = job[g]
        PROVE  SeenFit(g)'
    <3>1. SeenFit(g)
      BY <2>6 DEF SeenFits
    <3>2. CASE pc[g] \in {"lookup", "fetch"}
      <4>1. /\ jobs[id[g]] # 0 /\ id[g] \in JobIds
            /\ Sole(jobs[id[g]]) => Finished(jobs[id[g]])
        BY <3>1, <3>2 DEF SeenFit, Placed, Replaying, Reading
      <4>2. Sole(jobs[id[g]])' => Finished(jobs[id[g]])'
        BY <2>1, <2>3, <2>4, <2>6, <4>1
      <4> QED
        BY <2>4, <2>6, <3>2, <4>1, <4>2 DEF SeenFit
    <3>3. CASE pc[g] \in Replaying \cup (Reading \ {"fetch"})
      <4>1. /\ job[g] \in 1 .. runs
            /\ Sole(job[g]) => Finished(job[g])
            /\ pc[g] \in {"replayState", "readResult"} /\ Sole(job[g])
                  => verdict[job[g]] = "ok"
        BY <2>2, <3>1, <3>3 DEF SeenFit, Holding, Replaying, Reading
      <4> QED
        BY <2>1, <2>5, <2>6, <3>3, <4>1 DEF SeenFit
    <3> QED
      BY <3>1, <3>2, <3>3 DEF SeenFit
  <2>7. ASSUME NEW h \in Handlers, Arrivals(h) PROVE SeenFits'
    <3>1. ASSUME NEW j \in JobIds, Known(j) = "finished"
          PROVE  /\ jobs[j] # 0 /\ jobs'[j] # 0
                 /\ Sole(jobs[j])' => Finished(jobs[j])'
      BY <2>1, <2>3, <2>4, <3>1 DEF Known
    <3>2. seen'[h] = "finished" => SeenFit(h)'
      BY <2>7, <3>1
      DEF Arrivals, StartQuery, StartInsert, StartResults, Arrive, Goto, SeenFit, JobIds,
          TypeOK
    <3>3. \A g \in Handlers : g # h =>
             pc'[g] = pc[g] /\ id'[g] = id[g] /\ job'[g] = job[g] /\ seen'[g] = seen[g]
      BY <2>7
      DEF Arrivals, StartQuery, StartInsert, StartResults, Arrive, Goto, TypeOK
    <3> QED
      BY <2>6, <3>2, <3>3 DEF SeenFits
  <2>8. ASSUME NEW h \in Handlers, Lookup(h) \/ Fetch(h) PROVE SeenFits'
    <3>1. /\ pc[h] \in {"lookup", "fetch"} /\ id[h] \in JobIds
          /\ \A g \in Handlers : g # h =>
                pc'[g] = pc[g] /\ id'[g] = id[g] /\ job'[g] = job[g] /\ seen'[g] = seen[g]
      BY <2>8 DEF Lookup, Fetch, Answer, Goto, TypeOK, Placed
    <3>2. ASSUME seen'[h] = "finished" PROVE SeenFit(h)'
      <4>1. seen[h] = "finished"
        BY <2>8, <3>2 DEF Lookup, Fetch, Answer, TypeOK
      <4>2. jobs[id[h]] # 0 /\ (Sole(jobs[id[h]]) => Finished(jobs[id[h]]))
        BY <3>1, <4>1 DEF SeenFits, SeenFit, Replaying, Reading
      <4>3. job'[h] = jobs[id[h]] /\ pc'[h] \in {"replayError", "readState"}
        BY <2>8, <4>2 DEF Lookup, Adopted, Fetch, Goto, TypeOK
      <4> QED
        BY <2>1, <2>3, <3>1, <4>2, <4>3 DEF SeenFit, Replaying, Reading
    <3> QED
      BY <2>6, <3>1, <3>2 DEF SeenFits
  <2>9. ASSUME NEW h \in Handlers, ReplayError(h) \/ ReadState(h) \/ ReadError(h)
        PROVE  SeenFits'
    <3>1. /\ pc[h] \in {"replayError", "readState", "readError"}
          /\ \A g \in Handlers : g # h =>
                pc'[g] = pc[g] /\ id'[g] = id[g] /\ job'[g] = job[g] /\ seen'[g] = seen[g]
      BY <2>9 DEF ReplayError, ReadState, ReadError, Answer, Proceed, Goto, TypeOK
    <3>2. ASSUME seen'[h] = "finished" PROVE SeenFit(h)'
      <4>1. /\ seen[h] = "finished" /\ job'[h] = job[h]
            /\ \/ pc'[h] \in {"replayState", "readResult"} /\ errorOf[job[h]] = 0
               \/ pc'[h] = "readError"
            /\ UNCHANGED history
        BY <2>9, <3>2
        DEF ReplayError, ReadState, ReadError, ErrorOf, Answer, Proceed, Goto, TypeOK
      <4>2. /\ job[h] \in 1 .. runs /\ era[job[h]] = restarts
            /\ Sole(job[h]) => Finished(job[h])
        BY <2>2, <3>1, <4>1 DEF SeenFits, SeenFit, Holding, Replaying, Reading
      <4>3. Sole(job[h]) /\ errorOf[job[h]] = 0 => verdict[job[h]] = "ok"
        BY <4>2, SoleError
      <4> QED
        BY <2>1, <4>1, <4>2, <4>3 DEF SeenFit, Replaying, Reading, history
    <3> QED
      BY <2>6, <3>1, <3>2 DEF SeenFits
  <2>10. ASSUME NEW h \in Handlers,
                Generate(h) \/ Create(h) \/ Execute(h) \/ Publish(h) \/ Settle(h)
         PROVE  SeenFits'
    <3>1. /\ pc[h] \in {"generate", "create"} \cup Own /\ seen'= seen
          /\ \A g \in Handlers : g # h =>
                pc'[g] = pc[g] /\ id'[g] = id[g] /\ job'[g] = job[g]
      BY <2>10
      DEF Generate, Create, Execute, AfterQuery, Publish, Settle, Proceed, Goto, TypeOK,
          Own, Ended
    <3>2. seen[h] # "finished"
      BY <3>1 DEF SeenFits, SeenFit, Own, Ended, Replaying, Reading
    <3> QED
      BY <2>6, <3>1, <3>2 DEF SeenFits
  <2>11. ASSUME NEW h \in Handlers,
                AnswerDryRun(h) \/ Record(h) \/ ReplayState(h) \/ ReadResult(h)
         PROVE  SeenFits'
    <3>1. /\ seen'[h] = "nothing"
          /\ \A g \in Handlers : g # h =>
                pc'[g] = pc[g] /\ id'[g] = id[g] /\ job'[g] = job[g] /\ seen'[g] = seen[g]
      BY <2>11 DEF AnswerDryRun, Record, ReplayState, ReadResult, Answer, Goto, TypeOK
    <3> QED
      BY <2>6, <3>1 DEF SeenFits
  <2>12. CASE UNCHANGED <<pc, id, job, seen>>
    BY <2>6, <2>12 DEF SeenFits
  <2> QED
    BY <2>7, <2>8, <2>9, <2>10, <2>11, <2>12 DEF Next, Serve, Disconnect, vars, request
<1>3. QED
  BY <1>1, <1>2, TypeCorrect, Ownership, SoleInvariant, OutcomesBelong, PTL DEF Spec

\* A request for a job that was finished when the request came is told its outcome,
\* unless two runs of the process took the same id.
THEOREM FinishedAnswered == Spec => []FinishedJobsAnswer
<1>1. Init => FinishedJobsAnswer
  BY DEF Init, NoReply, FinishedJobsAnswer
<1>2. /\ TypeOK /\ Placed /\ Owned /\ SoleSettled /\ OutcomeBelongsToId /\ SeenFits
      /\ FinishedJobsAnswer /\ [Next]_vars
      => FinishedJobsAnswer'
  <2> SUFFICES ASSUME TypeOK, Placed, Owned, SoleSettled, OutcomeBelongsToId, SeenFits,
                      FinishedJobsAnswer, [Next]_vars
               PROVE  FinishedJobsAnswer'
    OBVIOUS
  <2>1. CASE Silent
    BY <2>1 DEF Silent, NoReply, FinishedJobsAnswer
  <2>2. ASSUME NEW h \in Handlers, AnswerDryRun(h) \/ Record(h) PROVE FinishedJobsAnswer'
    <3>1. seen[h] # "finished"
      BY <2>2
      DEF AnswerDryRun, Record, SeenFits, SeenFit, Replaying, Reading
    <3> QED
      BY <2>2, <3>1 DEF AnswerDryRun, Record, Answer, FinishedJobsAnswer
  <2>3. ASSUME NEW h \in Handlers, Fetch(h) PROVE FinishedJobsAnswer'
    <3>1. CASE jobs[id[h]] = 0
      <4>1. seen[h] # "finished"
        BY <2>3, <3>1 DEF Fetch, SeenFits, SeenFit, Replaying, Reading
      <4> QED
        BY <2>3, <3>1, <4>1 DEF Fetch, Answer, FinishedJobsAnswer
    <3>2. CASE jobs[id[h]] # 0
      BY <2>1, <2>3, <3>2 DEF Fetch
    <3> QED
      BY <3>1, <3>2
  <2>4. ASSUME NEW h \in Handlers,
               ReplayError(h) \/ ReplayState(h) \/ ReadState(h) \/ ReadError(h)
               \/ ReadResult(h)
        PROVE  FinishedJobsAnswer'
    <3>1. /\ pc[h] \in Holding /\ pc[h] \in Replaying \cup (Reading \ {"fetch"})
          /\ UNCHANGED <<objects, history>>
      BY <2>4
      DEF ReplayError, ReplayState, ReadState, ReadError, ReadResult, Holding, Replaying,
          Reading
    <3>2. job[h] \in 1 .. runs /\ era[job[h]] = restarts /\ job[h] # 0
      BY <3>1, BoundsAssumption DEF TypeOK, Placed, Owned, HeldFits, MaybeRun, Runs
    <3>3. \A r : Sole(r)' = Sole(r)
      BY <3>1 DEF Sole, history
    <3>4. ASSUME ~ Silent
          PROVE  reply'.job = job[h] /\ reply'.seen = seen[h] /\ reply'.said # "none"
      BY <2>4, <3>4
      DEF ReplayError, ReplayState, ReadState, ReadError, ReadResult, Answer, Proceed
    <3>5. ASSUME ~ Silent, seen[h] = "finished", Sole(job[h])
          PROVE  reply'.said \in IF verdict[job[h]] = "ok" THEN {"replayedDone", "rows"}
                                                       ELSE {"replayedError", "error"}
      <4>1. Finished(job[h])
        BY <3>1, <3>5 DEF SeenFits, SeenFit, Replaying, Reading
      <4>2. /\ state[job[h]] = "DONE"
            /\ IF verdict[job[h]] = "ok"
               THEN resultOf[job[h]] = job[h] /\ errorOf[job[h]] = 0
               ELSE errorOf[job[h]] # 0
        BY <3>2, <3>5, <4>1, SoleError DEF Finished
      <4>3. pc[h] \in {"replayState", "readResult"} => verdict[job[h]] = "ok"
        BY <3>1, <3>5 DEF SeenFits, SeenFit
      <4> QED
        BY <2>4, <3>2, <3>5, <4>2, <4>3
        DEF ReplayError, ReplayState, ReadState, ReadError, ReadResult, ErrorOf, Answer,
            Proceed
    <3> QED
      BY <2>1, <3>1, <3>2, <3>3, <3>4, <3>5 DEF FinishedJobsAnswer, history
  <2>5. CASE UNCHANGED vars
    BY <2>5 DEF vars, history, FinishedJobsAnswer, Sole
  <2> QED
    BY <2>1, <2>2, <2>3, <2>4, <2>5
    DEF Next, Arrivals, StartQuery, StartInsert, StartResults, Arrive, Serve, Generate,
        Lookup, Create, Execute, AfterQuery, Publish, Settle, Proceed, Disconnect, Restart
<1>3. QED
  BY <1>1, <1>2, TypeCorrect, Ownership, SoleInvariant, OutcomesBelong, SeenInvariant, PTL
  DEF Spec

-----------------------------------------------------------------------------
(* Jobs that are listed *)

\* No other run, of this process or of an earlier one, has had the id of run r.
OnlyRun(r) == \A s \in 1 .. runs : jobOf[s] = jobOf[r] => s = r

\* A client that is told how its query ended finds it in INFORMATION_SCHEMA, if the id is
\* that of no other run: RecordJob's INSERT fails on a row of another run alone.
OnlyRunsListed ==
    reply.said \in {"ran", "failed"} /\ OnlyRun(reply.run) => row[reply.id] = reply.run

\* Nobody has gone away, and the last reply was about a run.
AllLive == \A h \in Handlers : live[h]
RepliedRun == reply.said \in {"ran", "failed"} => reply.run \in 1 .. runs /\ jobOf[reply.run] = reply.id

\* Where no client goes away, r.Context() is never cancelled.
LEMMA LiveStep ==
  ASSUME ~ Disconnects, TypeOK, AllLive, [Next]_vars
  PROVE  AllLive'
<1>1. ASSUME NEW h \in Handlers, live' = [live EXCEPT ![h] = TRUE] PROVE AllLive'
  BY <1>1 DEF AllLive, TypeOK
<1>2. CASE UNCHANGED live
  BY <1>2 DEF AllLive
<1>3. ASSUME NEW h \in Handlers,
             \/ Arrivals(h) \/ Generate(h) \/ Lookup(h) \/ Create(h) \/ Execute(h)
             \/ Publish(h) \/ Settle(h)
      PROVE  UNCHANGED live
  BY <1>3
  DEF Arrivals, StartQuery, StartInsert, StartResults, Arrive, Generate, Lookup, Create,
      Execute, AfterQuery, Publish, Settle, Proceed
<1>4. ASSUME NEW h \in Handlers,
             \/ AnswerDryRun(h) \/ Record(h) \/ ReplayError(h) \/ ReplayState(h) \/ Fetch(h)
             \/ ReadState(h) \/ ReadError(h) \/ ReadResult(h)
      PROVE  UNCHANGED live \/ live' = [live EXCEPT ![h] = TRUE]
  BY <1>4
  DEF AnswerDryRun, Record, ReplayError, ReplayState, Fetch, ReadState, ReadError, ReadResult,
      Answer, Proceed
<1>5. CASE Restart
  BY <1>5 DEF Restart, AllLive
<1>6. ASSUME NEW h \in Handlers, Disconnect(h) PROVE FALSE
  BY <1>6 DEF Disconnect
<1> QED
  BY <1>1, <1>2, <1>3, <1>4, <1>5, <1>6 DEF Next, Serve, vars, request

\* RecordJob's reply is the only one that tells how the caller's own query ended.
LEMMA ToldByRecord ==
  ASSUME [Next]_vars, reply'.said \in {"ran", "failed"}
  PROVE  (\E h \in Handlers : Record(h)) \/ UNCHANGED vars
<1>1. ~ Silent
  BY DEF Silent, NoReply
<1>2. ASSUME NEW h \in Handlers, Arrivals(h) \/ Disconnect(h) \/ Restart PROVE FALSE
  BY <1>1, <1>2 DEF Arrivals, StartQuery, StartInsert, StartResults, Arrive, Disconnect, Restart
<1>3. ASSUME NEW h \in Handlers, NEW what, what \notin {"ran", "failed"}, NEW r, Answer(h, what, r)
      PROVE  FALSE
  BY <1>3 DEF Answer
<1>4. ASSUME NEW h \in Handlers,
             \/ Generate(h) \/ Lookup(h) \/ Create(h) \/ Execute(h) \/ Publish(h) \/ Settle(h)
      PROVE  FALSE
  BY <1>1, <1>4 DEF Generate, Lookup, Create, Execute, AfterQuery, Publish, Settle, Proceed
<1>5. ASSUME NEW h \in Handlers,
             \/ AnswerDryRun(h) \/ ReplayError(h) \/ ReplayState(h) \/ Fetch(h)
             \/ ReadState(h) \/ ReadError(h) \/ ReadResult(h)
      PROVE  FALSE
  BY <1>1, <1>3, <1>5
  DEF AnswerDryRun, ReplayError, ReplayState, Fetch, ReadState, ReadError, ReadResult, Proceed
<1> QED BY <1>2, <1>4, <1>5 DEF Next, Serve, Restart, Silent, NoReply

\* A job is missing from INFORMATION_SCHEMA.JOBS only if its client went away or its id had
\* another run (server.go:305-317, info_schema.go:88-142).
THEOREM JobsListed == ASSUME ~ Disconnects PROVE Spec => [](RepliedRun /\ OnlyRunsListed)
<1>1. Init => AllLive /\ RepliedRun /\ OnlyRunsListed
  BY DEF Init, NoReply, AllLive, RepliedRun, OnlyRunsListed
<1>2. TypeOK /\ AllLive /\ [Next]_vars => AllLive'
  BY LiveStep
<1>3. ASSUME TypeOK, Placed, Owned, RowsFit, AllLive, RepliedRun, OnlyRunsListed, [Next]_vars
      PROVE  RepliedRun' /\ OnlyRunsListed'
  <2> SUFFICES ASSUME reply'.said \in {"ran", "failed"} PROVE RepliedRun' /\ OnlyRunsListed'
    BY DEF RepliedRun, OnlyRunsListed
  <2>1. ASSUME NEW h \in Handlers, Record(h) PROVE RepliedRun' /\ OnlyRunsListed'
    <3>1. /\ pc[h] = "record" /\ pc[h] \in Own /\ live[h]
          /\ reply'.run = job[h] /\ reply'.id = id[h] /\ UNCHANGED <<runs, jobOf>>
          /\ row' = IF row[id[h]] = 0 THEN [row EXCEPT ![id[h]] = job[h]] ELSE row
      BY <1>3, <2>1 DEF Record, Answer, AllLive, history, Own, Ended
    <3>2. job[h] \in 1 .. runs /\ id[h] \in JobIds /\ jobOf[job[h]] = id[h]
      BY <1>3, <3>1, SoleOwner
    <3>3. ASSUME row[id[h]] # 0 PROVE ~ OnlyRun(job[h])
      <4>1. /\ row[id[h]] \in Nat /\ row[id[h]] <= runs /\ jobOf[row[id[h]]] = id[h]
            /\ row[id[h]] # job[h]
        BY <1>3, <3>1, <3>2, <3>3, BoundsAssumption DEF RowsFit, TypeOK, MaybeRun
      <4>2. row[id[h]] \in 1 .. runs
        BY <1>3, <3>3, <4>1, BoundsAssumption DEF TypeOK, MaybeRun
      <4> QED BY <3>2, <4>1, <4>2 DEF OnlyRun
    <3>4. OnlyRun(reply.run)' => OnlyRun(job[h])
      BY <3>1 DEF OnlyRun
    <3>5. row[id[h]] = 0 => row'[id[h]] = job[h]
      BY <1>3, <3>1, <3>2 DEF TypeOK
    <3> QED BY <3>1, <3>2, <3>3, <3>4, <3>5 DEF RepliedRun, OnlyRunsListed
  <2>2. CASE UNCHANGED vars
    BY <1>3, <2>2 DEF vars, history, RepliedRun, OnlyRunsListed, OnlyRun
  <2> QED BY <1>3, <2>1, <2>2, ToldByRecord
<1> QED
  BY <1>1, <1>2, <1>3, TypeCorrect, Ownership, RowsInvariant, PTL DEF Spec
============================================================================
