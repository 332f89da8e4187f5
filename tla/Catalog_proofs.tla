--------------------------- MODULE Catalog_proofs ---------------------------
(***************************************************************************)
(* What holds of module Catalog for any handlers, datasets, tables and     *)
(* partitionings, with its proofs.                                         *)
(***************************************************************************)
EXTENDS Catalog, SequenceTheorems, TLAPS

\* Which operation a handler's next step belongs to, and that a dataset operation
\* holding Store.mu has found the dataset as its lookup needs it.
StepsOf ==
    \A h \in Handlers :
        /\ pc[h] = "idle" => req[h].op = "none"
        /\ pc[h] \in {"checkNew", "createSchema", "register"} => req[h].op = "createDataset"
        /\ pc[h] \in {"checkOld", "dropSchema", "unregister"} => req[h].op = "deleteDataset"
        /\ pc[h] = "readDataset" => req[h].op = "getDataset"
        /\ pc[h] \in {"setPartitioning", "createTable"} => req[h].op = "createTable"
        /\ pc[h] \in {"tableExists", "tableColumns", "readPartitioning"} =>
               req[h].op \in {"createTable", "getTable"}
        /\ pc[h] \in {"dropExists", "dropTable"} => req[h].op = "deleteTable"

\* There is a key, as the constants assume, for the null request to name.
LEMMA SomeKeyIsKey == SomeKey \in Keys
<1>1. PICK d \in Datasets, t \in TableIds : TRUE
  BY DatasetsAssumption
<1>2. <<d, t>> \in Keys
  BY <1>1 DEF Keys
<1> QED
  BY <1>2 DEF SomeKey

\* Each table has its place in the map.
LEMMA KeyTyped == \A k \in Keys : partitioningKey(k) \in PartitioningKeys
BY DEF PartitioningKeys

\* With names of datasets that have no dots, a key is that of one table: its first label
\* is the dataset, and the rest the table.
LEMMA UndottedAlone ==
  ASSUME \A d \in Datasets : Len(d) = 1
  PROVE  \A k \in Keys : Alone(k)
<1> SUFFICES ASSUME NEW k \in Keys, NEW j \in Keys, partitioningKey(j) = partitioningKey(k)
             PROVE  j = k
  BY DEF Alone
<1>1. /\ k = <<k[1], k[2]>> /\ k[1] \in Seq(Labels) /\ k[2] \in Seq(Labels) /\ Len(k[1]) = 1
      /\ j = <<j[1], j[2]>> /\ j[1] \in Seq(Labels) /\ j[2] \in Seq(Labels) /\ Len(j[1]) = 1
  BY NamesAssumption DEF Keys
<1>2. k[1] \o k[2] = j[1] \o j[2]
  BY DEF partitioningKey
<1>3. k[1] = j[1]
  <2>1. ASSUME NEW s \in Seq(Labels), NEW t \in Seq(Labels), Len(s) = 1
        PROVE  s[1] = (s \o t)[1]
    <3>1. 1 \in 1 .. Len(s) + Len(t)
      BY <2>1, LenProperties
    <3> QED
      BY <2>1, <3>1, ConcatProperties
  <2>2. k[1][1] = j[1][1]
    BY <1>1, <1>2, <2>1
  <2> QED
    BY <1>1, <2>2, SeqEqual
<1>4. k[2] = j[2]
  <2>1. \A s, t, v \in Seq(Labels) : s \o t = s \o v => t = v
    BY ConcatSimplifications
  <2> QED
    BY <1>1, <1>2, <1>3, <2>1
<1> QED
  BY <1>1, <1>3, <1>4

\* The null values are values of their types.
LEMMA RequestTyped ==
  /\ NoRequest \in Request
  /\ NoReply \in Reply
BY SomeKeyIsKey DEF NoRequest, NoReply, Request, Reply, Ops, Outcomes, Columns,
                    MaybePartition

\* The part of the state that belongs to requests.
RequestOK ==
    /\ pc \in [Handlers -> Steps]
    /\ req \in [Handlers -> Request]
    /\ reply \in Reply

\* Moving on to a next step keeps requests and replies typed.
LEMMA ProceedTyped ==
  ASSUME RequestOK, StepsOf, NEW h \in Handlers, NEW step \in Steps, Proceed(h, step)
  PROVE  RequestOK'
BY RequestTyped DEF RequestOK, Proceed, Goto, Silent

\* Answering a request keeps requests and replies typed, and frees the handler.
LEMMA AnswerTyped ==
  ASSUME RequestOK, saw \in [Handlers -> SUBSET Presence], StepsOf,
         NEW h \in Handlers, NEW outcome \in Outcomes, NEW part \in MaybePartition,
         AnswerWith(h, outcome, part)
  PROVE  RequestOK' /\ StepsOf'
<1>1. RequestOK'
  BY RequestTyped DEF RequestOK, AnswerWith, Goto, Steps, Reply
<1>2. StepsOf'
  BY DEF RequestOK, StepsOf, AnswerWith, Goto, NoRequest
<1> QED
  BY <1>1, <1>2

\* An arriving request is a typed one, and changes its own handler only.
LEMMA ArriveTyped ==
  ASSUME RequestOK, StepsOf, NEW h \in Handlers, NEW o \in Ops, NEW k \in Keys,
         NEW p \in MaybePartition, NEW step \in Steps, Arrive(h, o, k, p, step)
  PROVE  /\ RequestOK'
         /\ req'[h].op = o
         /\ \A g \in Handlers : g # h => pc'[g] = pc[g] /\ req'[g] = req[g]
<1>1. [op |-> o, key |-> k, want |-> p, cols |-> "unread"] \in Request
  BY DEF Request, Columns
<1> QED
  BY <1>1, RequestTyped DEF RequestOK, Arrive, Goto, Silent

\* Every step of a table operation answers with an outcome or moves on.
LEMMA FinishTyped ==
  ASSUME TypeOK, StepsOf, NEW h \in Handlers, NEW outcome \in Outcomes,
         NEW part \in MaybePartition, Finish(h, outcome, part)
  PROVE  /\ RequestOK' /\ StepsOf'
         /\ declared' \in [Keys -> MaybePartition \cup {Unknown}]
         /\ contested' \in SUBSET Keys
         /\ UNCHANGED <<foreign, survivors>>
<1>1. RequestOK' /\ StepsOf'
  BY AnswerTyped DEF Finish, TypeOK, RequestOK
<1>2. req[h].key \in Keys /\ req[h].want \in MaybePartition
  BY DEF TypeOK, Request
<1> QED
  BY <1>1, <1>2 DEF Finish, Settle, history, TypeOK

\* History of a step: what requests saw is what they may see.
LEMMA ObserveTyped ==
  ASSUME saw \in [Handlers -> SUBSET Presence], Observe
  PROVE  saw' \in [Handlers -> SUBSET Presence]
BY DEF Observe, Presence

\* Every step of the system is seen by the requests it runs beside.
LEMMA Observing == Next => Observe
<1>1. ASSUME NEW h \in Handlers, Arrivals(h) PROVE Observe
  BY <1>1 DEF Arrivals, StartDataset, StartCreateTable, StartGetTable, StartDeleteTable,
              Arrive
<1>2. ASSUME NEW h \in Handlers, Serve(h) PROVE Observe
  BY <1>2 DEF Serve, CheckNew, CreateSchema, Register, CheckOld, DropSchema, Unregister,
              ReadDataset, SetPartitioning, CreateTable, TableExists, TableColumns,
              ReadPartitioning, DropExists, DropTable
<1> QED
  BY <1>1, <1>2 DEF Next, RawSchema, RawTable, Restart

\* Every value keeps its type, and every step of a handler serves an operation that
\* has such a step.
THEOREM TypeCorrect == Spec => [](TypeOK /\ StepsOf)
<1>1. Init => TypeOK /\ StepsOf
  BY RequestTyped DEF Init, TypeOK, StepsOf, Steps, MaybePartition, NoRequest
<1>2. TypeOK /\ StepsOf /\ [Next]_vars => TypeOK' /\ StepsOf'
  <2> SUFFICES ASSUME TypeOK, StepsOf, [Next]_vars PROVE TypeOK' /\ StepsOf'
    OBVIOUS
  <2>0. /\ RequestOK /\ saw \in [Handlers -> SUBSET Presence]
        /\ \A h \in Handlers : req[h].key \in Keys /\ DatasetOf(h) \in Datasets
    BY DEF TypeOK, RequestOK, Request, DatasetOf, Keys
  <2>1. ASSUME NEW h \in Handlers, Arrivals(h), Observe PROVE TypeOK' /\ StepsOf'
    <3>1. PICK o \in Ops, k \in Keys, p \in MaybePartition, step \in Steps :
             /\ Arrive(h, o, k, p, step)
             /\ \/ o = "createDataset" /\ step = "checkNew"
                \/ o = "deleteDataset" /\ step = "checkOld"
                \/ o = "getDataset" /\ step = "readDataset"
                \/ o = "createTable" /\ step = "setPartitioning"
                \/ o = "getTable" /\ step = "tableExists"
                \/ o = "deleteTable" /\ step = "dropExists"
             /\ declared' \in [Keys -> MaybePartition \cup {Unknown}]
             /\ contested' \in SUBSET Keys
      BY <2>1 DEF Arrivals, StartDataset, StartCreateTable, StartGetTable,
                  StartDeleteTable, Ops, Steps, MaybePartition, TypeOK
    <3>2. RequestOK' /\ req'[h].op = o
          /\ \A g \in Handlers : g # h => pc'[g] = pc[g] /\ req'[g] = req[g]
      BY <2>0, <3>1, ArriveTyped
    <3>3. pc'[h] = step
      BY <2>0, <3>1 DEF Arrive, Goto, RequestOK
    <3>4. StepsOf'
      BY <3>1, <3>2, <3>3 DEF StepsOf
    <3> QED
      BY <2>0, <2>1, <3>1, <3>2, <3>4, ObserveTyped DEF TypeOK, RequestOK, Arrive, duckdb
  <2>2. ASSUME NEW h \in Handlers, Serve(h), Observe PROVE TypeOK' /\ StepsOf'
    <3>1. ASSUME NEW outcome \in Outcomes, Answer(h, outcome),
                 UNCHANGED <<partitioning, declared, contested>>,
                 datasets' \in SUBSET Datasets, mu' \in Handlers \cup {NoHandler},
                 schemas' \in SUBSET Datasets, tables' \in SUBSET Keys,
                 foreign' \in SUBSET Datasets, survivors' \in SUBSET Datasets
          PROVE  TypeOK' /\ StepsOf'
      BY <2>0, <2>2, <3>1, AnswerTyped, ObserveTyped
      DEF Answer, TypeOK, RequestOK, MaybePartition
    <3>2. ASSUME NEW outcome \in Outcomes, NEW part \in MaybePartition,
                 Finish(h, outcome, part),
                 UNCHANGED <<datasets, partitioning, mu, schemas, tables>>
          PROVE  TypeOK' /\ StepsOf'
      BY <2>0, <2>2, <3>2, FinishTyped, ObserveTyped DEF TypeOK, RequestOK
    <3>3. ASSUME NEW step \in Steps, Proceed(h, step),
                 partitioning' \in [PartitioningKeys -> MaybePartition],
                 UNCHANGED <<declared, contested>>,
                 datasets' \in SUBSET Datasets, mu' \in Handlers \cup {NoHandler},
                 schemas' \in SUBSET Datasets, tables' \in SUBSET Keys,
                 foreign' \in SUBSET Datasets, survivors' \in SUBSET Datasets
          PROVE  TypeOK'
      BY <2>0, <2>2, <3>3, ProceedTyped, ObserveTyped DEF TypeOK, RequestOK
    <3>4. CASE CheckNew(h) \/ CheckOld(h) \/ ReadDataset(h) \/ DropExists(h)
      <4>1. /\ UNCHANGED <<datasets, partitioning, duckdb, history>>
            /\ mu' \in {mu, h}
            /\ \/ \E outcome \in {"conflict", "missing", "ok", "failed"} : Answer(h, outcome)
               \/ /\ pc[h] = "checkNew" /\ Proceed(h, "createSchema")
               \/ /\ pc[h] = "checkOld" /\ Proceed(h, "dropSchema")
               \/ /\ pc[h] = "dropExists" /\ Proceed(h, "dropTable")
        BY <3>4 DEF CheckNew, CheckOld, ReadDataset, DropExists, LockForCall
      <4>2. ASSUME NEW outcome \in {"conflict", "missing", "ok", "failed"},
                   Answer(h, outcome)
            PROVE  TypeOK' /\ StepsOf'
        BY <3>1, <4>1, <4>2 DEF Outcomes, duckdb, history, TypeOK
      <4>3. ASSUME NEW step \in {"createSchema", "dropSchema", "dropTable"},
                   Proceed(h, step)
            PROVE  TypeOK'
        BY <3>3, <4>1, <4>3 DEF Steps, duckdb, history, TypeOK
      <4>4. ASSUME NEW step \in {"createSchema", "dropSchema", "dropTable"},
                   Proceed(h, step),
                   pc[h] = (CASE step = "createSchema" -> "checkNew"
                              [] step = "dropSchema" -> "checkOld"
                              [] step = "dropTable" -> "dropExists")
            PROVE  StepsOf'
        BY <2>0, <4>4 DEF StepsOf, Proceed, Goto, RequestOK
      <4> QED
        BY <4>1, <4>2, <4>3, <4>4
    <3>5. CASE CreateSchema(h)
      <4>1. CASE Proceed(h, "register")
        BY <2>0, <3>3, <3>5, <4>1
        DEF CreateSchema, AfterFailure, Answer, AnswerWith, Proceed, Goto, Steps, StepsOf,
            TypeOK, RequestOK
      <4>2. CASE Answer(h, "failed") /\ mu' = NoHandler
        BY <2>0, <3>1, <3>5, <4>2
        DEF CreateSchema, AfterFailure, Outcomes, TypeOK
      <4> QED
        BY <3>5, <4>1, <4>2 DEF CreateSchema, AfterFailure
    <3>6. CASE DropSchema(h)
      <4>1. CASE Proceed(h, "unregister")
        BY <2>0, <3>3, <3>6, <4>1
        DEF DropSchema, AfterFailure, Answer, AnswerWith, Proceed, Goto, Steps, StepsOf,
            TypeOK, RequestOK, duckdb
      <4>2. CASE Answer(h, "failed") /\ mu' = NoHandler
        BY <2>0, <3>1, <3>6, <4>2
        DEF DropSchema, AfterFailure, Outcomes, TypeOK, duckdb
      <4> QED
        BY <3>6, <4>1, <4>2 DEF DropSchema, AfterFailure
    <3>7. CASE Register(h) \/ Unregister(h) \/ DropTable(h)
      BY <2>0, <3>1, <3>7
      DEF Register, Unregister, DropTable, Outcomes, duckdb, history, TypeOK
    <3>8. CASE SetPartitioning(h)
      <4>1. partitioning' \in [PartitioningKeys -> MaybePartition]
        BY <3>8 DEF SetPartitioning, RecordPartitioning, TypeOK, Request
      <4>2. TypeOK'
        BY <3>3, <3>8, <4>1 DEF SetPartitioning, Steps, duckdb, history, TypeOK
      <4> QED
        BY <2>0, <3>8, <4>2 DEF SetPartitioning, StepsOf, Proceed, Goto, RequestOK
    <3>9. CASE CreateTable(h) \/ TableExists(h)
      <4>1. CASE \/ CreateTable(h) /\ Proceed(h, "tableExists") /\ UNCHANGED history
                 \/ TableExists(h) /\ Proceed(h, "tableColumns") /\ UNCHANGED history
        <5>1. tables' \in SUBSET Keys
          BY <2>0, <3>9 DEF CreateTable, TableExists, TypeOK, duckdb
        <5>2. TypeOK'
          BY <3>3, <4>1, <5>1
          DEF CreateTable, TableExists, Steps, duckdb, history, TypeOK
        <5> QED
          BY <2>0, <4>1, <5>2
          DEF CreateTable, TableExists, StepsOf, Proceed, Goto, RequestOK
      <4>2. ASSUME NEW outcome \in {"invalid", "missing", "failed"},
                   Finish(h, outcome, NoPartition),
                   UNCHANGED <<datasets, partitioning, mu, schemas, tables>>
            PROVE  TypeOK' /\ StepsOf'
        BY <3>2, <4>2 DEF Outcomes, MaybePartition
      <4> QED
        BY <3>9, <4>1, <4>2 DEF CreateTable, TableExists, duckdb
    <3>10. CASE TableColumns(h)
      <4>1. CASE Finish(h, "failed", NoPartition)
        BY <3>2, <3>10, <4>1 DEF TableColumns, Outcomes, MaybePartition, duckdb
      <4>2. CASE /\ req' = [req EXCEPT ![h].cols =
                               IF req[h].key \in tables THEN "some" ELSE "none"]
                 /\ Goto(h, "readPartitioning")
                 /\ Silent
                 /\ UNCHANGED history
        <5>1. req' \in [Handlers -> Request]
              /\ \A g \in Handlers : req'[g].op = req[g].op
          BY <2>0, <4>2 DEF RequestOK, Request, Columns
        <5>2. RequestOK'
          BY <2>0, <4>2, <5>1, RequestTyped DEF RequestOK, Goto, Silent, Steps
        <5>3. StepsOf'
          BY <2>0, <3>10, <4>2, <5>1 DEF TableColumns, StepsOf, Goto, RequestOK
        <5> QED
          BY <2>0, <2>2, <3>10, <4>2, <5>2, <5>3, ObserveTyped
          DEF TableColumns, TypeOK, RequestOK, duckdb, history
      <4> QED
        BY <3>10, <4>1, <4>2 DEF TableColumns
    <3>11. CASE ReadPartitioning(h)
      <4>1. partitioning[partitioningKey(req[h].key)] \in MaybePartition
        BY <2>0, KeyTyped DEF TypeOK
      <4> QED
        BY <3>2, <3>11, <4>1 DEF ReadPartitioning, Outcomes, duckdb
    <3> QED
      BY <2>2, <3>4, <3>5, <3>6, <3>7, <3>8, <3>9, <3>10, <3>11 DEF Serve
  <2>3. ASSUME NEW d \in Datasets, RawSchema(d), Observe PROVE TypeOK' /\ StepsOf'
    BY <2>0, <2>3, RequestTyped, ObserveTyped
    DEF RawSchema, TypeOK, StepsOf, Silent, TablesOf
  <2>4. ASSUME NEW k \in Keys, RawTable(k), Observe PROVE TypeOK' /\ StepsOf'
    BY <2>0, <2>4, RequestTyped, ObserveTyped
    DEF RawTable, TypeOK, StepsOf, Silent, history
  <2>5. CASE Restart /\ Observe
    <3>1. req' = [h \in Handlers |-> NoRequest] /\ pc' = [h \in Handlers |-> "idle"]
      BY <2>5 DEF Restart
    <3>2. StepsOf'
      BY <3>1 DEF StepsOf, NoRequest
    <3> QED
      BY <2>0, <2>5, <3>2, RequestTyped, ObserveTyped
      DEF Restart, TypeOK, Silent, Steps, MaybePartition, duckdb
  <2>6. CASE UNCHANGED vars
    BY <2>6 DEF vars, TypeOK, StepsOf, duckdb, history
  <2> QED
    BY <2>1, <2>2, <2>3, <2>4, <2>5, <2>6, Observing DEF Next
<1>3. QED
  BY <1>1, <1>2, PTL DEF Spec

-----------------------------------------------------------------------------
(* Datasets *)

\* Store.mu is held by a dataset operation between its lookup and its end, and by
\* nobody else, so what the lookup found still holds at the end.
Locked == \A h \in Handlers : pc[h] \in Holding <=> mu = h
LookedUp ==
    \A h \in Handlers :
        /\ pc[h] \in {"createSchema", "register"} => DatasetOf(h) \notin datasets
        /\ pc[h] \in {"dropSchema", "unregister"} => DatasetOf(h) \in datasets

\* The map and DuckDB agree but for the handler that has run its statement and has
\* not changed the map yet.
Doing(step) == {DatasetOf(h) : h \in {g \in Handlers : pc[g] = step}}
Agreeing ==
    \A d \in Datasets \ (foreign \cup survivors) :
        d \in schemas <=> d \in (datasets \ Doing("unregister")) \cup Doing("register")

\* Steps of a handler that have nothing to do with the agreement of the two stores.
OtherStep(h) ==
    \/ Arrivals(h) \/ ReadDataset(h) \/ SetPartitioning(h) \/ CreateTable(h)
    \/ TableExists(h) \/ TableColumns(h) \/ ReadPartitioning(h)
    \/ DropExists(h) \/ DropTable(h)

\* Such a step changes nothing the agreement is about.
LEMMA OtherSteps ==
  ASSUME TypeOK, NEW h \in Handlers, OtherStep(h)
  PROVE  /\ UNCHANGED <<datasets, mu, schemas, foreign, survivors>>
         /\ pc[h] \notin Holding /\ pc'[h] \notin Holding
         /\ \A g \in Handlers : g # h => pc'[g] = pc[g] /\ req'[g] = req[g]
<1>1. CASE Arrivals(h)
  BY <1>1 DEF Arrivals, StartDataset, StartCreateTable, StartGetTable, StartDeleteTable,
              Arrive, Goto, TypeOK, Holding, duckdb
<1>2. CASE ReadDataset(h) \/ DropExists(h) \/ DropTable(h)
  BY <1>2 DEF ReadDataset, DropExists, DropTable, Answer, AnswerWith, Proceed, Goto,
              TypeOK, Holding, duckdb, history
<1>3. CASE SetPartitioning(h)
  BY <1>3 DEF SetPartitioning, Proceed, Goto, TypeOK, Holding, duckdb, history
<1>4. CASE CreateTable(h) \/ TableExists(h) \/ TableColumns(h) \/ ReadPartitioning(h)
  BY <1>4 DEF CreateTable, TableExists, TableColumns, ReadPartitioning, Finish, Settle,
              AnswerWith, Proceed, Goto, TypeOK, Holding, duckdb, history
<1> QED
  BY <1>1, <1>2, <1>3, <1>4 DEF OtherStep

\* What the dataset operations' own steps do to their handler.
LEMMA DatasetSteps ==
  ASSUME TypeOK, NEW h \in Handlers,
         CheckNew(h) \/ CreateSchema(h) \/ Register(h) \/ CheckOld(h) \/ DropSchema(h)
         \/ Unregister(h)
  PROVE  /\ \A g \in Handlers : g # h => pc'[g] = pc[g] /\ req'[g] = req[g]
         /\ \/ pc'[h] = "idle"
            \/ /\ req'[h] = req[h]
               /\ \/ CheckNew(h) /\ pc'[h] = "createSchema"
                  \/ CreateSchema(h) /\ pc'[h] = "register"
                  \/ CheckOld(h) /\ pc'[h] = "dropSchema"
                  \/ DropSchema(h) /\ pc'[h] = "unregister"
BY DEF CheckNew, CreateSchema, Register, CheckOld, DropSchema, Unregister, AfterFailure,
       Answer, AnswerWith, Proceed, Goto, TypeOK

\* The lock, the lookup made under it and the agreement of the stores hold together.
LEMMA DatasetsInvariant == Spec => [](Locked /\ LookedUp /\ Agreeing)
<1>1. Init => Locked /\ LookedUp /\ Agreeing
  BY NoHandlerAssumption DEF Init, Locked, LookedUp, Agreeing, Doing, Holding
<1>2. TypeOK /\ Locked /\ LookedUp /\ Agreeing /\ [Next]_vars
      => Locked' /\ LookedUp' /\ Agreeing'
  <2> SUFFICES ASSUME TypeOK, Locked, LookedUp, Agreeing, [Next]_vars
               PROVE  Locked' /\ LookedUp' /\ Agreeing'
    OBVIOUS
  <2>0. \A h \in Handlers : DatasetOf(h) \in Datasets
    BY DEF TypeOK, Request, DatasetOf, Keys
  <2>1. ASSUME NEW h \in Handlers, OtherStep(h) PROVE Locked' /\ LookedUp' /\ Agreeing'
    <3>1. /\ UNCHANGED <<datasets, mu, schemas, foreign, survivors>>
          /\ pc[h] \notin Holding /\ pc'[h] \notin Holding
          /\ \A g \in Handlers : g # h => pc'[g] = pc[g] /\ req'[g] = req[g]
      BY <2>1, OtherSteps
    <3>2. Doing("register")' = Doing("register") /\ Doing("unregister")' = Doing("unregister")
      BY <3>1 DEF Doing, DatasetOf, Holding
    <3> QED
      BY <3>1, <3>2 DEF Locked, LookedUp, Agreeing, DatasetOf, Holding
  <2>2. ASSUME NEW h \in Handlers,
               CheckNew(h) \/ CreateSchema(h) \/ Register(h) \/ CheckOld(h)
               \/ DropSchema(h) \/ Unregister(h)
        PROVE  Locked' /\ LookedUp' /\ Agreeing'
    <3>1. /\ \A g \in Handlers : g # h => pc'[g] = pc[g] /\ req'[g] = req[g]
          /\ DatasetOf(h) \in Datasets
      BY <2>0, <2>2, DatasetSteps
    <3>2. \A g \in Handlers : g # h => pc[g] \notin Holding /\ pc'[g] \notin Holding
      BY <2>2, <3>1, NoHandlerAssumption
      DEF Locked, CheckNew, CreateSchema, Register, CheckOld, DropSchema, Unregister, Holding
    <3>3. \A step \in {"register", "unregister"} :
             Doing(step) = IF pc[h] = step THEN {DatasetOf(h)} ELSE {}
      BY <3>2 DEF Doing, Holding
    <3>4. Doing("register")' = IF pc'[h] = "register" THEN {DatasetOf(h)'} ELSE {}
      BY <3>2 DEF Doing, Holding
    <3>5. Doing("unregister")' = IF pc'[h] = "unregister" THEN {DatasetOf(h)'} ELSE {}
      BY <3>2 DEF Doing, Holding
    <3>6. CASE CheckNew(h) \/ CheckOld(h)
      <4>1. /\ UNCHANGED <<datasets, schemas, foreign, survivors>>
            /\ mu = NoHandler /\ pc[h] \in {"checkNew", "checkOld"}
            /\ \/ mu' = mu /\ pc'[h] = "idle"
               \/ /\ mu' = h /\ req' = req
                  /\ \/ pc'[h] = "createSchema" /\ DatasetOf(h) \notin datasets
                     \/ pc'[h] = "dropSchema" /\ DatasetOf(h) \in datasets
        BY <3>6 DEF CheckNew, CheckOld, LockForCall, Answer, AnswerWith, Proceed, Goto,
                    TypeOK, duckdb, history
      <4>2. Locked'
        BY <3>1, <3>2, <4>1, NoHandlerAssumption DEF Locked, Holding
      <4>3. LookedUp'
        BY <3>2, <4>1 DEF LookedUp, DatasetOf, Holding
      <4>4. Agreeing'
        BY <3>3, <3>4, <3>5, <4>1 DEF Agreeing
      <4> QED
        BY <4>2, <4>3, <4>4
    <3>7. CASE CreateSchema(h)
      <4>1. /\ datasets' = datasets /\ pc[h] = "createSchema" /\ mu = h
            /\ \/ /\ UNCHANGED <<schemas, foreign, survivors>>
                  /\ mu' = NoHandler /\ pc'[h] = "idle"
               \/ /\ mu' = mu /\ req' = req /\ pc'[h] = "register"
                  /\ schemas' = schemas \cup {DatasetOf(h)}
                  /\ foreign' = foreign \ {DatasetOf(h)}
                  /\ survivors' = survivors \ {DatasetOf(h)}
        BY <3>7 DEF CreateSchema, AfterFailure, Answer, AnswerWith, Proceed, Goto, TypeOK,
                    Locked, Holding
      <4>2. Locked'
        BY <3>1, <3>2, <4>1, NoHandlerAssumption DEF Locked, Holding
      <4>3. LookedUp'
        BY <3>2, <4>1 DEF LookedUp, DatasetOf, Holding
      <4>4. Agreeing'
        <5>1. CASE pc'[h] = "idle"
          BY <3>3, <3>4, <3>5, <4>1, <5>1 DEF Agreeing
        <5>2. CASE pc'[h] = "register"
          BY <3>3, <3>4, <3>5, <4>1, <5>2 DEF Agreeing, DatasetOf
        <5> QED
          BY <4>1, <5>1, <5>2
      <4> QED
        BY <4>2, <4>3, <4>4
    <3>8. CASE DropSchema(h)
      <4>1. /\ datasets' = datasets /\ pc[h] = "dropSchema" /\ mu = h
            /\ \/ /\ UNCHANGED <<schemas, foreign, survivors>>
                  /\ mu' = NoHandler /\ pc'[h] = "idle"
               \/ /\ mu' = mu /\ req' = req /\ pc'[h] = "unregister"
                  /\ schemas' = schemas \ {DatasetOf(h)}
                  /\ foreign' = foreign \ {DatasetOf(h)}
                  /\ survivors' = survivors \ {DatasetOf(h)}
        BY <3>8 DEF DropSchema, AfterFailure, Answer, AnswerWith, Proceed, Goto, TypeOK,
                    Locked, Holding, duckdb
      <4>2. Locked'
        BY <3>1, <3>2, <4>1, NoHandlerAssumption DEF Locked, Holding
      <4>3. LookedUp'
        BY <3>2, <4>1 DEF LookedUp, DatasetOf, Holding
      <4>4. Agreeing'
        <5>1. CASE pc'[h] = "idle"
          BY <3>3, <3>4, <3>5, <4>1, <5>1 DEF Agreeing
        <5>2. CASE pc'[h] = "unregister"
          BY <3>3, <3>4, <3>5, <4>1, <5>2 DEF Agreeing, DatasetOf
        <5> QED
          BY <4>1, <5>1, <5>2
      <4> QED
        BY <4>2, <4>3, <4>4
    <3>9. CASE Register(h) \/ Unregister(h)
      <4>1. /\ UNCHANGED <<schemas, foreign, survivors>>
            /\ mu = h /\ mu' = NoHandler /\ pc'[h] = "idle"
            /\ \/ pc[h] = "register" /\ datasets' = datasets \cup {DatasetOf(h)}
               \/ pc[h] = "unregister" /\ datasets' = datasets \ {DatasetOf(h)}
        BY <3>9 DEF Register, Unregister, Answer, AnswerWith, Goto, TypeOK, Locked,
                    Holding, duckdb, history
      <4>2. Locked'
        BY <3>1, <3>2, <4>1, NoHandlerAssumption DEF Locked, Holding
      <4>3. LookedUp'
        BY <3>2, <4>1 DEF LookedUp, Holding
      <4>4. Agreeing'
        BY <3>3, <3>4, <3>5, <4>1 DEF Agreeing
      <4> QED
        BY <4>2, <4>3, <4>4
    <3> QED
      BY <2>2, <3>6, <3>7, <3>8, <3>9
  <2>3. ASSUME NEW d \in Datasets, RawSchema(d) PROVE Locked' /\ LookedUp' /\ Agreeing'
    BY <2>3 DEF RawSchema, Locked, LookedUp, Agreeing, Doing, DatasetOf
  <2>4. ASSUME NEW k \in Keys, RawTable(k) PROVE Locked' /\ LookedUp' /\ Agreeing'
    BY <2>4 DEF RawTable, history, Locked, LookedUp, Agreeing, Doing, DatasetOf
  <2>5. CASE Restart
    BY <2>5, NoHandlerAssumption
    DEF Restart, duckdb, Locked, LookedUp, Agreeing, Doing, DatasetOf, Holding
  <2>6. CASE UNCHANGED vars
    BY <2>6 DEF vars, duckdb, history, Locked, LookedUp, Agreeing, Doing, DatasetOf
  <2> QED
    BY <2>1, <2>2, <2>3, <2>4, <2>5, <2>6 DEF Next, Serve, OtherStep
<1>3. QED
  BY <1>1, <1>2, TypeCorrect, PTL DEF Spec

\* The datasets of the API are the schemas of DuckDB whenever Store.mu is free.
THEOREM StoresAgreed == Spec => []StoresAgree
<1>1. TypeOK /\ Locked /\ Agreeing => StoresAgree
  BY NoHandlerAssumption DEF Locked, Agreeing, StoresAgree, Doing, Holding, TypeOK
<1> QED
  BY <1>1, TypeCorrect, DatasetsInvariant, PTL

\* What DatasetRegistry sees of the last step's answer.
DatasetAnswer ==
    IF reply.req.op \in {"createDataset", "deleteDataset", "getDataset"}
    THEN <<reply.req.op, reply.said, reply.req.key[1]>> ELSE <<"none">>

\* Every overlapping execution of the dataset calls is one of DatasetRegistry.
THEOREM RegistryImplemented == Spec => ImplementsRegistry
<1>1. Init => Registry!Init
  BY DEF Init, Registry!Init, NoReply, NoRequest, Registry!Nothing
<1>2. TypeOK /\ StepsOf /\ LookedUp /\ [Next]_vars => [Registry!Next]_(Registry!vars)
  <2> SUFFICES ASSUME TypeOK, StepsOf, LookedUp, [Next]_vars
               PROVE  Registry!Next \/ UNCHANGED Registry!vars
    OBVIOUS
  <2>0. /\ \A h \in Handlers : DatasetOf(h) \in Datasets
        /\ Silent => DatasetAnswer' = <<"none">>
    BY DEF TypeOK, Request, DatasetOf, Keys, Silent, NoReply, NoRequest, DatasetAnswer
  <2>1. ASSUME datasets' = datasets, DatasetAnswer' = <<"none">>
        PROVE  Registry!Next
    BY <2>1 DEF Registry!Next, Registry!Quiet, Registry!Nothing, DatasetAnswer
  <2>2. ASSUME NEW h \in Handlers, NEW outcome, Answer(h, outcome),
               req[h].op \in {"createDataset", "deleteDataset", "getDataset"}
        PROVE  DatasetAnswer' = <<req[h].op, outcome, DatasetOf(h)>>
    BY <2>2 DEF Answer, AnswerWith, DatasetOf, DatasetAnswer
  <2>3. ASSUME NEW h \in Handlers, CheckNew(h) \/ CreateSchema(h) \/ Register(h)
        PROVE  Registry!Next
    <3>1. /\ req[h].op = "createDataset"
          /\ \/ datasets' = datasets /\ Silent
             \/ /\ DatasetOf(h) \in datasets /\ datasets' = datasets
                /\ Answer(h, "conflict")
             \/ datasets' = datasets /\ Answer(h, "failed")
             \/ /\ DatasetOf(h) \notin datasets
                /\ datasets' = datasets \cup {DatasetOf(h)}
                /\ Answer(h, "ok")
      BY <2>3 DEF CheckNew, CreateSchema, Register, AfterFailure, Proceed, StepsOf,
                  LookedUp
    <3>2. ASSUME NEW outcome, Answer(h, outcome)
          PROVE  DatasetAnswer' = <<"createDataset", outcome, DatasetOf(h)>>
      BY <2>2, <3>1, <3>2
    <3> QED
      BY <2>0, <2>1, <3>1, <3>2
      DEF Registry!Next, Registry!Create, Registry!Fail, DatasetAnswer
  <2>4. ASSUME NEW h \in Handlers, CheckOld(h) \/ DropSchema(h) \/ Unregister(h)
        PROVE  Registry!Next
    <3>1. /\ req[h].op = "deleteDataset"
          /\ \/ datasets' = datasets /\ Silent
             \/ /\ DatasetOf(h) \notin datasets /\ datasets' = datasets
                /\ Answer(h, "missing")
             \/ datasets' = datasets /\ Answer(h, "failed")
             \/ /\ DatasetOf(h) \in datasets
                /\ datasets' = datasets \ {DatasetOf(h)}
                /\ Answer(h, "ok")
      BY <2>4 DEF CheckOld, DropSchema, Unregister, AfterFailure, Proceed, StepsOf,
                  LookedUp
    <3>2. ASSUME NEW outcome, Answer(h, outcome)
          PROVE  DatasetAnswer' = <<"deleteDataset", outcome, DatasetOf(h)>>
      BY <2>2, <3>1, <3>2
    <3> QED
      BY <2>0, <2>1, <3>1, <3>2
      DEF Registry!Next, Registry!Delete, Registry!Fail, DatasetAnswer
  <2>5. ASSUME NEW h \in Handlers, ReadDataset(h) PROVE Registry!Next
    <3>1. /\ req[h].op = "getDataset" /\ datasets' = datasets
          /\ Answer(h, IF DatasetOf(h) \in datasets THEN "ok" ELSE "missing")
      BY <2>5 DEF ReadDataset, StepsOf
    <3> QED
      BY <2>0, <2>2, <3>1 DEF Registry!Next, Registry!Get, DatasetAnswer
  <2>6. ASSUME NEW h \in Handlers, OtherStep(h), ~ ReadDataset(h) PROVE Registry!Next
    <3>1. datasets' = datasets
      BY <2>6, OtherSteps
    <3>2. \/ Silent
          \/ /\ reply'.req = req[h]
             /\ req[h].op \in {"createTable", "getTable", "deleteTable"}
      BY <2>6
      DEF OtherStep, Arrivals, StartDataset, StartCreateTable, StartGetTable,
          StartDeleteTable, Arrive, SetPartitioning, CreateTable, TableExists,
          TableColumns, ReadPartitioning, DropExists, DropTable, Finish, Answer,
          AnswerWith, Proceed, StepsOf
    <3> QED
      BY <2>0, <2>1, <3>1, <3>2 DEF DatasetAnswer
  <2>7. ASSUME (\E d \in Datasets : RawSchema(d)) \/ (\E k \in Keys : RawTable(k))
        PROVE  Registry!Next
    BY <2>0, <2>1, <2>7 DEF RawSchema, RawTable
  <2>8. CASE Restart
    BY <2>0, <2>8
    DEF Restart, Registry!Next, Registry!Forget, Registry!Nothing, DatasetAnswer
  <2>9. CASE UNCHANGED vars
    BY <2>9 DEF vars, Registry!vars
  <2> QED
    BY <2>3, <2>4, <2>5, <2>6, <2>7, <2>8, <2>9 DEF Next, Serve, OtherStep
<1> QED
  BY <1>1, <1>2, TypeCorrect, DatasetsInvariant, PTL
  DEF Spec, ImplementsRegistry, Registry!Spec

-----------------------------------------------------------------------------
(* Tables *)

Inserting(h, k) == req[h].op = "createTable" /\ req[h].key = k

\* Of a table whose key no other has, a settled declaration is the one stored, and nobody
\* is about to replace it; an insert that overlaps with no other of the table has stored
\* its own once it has taken the first step.
Settled ==
    \A k \in Keys :
        declared[k] # Unknown /\ Alone(k) =>
            /\ partitioning[partitioningKey(k)] = declared[k]
            /\ \A h \in Handlers : ~ Inserting(h, k)
Contested ==
    \A g, h \in Handlers : \A k \in Keys :
        g # h /\ Inserting(g, k) /\ Inserting(h, k) => k \in contested
Stored ==
    \A h \in Handlers : \A k \in Keys \ contested :
        Inserting(h, k) /\ pc[h] # "setPartitioning" /\ Alone(k) =>
            partitioning[partitioningKey(k)] = req[h].want

\* What a settled insert declared is stored, as long as inserts do not overlap.
LEMMA DeclarationInvariant == Spec => [](Settled /\ Contested /\ Stored)
<1>1. Init => Settled /\ Contested /\ Stored
  BY DEF Init, NoRequest, Settled, Contested, Stored, Inserting
<1>2. TypeOK /\ StepsOf /\ Settled /\ Contested /\ Stored /\ [Next]_vars
      => Settled' /\ Contested' /\ Stored'
  <2> SUFFICES ASSUME TypeOK, StepsOf, Settled, Contested, Stored, [Next]_vars
               PROVE  Settled' /\ Contested' /\ Stored'
    OBVIOUS
  <2>0. \A h \in Handlers : req[h].key \in Keys /\ req[h].want \in MaybePartition
    BY DEF TypeOK, Request
  <2>1. ASSUME UNCHANGED <<partitioning, declared, contested>>,
               \A h \in Handlers :
                  \/ req'[h].op # "createTable"
                  \/ /\ req'[h].op = req[h].op /\ req'[h].key = req[h].key
                     /\ req'[h].want = req[h].want
                     /\ pc[h] = "setPartitioning" => pc'[h] = "setPartitioning"
        PROVE  Settled' /\ Contested' /\ Stored'
    <3>1. \A h \in Handlers : \A k \in Keys :
             Inserting(h, k)' => /\ Inserting(h, k) /\ req'[h].want = req[h].want
                                 /\ pc[h] = "setPartitioning" => pc'[h] = "setPartitioning"
      BY <2>1 DEF Inserting
    <3> QED
      BY <2>1, <3>1 DEF Settled, Contested, Stored
  <2>2. ASSUME NEW h \in Handlers, NEW k \in Keys, NEW p \in MaybePartition,
               StartCreateTable(h, k, p)
        PROVE  Settled' /\ Contested' /\ Stored'
    <3>1. /\ partitioning' = partitioning /\ contested \subseteq contested'
          /\ declared' = [declared EXCEPT ![k] = Unknown]
          /\ pc'[h] = "setPartitioning"
          /\ \A j \in Keys : Inserting(h, j)' <=> j = k
          /\ \A g \in Handlers : g # h =>
                /\ pc'[g] = pc[g] /\ req'[g] = req[g]
                /\ Inserting(g, k) => k \in contested'
      BY <2>2 DEF StartCreateTable, Arrive, Goto, Rivals, Inserting, TypeOK
    <3>2. \A g \in Handlers : \A j \in Keys :
             g # h => (Inserting(g, j)' <=> Inserting(g, j))
      BY <3>1 DEF Inserting
    <3>3. Settled'
      BY <3>1, <3>2 DEF Settled, TypeOK
    <3>4. Contested' /\ Stored'
      BY <3>1, <3>2 DEF Contested, Stored
    <3> QED
      BY <3>3, <3>4
  <2>3. ASSUME NEW h \in Handlers, SetPartitioning(h)
        PROVE  Settled' /\ Contested' /\ Stored'
    <3>1. /\ req[h].op = "createTable" /\ pc[h] = "setPartitioning"
          /\ partitioning' = [partitioning EXCEPT ![partitioningKey(req[h].key)] = req[h].want]
          /\ UNCHANGED <<req, declared, contested>>
          /\ \A g \in Handlers : g # h => pc'[g] = pc[g]
      BY <2>3 DEF SetPartitioning, RecordPartitioning, StepsOf, Proceed, Goto, TypeOK,
                  history
    <3>2. \A g \in Handlers : \A k \in Keys : Inserting(g, k)' <=> Inserting(g, k)
      BY <3>1 DEF Inserting
    <3>3. \A k \in Keys : Alone(k) =>
             partitioning'[partitioningKey(k)] =
                IF k = req[h].key THEN req[h].want ELSE partitioning[partitioningKey(k)]
      BY <2>0, <3>1, KeyTyped DEF Alone, TypeOK
    <3>4. Settled' /\ Contested'
      BY <2>0, <3>1, <3>2, <3>3 DEF Settled, Contested, Inserting
    <3>5. Stored'
      BY <2>0, <3>1, <3>2, <3>3 DEF Stored, Contested, Inserting
    <3> QED
      BY <3>4, <3>5
  <2>4. ASSUME NEW h \in Handlers, NEW outcome, NEW part, Finish(h, outcome, part),
               pc[h] # "setPartitioning", partitioning' = partitioning
        PROVE  Settled' /\ Contested' /\ Stored'
    <3>1. /\ req'[h].op = "none"
          /\ \A g \in Handlers : g # h => pc'[g] = pc[g] /\ req'[g] = req[g]
      BY <2>4 DEF Finish, AnswerWith, Goto, NoRequest, TypeOK
    <3>2. CASE req[h].op # "createTable"
      BY <2>1, <2>4, <3>1, <3>2 DEF Finish, history
    <3>3. CASE req[h].op = "createTable"
      <4> DEFINE k == req[h].key
      <4>1. /\ k \in Keys /\ Inserting(h, k)
            /\ declared' = IF k \in contested THEN declared
                           ELSE [declared EXCEPT ![k] = req[h].want]
            /\ contested' = IF \A g \in Handlers \ {h} : ~ Inserting(g, k)
                            THEN contested \ {k} ELSE contested
        BY <2>0, <2>4, <3>3 DEF Finish, Settle, Rivals, Inserting
      <4>2. \A g \in Handlers : \A j \in Keys :
               Inserting(g, j)' <=> g # h /\ Inserting(g, j)
        BY <3>1 DEF Inserting
      <4>3. k \notin contested =>
               /\ Alone(k) => partitioning[partitioningKey(k)] = req[h].want
               /\ \A g \in Handlers \ {h} : ~ Inserting(g, k)
        BY <2>4, <4>1 DEF Stored, Contested
      <4>4. Settled'
        BY <2>4, <4>1, <4>2, <4>3 DEF Settled, TypeOK
      <4>5. Contested' /\ Stored'
        BY <2>4, <3>1, <4>1, <4>2 DEF Contested, Stored
      <4> QED
        BY <4>4, <4>5
    <3> QED
      BY <3>2, <3>3
  <2>5. ASSUME NEW h \in Handlers,
               CreateTable(h) \/ TableExists(h) \/ TableColumns(h) \/ ReadPartitioning(h)
        PROVE  Settled' /\ Contested' /\ Stored'
    <3>1. /\ pc[h] # "setPartitioning" /\ partitioning' = partitioning
          /\ \/ \E outcome, part : Finish(h, outcome, part)
             \/ UNCHANGED history /\ Proceed(h, "tableExists")
             \/ UNCHANGED history /\ Proceed(h, "tableColumns")
             \/ /\ UNCHANGED history /\ Goto(h, "readPartitioning")
                /\ \A g \in Handlers : /\ req'[g].op = req[g].op
                                       /\ req'[g].key = req[g].key
                                       /\ req'[g].want = req[g].want
      BY <2>5 DEF CreateTable, TableExists, TableColumns, ReadPartitioning, TypeOK, Request
    <3> QED
      BY <2>1, <2>4, <3>1 DEF Proceed, Goto, TypeOK, history
  <2>6. ASSUME NEW h \in Handlers,
               \/ \E k \in Keys : StartDataset(h, k) \/ StartGetTable(h, k)
                                 \/ StartDeleteTable(h, k)
               \/ CheckNew(h) \/ CreateSchema(h) \/ Register(h)
               \/ CheckOld(h) \/ DropSchema(h) \/ Unregister(h) \/ ReadDataset(h)
               \/ DropExists(h) \/ DropTable(h)
        PROVE  Settled' /\ Contested' /\ Stored'
    <3>1. /\ UNCHANGED <<partitioning, declared, contested>>
          /\ req'[h].op # "createTable"
          /\ \A g \in Handlers : g # h => pc'[g] = pc[g] /\ req'[g] = req[g]
      BY <2>6
      DEF StartDataset, StartGetTable, StartDeleteTable, Arrive, CheckNew, CreateSchema,
          Register, CheckOld, DropSchema, Unregister, ReadDataset, DropExists, DropTable,
          AfterFailure, Answer, AnswerWith, Proceed, Goto, NoRequest, StepsOf, TypeOK,
          history
    <3> QED
      BY <2>1, <3>1
  <2>7. ASSUME (\E d \in Datasets : RawSchema(d)) \/ (\E k \in Keys : RawTable(k))
               \/ UNCHANGED vars
        PROVE  Settled' /\ Contested' /\ Stored'
    BY <2>1, <2>7 DEF RawSchema, RawTable, vars, history
  <2>8. CASE Restart
    BY <2>8 DEF Restart, NoRequest, Settled, Contested, Stored, Inserting
  <2> QED
    BY <2>2, <2>3, <2>5, <2>6, <2>7, <2>8 DEF Next, Arrivals, Serve
<1>3. QED
  BY <1>1, <1>2, TypeCorrect, PTL DEF Spec

\* tables.get echoes what the last tables.insert of the table declared: the answer
\* reads the map once, and a settled declaration is what the map holds.
THEOREM PartitioningEchoes == Spec => []PartitioningEchoed
<1>1. Init => PartitioningEchoed
  BY DEF Init, NoReply, NoRequest, PartitioningEchoed
<1>2. TypeOK /\ StepsOf /\ Settled /\ PartitioningEchoed /\ [Next]_vars
      => PartitioningEchoed'
  <2> SUFFICES ASSUME TypeOK, StepsOf, Settled, PartitioningEchoed, [Next]_vars
               PROVE  PartitioningEchoed'
    OBVIOUS
  <2>1. CASE Silent
    BY <2>1 DEF Silent, NoReply, NoRequest, PartitioningEchoed
  <2>2. ASSUME NEW h \in Handlers, NEW outcome, NEW part, AnswerWith(h, outcome, part),
               outcome # "ok" \/ req[h].op # "getTable"
        PROVE  PartitioningEchoed'
    BY <2>2 DEF AnswerWith, PartitioningEchoed
  <2>3. ASSUME NEW h \in Handlers, ReadPartitioning(h) PROVE PartitioningEchoed'
    <3>1. CASE req[h].op = "getTable"
      <4>1. /\ req[h].key \in Keys /\ declared' = declared
            /\ reply'.req = req[h] /\ reply'.part = partitioning[partitioningKey(req[h].key)]
        BY <2>3, <3>1 DEF ReadPartitioning, Finish, AnswerWith, TypeOK, Request, history
      <4> QED
        BY <4>1 DEF Settled, PartitioningEchoed
    <3>2. CASE req[h].op # "getTable"
      BY <2>2, <2>3, <3>2 DEF ReadPartitioning, Finish
    <3> QED
      BY <3>1, <3>2
  <2>4. ASSUME NEW h \in Handlers, Arrivals(h) PROVE Silent
    BY <2>4 DEF Arrivals, StartDataset, StartCreateTable, StartGetTable, StartDeleteTable,
                Arrive
  <2>5. ASSUME NEW h \in Handlers, Serve(h), ~ ReadPartitioning(h)
        PROVE  \/ Silent
               \/ \E outcome, part : /\ AnswerWith(h, outcome, part)
                                     /\ outcome # "ok" \/ req[h].op # "getTable"
    <3>1. CASE CheckNew(h) \/ CreateSchema(h) \/ Register(h) \/ CheckOld(h)
               \/ DropSchema(h) \/ Unregister(h) \/ ReadDataset(h) \/ DropExists(h)
               \/ DropTable(h)
      <4>1. req[h].op # "getTable"
        BY <3>1 DEF CheckNew, CreateSchema, Register, CheckOld, DropSchema, Unregister,
                    ReadDataset, DropExists, DropTable, StepsOf
      <4>2. Silent \/ \E outcome : Answer(h, outcome)
        BY <3>1 DEF CheckNew, CreateSchema, Register, CheckOld, DropSchema, Unregister,
                    ReadDataset, DropExists, DropTable, AfterFailure, Proceed
      <4> QED
        BY <4>1, <4>2 DEF Answer
    <3>2. CASE SetPartitioning(h) \/ CreateTable(h) \/ TableExists(h) \/ TableColumns(h)
      <4>1. Silent \/ \E outcome \in {"invalid", "missing", "failed"} :
                         Finish(h, outcome, NoPartition)
        BY <3>2 DEF SetPartitioning, CreateTable, TableExists, TableColumns, Proceed
      <4> QED
        BY <4>1 DEF Finish
    <3> QED
      BY <2>5, <3>1, <3>2 DEF Serve
  <2>6. ASSUME (\E d \in Datasets : RawSchema(d)) \/ (\E k \in Keys : RawTable(k))
               \/ Restart
        PROVE  Silent
    BY <2>6 DEF RawSchema, RawTable, Restart
  <2>7. CASE UNCHANGED vars
    BY <2>7 DEF vars, history, PartitioningEchoed
  <2> QED
    BY <2>1, <2>2, <2>3, <2>4, <2>5, <2>6, <2>7 DEF Next
<1>3. QED
  BY <1>1, <1>2, TypeCorrect, DeclarationInvariant, PTL DEF Spec

\* As the comment says of any table (meta.go:209), if the names of datasets have no dots,
\* as those of BigQuery have none.
THEOREM UndottedEchoes ==
  ASSUME \A d \in Datasets : Len(d) = 1
  PROVE  Spec => []EveryTableEchoed
<1>1. TypeOK /\ PartitioningEchoed => EveryTableEchoed
  BY UndottedAlone DEF TypeOK, Reply, Request, PartitioningEchoed, EveryTableEchoed
<1> QED
  BY <1>1, TypeCorrect, PartitioningEchoes, PTL

\* What a table request has seen so far: the table as it is now; that it was there,
\* once TableExists or DeleteTable's look has found it; that it was gone, once
\* TableColumns has returned nothing.
TableOps == {"createTable", "getTable", "deleteTable"}
Found == {"tableColumns", "readPartitioning", "dropTable"}
Watching ==
    \A h \in Handlers :
        req[h].op \in TableOps =>
            /\ req[h].key \in tables => "there" \in saw[h]
            /\ req[h].key \notin tables => "gone" \in saw[h]
            /\ pc[h] \in Found => "there" \in saw[h]
            /\ req[h].cols = "none" => "gone" \in saw[h]

\* A step leaves a table request where it was, or moves it by what the table is now.
Moves(h) ==
    \/ /\ pc[h] = "idle" /\ pc'[h] \notin Found
       /\ req'[h].cols = "unread"
    \/ /\ pc[h] # "idle"
       /\ req'[h].op = req[h].op /\ req'[h].key = req[h].key
       /\ pc'[h] \in Found => pc[h] \in Found \/ req[h].key \in tables
       /\ req'[h].cols = "none" => req[h].cols = "none" \/ req[h].key \notin tables

\* Every step of every handler moves the table requests in one of these ways.
LEMMA TableMoves ==
  ASSUME TypeOK, StepsOf, Next
  PROVE  \A g \in Handlers : req'[g].op \in TableOps => Moves(g)
<1>1. ASSUME NEW g \in Handlers, pc'[g] = pc[g], req'[g] = req[g]
      PROVE  req'[g].op \in TableOps => Moves(g)
  BY <1>1 DEF StepsOf, Moves, TableOps
<1>2. ASSUME NEW h \in Handlers, Arrivals(h)
      PROVE  \A g \in Handlers : req'[g].op \in TableOps => Moves(g)
  <2>1. /\ pc[h] = "idle" /\ pc'[h] \notin Found /\ req'[h].cols = "unread"
        /\ \A g \in Handlers : g # h => pc'[g] = pc[g] /\ req'[g] = req[g]
    BY <1>2 DEF Arrivals, StartDataset, StartCreateTable, StartGetTable, StartDeleteTable,
                Arrive, Goto, Found, TypeOK
  <2> QED
    BY <1>1, <2>1 DEF Moves
<1>3. ASSUME NEW h \in Handlers, NEW outcome, NEW part, AnswerWith(h, outcome, part)
      PROVE  \A g \in Handlers : req'[g].op \in TableOps => Moves(g)
  <2>1. /\ req'[h].op \notin TableOps
        /\ \A g \in Handlers : g # h => pc'[g] = pc[g] /\ req'[g] = req[g]
    BY <1>3 DEF AnswerWith, Goto, NoRequest, TableOps, TypeOK
  <2> QED
    BY <1>1, <2>1
<1>4. ASSUME NEW h \in Handlers, NEW step, Proceed(h, step), pc[h] # "idle",
             step \in Found => pc[h] \in Found \/ req[h].key \in tables
      PROVE  \A g \in Handlers : req'[g].op \in TableOps => Moves(g)
  BY <1>1, <1>4 DEF Proceed, Goto, Moves, TypeOK
<1>5. ASSUME NEW h \in Handlers, Serve(h)
      PROVE  \A g \in Handlers : req'[g].op \in TableOps => Moves(g)
  <2>1. CASE CheckNew(h) \/ CreateSchema(h) \/ Register(h) \/ CheckOld(h)
             \/ DropSchema(h) \/ Unregister(h) \/ ReadDataset(h) \/ SetPartitioning(h)
    <3>1. /\ pc[h] # "idle"
          /\ \/ \E outcome : Answer(h, outcome)
             \/ \E step : step \notin Found /\ Proceed(h, step)
      BY <2>1 DEF CheckNew, CreateSchema, Register, CheckOld, DropSchema, Unregister,
                  ReadDataset, SetPartitioning, AfterFailure, Found
    <3> QED
      BY <1>3, <1>4, <3>1 DEF Answer
  <2>2. CASE CreateTable(h) \/ TableExists(h) \/ ReadPartitioning(h)
    <3>1. /\ pc[h] # "idle"
          /\ \/ \E outcome, part : Finish(h, outcome, part)
             \/ Proceed(h, "tableExists")
             \/ Proceed(h, "tableColumns") /\ req[h].key \in tables
      BY <2>2 DEF CreateTable, TableExists, ReadPartitioning
    <3>2. "tableExists" \notin Found
      BY DEF Found
    <3> QED
      BY <1>3, <1>4, <3>1, <3>2 DEF Finish
  <2>3. CASE TableColumns(h)
    <3>1. CASE Finish(h, "failed", NoPartition)
      BY <1>3, <3>1 DEF Finish
    <3>2. CASE /\ req' = [req EXCEPT ![h].cols =
                             IF req[h].key \in tables THEN "some" ELSE "none"]
               /\ Goto(h, "readPartitioning")
      <4>1. /\ req[h] \in Request
            /\ \A g \in Handlers : g # h => pc'[g] = pc[g] /\ req'[g] = req[g]
        BY <3>2 DEF Goto, TypeOK
      <4>2. /\ req'[h].op = req[h].op /\ req'[h].key = req[h].key
            /\ req'[h].cols = IF req[h].key \in tables THEN "some" ELSE "none"
        BY <3>2, <4>1 DEF TypeOK, Request
      <4>3. pc[h] = "tableColumns"
        BY <2>3 DEF TableColumns
      <4>4. Moves(h)
        BY <4>2, <4>3 DEF Moves, Found
      <4> QED
        BY <1>1, <4>1, <4>4
    <3> QED
      BY <2>3, <3>1, <3>2 DEF TableColumns
  <2>4. CASE DropExists(h) \/ DropTable(h)
    <3>1. /\ pc[h] # "idle"
          /\ \/ \E outcome : Answer(h, outcome)
             \/ Proceed(h, "dropTable") /\ req[h].key \in tables
      BY <2>4 DEF DropExists, DropTable, TableThere
    <3> QED
      BY <1>3, <1>4, <3>1 DEF Answer
  <2> QED
    BY <1>5, <2>1, <2>2, <2>3, <2>4 DEF Serve
<1>6. ASSUME (\E d \in Datasets : RawSchema(d)) \/ (\E k \in Keys : RawTable(k))
      PROVE  \A g \in Handlers : req'[g].op \in TableOps => Moves(g)
  BY <1>1, <1>6 DEF RawSchema, RawTable
<1>7. CASE Restart
  BY <1>7 DEF Restart, NoRequest, TableOps
<1> QED
  BY <1>2, <1>5, <1>6, <1>7 DEF Next

\* tables.get and tables.delete answer of a table as it was at some moment of the
\* request: what each section finds stays in what the request has seen.
THEOREM TableAnswers == Spec => []TableAnswersTrue
<1>1. Init => Watching /\ TableAnswersTrue
  BY DEF Init, NoReply, NoRequest, TableOps, Watching, TableAnswersTrue
<1>2. TypeOK /\ StepsOf /\ Watching /\ [Next]_vars => Watching'
  <2> SUFFICES ASSUME TypeOK, StepsOf, Watching, [Next]_vars PROVE Watching'
    OBVIOUS
  <2>1. CASE UNCHANGED vars
    BY <2>1 DEF vars, duckdb, Watching
  <2>2. CASE Next
    <3> SUFFICES ASSUME NEW h \in Handlers, req'[h].op \in TableOps
                 PROVE  /\ req'[h].key \in tables' => "there" \in saw'[h]
                        /\ req'[h].key \notin tables' => "gone" \in saw'[h]
                        /\ pc'[h] \in Found => "there" \in saw'[h]
                        /\ req'[h].cols = "none" => "gone" \in saw'[h]
      BY DEF Watching
    <3>1. Moves(h)
      BY <2>2, TableMoves
    <3>2. saw'[h] = (IF pc[h] = "idle" THEN {} ELSE saw[h])
                    \cup {IF req'[h].key \in tables' THEN "there" ELSE "gone"}
      BY <2>2, Observing DEF Observe, TableOps
    <3> QED
      BY <3>1, <3>2 DEF Moves, Watching
  <2> QED
    BY <2>1, <2>2
<1>3. TypeOK /\ StepsOf /\ Watching /\ TableAnswersTrue /\ [Next]_vars
      => TableAnswersTrue'
  <2> SUFFICES ASSUME TypeOK, StepsOf, Watching, TableAnswersTrue, [Next]_vars
               PROVE  TableAnswersTrue'
    OBVIOUS
  <2>1. CASE Silent
    BY <2>1 DEF Silent, NoReply, NoRequest, TableAnswersTrue
  <2>2. ASSUME NEW h \in Handlers, NEW outcome, NEW part, AnswerWith(h, outcome, part),
               \/ req[h].op \notin {"getTable", "deleteTable"}
               \/ outcome \notin {"ok", "missing"}
               \/ outcome = "missing" /\ req[h].key \notin tables
               \/ outcome = "ok" /\ pc[h] \in Found
        PROVE  TableAnswersTrue'
    BY <2>2 DEF AnswerWith, Watching, TableOps, TableAnswersTrue
  <2>3. ASSUME NEW h \in Handlers, Serve(h) PROVE TableAnswersTrue'
    <3>1. CASE CheckNew(h) \/ CreateSchema(h) \/ Register(h) \/ CheckOld(h)
               \/ DropSchema(h) \/ Unregister(h) \/ ReadDataset(h)
      <4>1. /\ req[h].op \notin {"getTable", "deleteTable"}
            /\ Silent \/ \E outcome : Answer(h, outcome)
        BY <3>1 DEF CheckNew, CreateSchema, Register, CheckOld, DropSchema, Unregister,
                    ReadDataset, AfterFailure, Proceed, StepsOf
      <4> QED
        BY <2>1, <2>2, <4>1 DEF Answer
    <3>2. CASE SetPartitioning(h) \/ CreateTable(h) \/ TableColumns(h)
      <4>1. Silent \/ \E outcome \in {"invalid", "failed"} : Finish(h, outcome, NoPartition)
        BY <3>2 DEF SetPartitioning, CreateTable, TableColumns, Proceed
      <4> QED
        BY <2>1, <2>2, <4>1 DEF Finish
    <3>3. CASE TableExists(h)
      <4>1. \/ Silent
            \/ \E outcome \in {"missing", "failed"} :
                  /\ Finish(h, outcome, NoPartition)
                  /\ outcome = "missing" => req[h].key \notin tables
        BY <3>3 DEF TableExists, Proceed
      <4> QED
        BY <2>1, <2>2, <4>1 DEF Finish
    <3>4. CASE ReadPartitioning(h)
      BY <2>2, <3>4 DEF ReadPartitioning, Finish, Found
    <3>5. CASE DropExists(h)
      <4>1. \/ Silent
            \/ \E outcome \in {"missing", "failed"} :
                  /\ Answer(h, outcome)
                  /\ outcome = "missing" => req[h].key \notin tables
        BY <3>5 DEF DropExists, TableThere, Proceed
      <4> QED
        BY <2>1, <2>2, <4>1 DEF Answer
    <3>6. CASE DropTable(h)
      <4>1. /\ pc[h] \in Found
            /\ \E outcome \in {"ok", "failed"} : Answer(h, outcome)
        BY <3>6 DEF DropTable, Found
      <4> QED
        BY <2>2, <4>1 DEF Answer
    <3> QED
      BY <2>3, <3>1, <3>2, <3>3, <3>4, <3>5, <3>6 DEF Serve
  <2>4. ASSUME \/ \E h \in Handlers : Arrivals(h)
               \/ \E d \in Datasets : RawSchema(d)
               \/ \E k \in Keys : RawTable(k)
               \/ Restart
        PROVE  Silent
    BY <2>4 DEF Arrivals, StartDataset, StartCreateTable, StartGetTable, StartDeleteTable,
                Arrive, RawSchema, RawTable, Restart
  <2>5. CASE UNCHANGED vars
    BY <2>5 DEF vars, TableAnswersTrue
  <2> QED
    BY <2>1, <2>3, <2>4, <2>5 DEF Next
<1>4. QED
  BY <1>1, <1>2, <1>3, TypeCorrect, PTL DEF Spec
============================================================================
