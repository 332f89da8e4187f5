------------------------------ MODULE Catalog ------------------------------
(***************************************************************************)
(* Datasets and tables of the localbq server: the REST handlers of         *)
(* internal/api for them, the two maps of internal/meta's Store that hold  *)
(* what DuckDB does not, and DuckDB's own schemas and tables.              *)
(*                                                                         *)
(* Store.mu guards the maps, Engine.mu one statement at a time.  The       *)
(* dataset operations hold Store.mu across their statement; the table      *)
(* operations take the two locks in separate sections.  A step is one such *)
(* section; raw SQL sent to jobs.query runs between any two of them.       *)
(*                                                                         *)
(* A statement that fails (a cancelled context, an error of DuckDB) leaves *)
(* DuckDB as it was: each statement is a transaction of its own.           *)
(***************************************************************************)
EXTENDS Naturals, Sequences

CONSTANTS
    Handlers,       \* requests the server can be serving at one time
    NoHandler,      \* the holder of Store.mu when nobody writes
    Labels,         \* what a name has between its dots, which may be nothing
    Datasets,       \* names: "a.b" is <<a, b>>
    TableIds,
    Partitions,     \* the values of timePartitioning in a tables.insert
    NoPartition,    \* no timePartitioning: a nil pointer
    Unknown         \* history: no insert alone decided the partitioning

ASSUME NoHandlerAssumption == NoHandler \notin Handlers
ASSUME PartitionsAssumption == NoPartition \notin Partitions
ASSUME UnknownAssumption == Unknown \notin Partitions \cup {NoPartition}
ASSUME DatasetsAssumption == Datasets # {} /\ TableIds # {}
ASSUME NamesAssumption == Datasets \cup TableIds \subseteq Seq(Labels) \ {<<>>}

Keys == Datasets \X TableIds

\* The two names joined by a dot: two tables may have one key.
partitioningKey(k) == k[1] \o k[2]
PartitioningKeys == {partitioningKey(k) : k \in Keys}
MaybePartition == Partitions \cup {NoPartition}

VARIABLES
    \* Memory of the server process.
    datasets,       \* Store.datasets: its keys
    partitioning,   \* Store.partitioning, by partitioningKey: NoPartition for no entry
    mu,             \* the handler that holds Store.mu across steps
    \* The DuckDB file.
    schemas,
    tables,         \* <<dataset, table>> pairs
    \* One request per handler.
    pc,             \* the handler's next step
    req,            \* the request, and what the handler has read for it
    \* History.
    reply,          \* what the last step told a client
    saw,            \* was the request's table there, at each moment of the request?
    declared,       \* the partitioning the last tables.insert of a key declared
    contested,      \* keys that overlapping tables.inserts are about
    foreign,        \* datasets raw SQL made or dropped after the API last did
    survivors       \* schemas an earlier process left and this one has not made

duckdb == <<schemas, tables>>
history == <<declared, contested, foreign, survivors>>
vars == <<datasets, partitioning, mu, duckdb, pc, req, reply, saw, history>>

Ops == {"none", "createDataset", "deleteDataset", "getDataset",
        "createTable", "getTable", "deleteTable"}
Outcomes == {"nothing", "ok", "conflict", "missing", "invalid", "failed"}
Steps == {"idle", "checkNew", "createSchema", "register",
          "checkOld", "dropSchema", "unregister", "readDataset",
          "setPartitioning", "createTable", "tableExists", "tableColumns",
          "readPartitioning", "dropExists", "dropTable"}
\* The steps of CreateDataset and DeleteDataset that hold Store.mu.
Holding == {"createSchema", "register", "dropSchema", "unregister"}

\* want: the timePartitioning of an insert.  cols: what TableColumns returned.
Columns == {"unread", "some", "none"}
Request == [op : Ops, key : Keys, want : MaybePartition, cols : Columns]
SomeKey == CHOOSE k \in Keys : TRUE
NoRequest == [op |-> "none", key |-> SomeKey, want |-> NoPartition, cols |-> "unread"]

\* Is a table there?
Presence == {"there", "gone"}
Reply == [req : Request, said : Outcomes, part : MaybePartition, saw : SUBSET Presence]
NoReply == [req |-> NoRequest, said |-> "nothing", part |-> NoPartition, saw |-> {}]

TypeOK ==
    /\ datasets \in SUBSET Datasets
    /\ partitioning \in [PartitioningKeys -> MaybePartition]
    /\ mu \in Handlers \cup {NoHandler}
    /\ schemas \in SUBSET Datasets
    /\ tables \in SUBSET Keys
    /\ pc \in [Handlers -> Steps]
    /\ req \in [Handlers -> Request]
    /\ reply \in Reply
    /\ saw \in [Handlers -> SUBSET Presence]
    /\ declared \in [Keys -> MaybePartition \cup {Unknown}]
    /\ contested \in SUBSET Keys
    /\ foreign \in SUBSET Datasets
    /\ survivors \in SUBSET Datasets

Init ==
    /\ datasets = {}
    /\ partitioning = [k \in PartitioningKeys |-> NoPartition]
    /\ mu = NoHandler
    /\ schemas = {}
    /\ tables = {}
    /\ pc = [h \in Handlers |-> "idle"]
    /\ req = [h \in Handlers |-> NoRequest]
    /\ reply = NoReply
    /\ saw = [h \in Handlers |-> {}]
    /\ declared = [k \in Keys |-> Unknown]
    /\ contested = {}
    /\ foreign = {}
    /\ survivors = {}

-----------------------------------------------------------------------------
(* Helpers *)

Goto(h, step) == pc' = [pc EXCEPT ![h] = step]

\* History: each request for a table watches, step by step, whether it is there.
Observe ==
    saw' = [h \in Handlers |->
        IF req'[h].op \in {"createTable", "getTable", "deleteTable"}
        THEN (IF pc[h] = "idle" THEN {} ELSE saw[h])
             \cup {IF req'[h].key \in tables' THEN "there" ELSE "gone"}
        ELSE {}]

\* This step tells no client anything.
Silent == reply' = NoReply

Proceed(h, step) == Goto(h, step) /\ Silent /\ UNCHANGED req

\* The request of handler h is answered, with the partitioning it read; h is free.
AnswerWith(h, outcome, part) ==
    /\ Goto(h, "idle")
    /\ reply' = [req |-> req[h], said |-> outcome, part |-> part, saw |-> saw[h]]
    /\ req' = [req EXCEPT ![h] = NoRequest]
Answer(h, outcome) == AnswerWith(h, outcome, NoPartition)

\* A request for operation o arrives and starts at step.
Arrive(h, o, k, p, step) ==
    /\ pc[h] = "idle"
    /\ Goto(h, step)
    /\ req' = [req EXCEPT ![h] = [op |-> o, key |-> k, want |-> p, cols |-> "unread"]]
    /\ Silent
    /\ UNCHANGED <<datasets, partitioning, mu, duckdb, foreign, survivors>>
    /\ Observe

DatasetOf(h) == req[h].key[1]
TablesOf(d) == {k \in tables : k[1] = d}

\* Handlers other than h that serve a tables.insert of key k.
Rivals(h, k) == {g \in Handlers \ {h} : req[g].op = "createTable" /\ req[g].key = k}

-----------------------------------------------------------------------------
(* datasets.insert, datasets.delete, datasets.get *)

\* (The table in the key of these requests means nothing.)
StartDataset(h, k) ==
    /\ \/ Arrive(h, "createDataset", k, NoPartition, "checkNew")
       \/ Arrive(h, "deleteDataset", k, NoPartition, "checkOld")
       \/ Arrive(h, "getDataset", k, NoPartition, "readDataset")
    /\ UNCHANGED <<declared, contested>>

\* CreateDataset takes Store.mu and looks the dataset up.  Mutant: Store.mu is
\* not held while the statement runs.
LockForCheck(h) == UNCHANGED mu
LockForCall(h) == mu' = h
CheckNew(h) ==
    /\ pc[h] = "checkNew"
    /\ mu = NoHandler
    /\ \/ DatasetOf(h) \in datasets /\ Answer(h, "conflict") /\ UNCHANGED mu
       \/ DatasetOf(h) \notin datasets /\ Proceed(h, "createSchema") /\ LockForCall(h)
    /\ UNCHANGED <<datasets, partitioning, duckdb, history>>
    /\ Observe

\* What follows a statement of a dataset operation that failed: Store.mu is released
\* and the error returned.  Mutants: Store.mu is kept; the map is changed all the same.
KeepMuAfterFailure(h, step) == Answer(h, "failed") /\ UNCHANGED mu
GoOnAfterFailure(h, step) == Proceed(h, step) /\ UNCHANGED mu
AfterFailure(h, step) == Answer(h, "failed") /\ mu' = NoHandler

\* CREATE SCHEMA IF NOT EXISTS, under Engine.mu.
CreateSchema(h) ==
    /\ pc[h] = "createSchema"
    /\ \/ /\ schemas' = schemas \cup {DatasetOf(h)}
          /\ foreign' = foreign \ {DatasetOf(h)}
          /\ survivors' = survivors \ {DatasetOf(h)}
          /\ Proceed(h, "register")
          /\ UNCHANGED mu
       \/ AfterFailure(h, "register") /\ UNCHANGED <<schemas, foreign, survivors>>
    /\ UNCHANGED <<datasets, partitioning, tables, declared, contested>>
    /\ Observe

\* The map entry is made and Store.mu released.
Register(h) ==
    /\ pc[h] = "register"
    /\ datasets' = datasets \cup {DatasetOf(h)}
    /\ mu' = NoHandler
    /\ Answer(h, "ok")
    /\ UNCHANGED <<partitioning, duckdb, history>>
    /\ Observe

\* DeleteDataset takes Store.mu and looks the dataset up.
CheckOld(h) ==
    /\ pc[h] = "checkOld"
    /\ mu = NoHandler
    /\ \/ DatasetOf(h) \notin datasets /\ Answer(h, "missing") /\ UNCHANGED mu
       \/ DatasetOf(h) \in datasets /\ Proceed(h, "dropSchema") /\ mu' = h
    /\ UNCHANGED <<datasets, partitioning, duckdb, history>>
    /\ Observe

\* DROP SCHEMA IF EXISTS, with CASCADE if deleteContents is given; without it the
\* statement fails on a schema that has tables.
DropSchema(h) ==
    LET d == DatasetOf(h)
    IN  /\ pc[h] = "dropSchema"
        /\ \/ /\ \E deleteContents \in BOOLEAN : deleteContents \/ TablesOf(d) = {}
              /\ schemas' = schemas \ {d}
              /\ tables' = tables \ TablesOf(d)
              /\ foreign' = foreign \ {d}
              /\ survivors' = survivors \ {d}
              /\ Proceed(h, "unregister")
              /\ UNCHANGED mu
           \/ AfterFailure(h, "unregister") /\ UNCHANGED <<duckdb, foreign, survivors>>
        /\ UNCHANGED <<datasets, partitioning, declared, contested>>
        /\ Observe

\* The map entry is removed and Store.mu released; the partitioning of the dropped
\* tables stays.
Unregister(h) ==
    /\ pc[h] = "unregister"
    /\ datasets' = datasets \ {DatasetOf(h)}
    /\ mu' = NoHandler
    /\ Answer(h, "ok")
    /\ UNCHANGED <<partitioning, duckdb, history>>
    /\ Observe

ReadDataset(h) ==
    /\ pc[h] = "readDataset"
    /\ mu = NoHandler
    /\ Answer(h, IF DatasetOf(h) \in datasets THEN "ok" ELSE "missing")
    /\ UNCHANGED <<datasets, partitioning, mu, duckdb, history>>
    /\ Observe

-----------------------------------------------------------------------------
(* tables.insert, tables.get, tables.delete *)

\* A tables.insert arrives.  History: what it declares for the key is settled when
\* it is answered, unless another insert of the key overlaps with it.
StartCreateTable(h, k, p) ==
    /\ Arrive(h, "createTable", k, p, "setPartitioning")
    /\ declared' = [declared EXCEPT ![k] = Unknown]
    /\ contested' = IF Rivals(h, k) = {} THEN contested ELSE contested \cup {k}
Settle(h) ==
    LET k == req[h].key
    IN  /\ declared' = IF k \in contested THEN declared
                       ELSE [declared EXCEPT ![k] = req[h].want]
        /\ contested' = IF Rivals(h, k) = {} THEN contested \ {k} ELSE contested
        /\ UNCHANGED <<foreign, survivors>>

\* A table operation is answered.
Finish(h, outcome, part) ==
    /\ AnswerWith(h, outcome, part)
    /\ IF req[h].op = "createTable" THEN Settle(h) ELSE UNCHANGED history

\* SetTablePartitioning, before the table is created; a nil clears the entry.
\* Mutants: the two parts of the key swapped; a nil leaves the entry.
RecordSwapped(h) ==
    LET swapped == req[h].key[2] \o req[h].key[1]
    IN  partitioning' = [k \in DOMAIN partitioning \cup {swapped} |->
                            IF k = swapped THEN req[h].want ELSE partitioning[k]]
RecordUnlessNil(h) ==
    partitioning' = IF req[h].want = NoPartition THEN partitioning
                    ELSE [partitioning EXCEPT ![partitioningKey(req[h].key)] = req[h].want]
RecordPartitioning(h) ==
    partitioning' = [partitioning EXCEPT ![partitioningKey(req[h].key)] = req[h].want]
SetPartitioning(h) ==
    /\ pc[h] = "setPartitioning"
    /\ mu = NoHandler
    /\ RecordPartitioning(h)
    /\ Proceed(h, "createTable")
    /\ UNCHANGED <<datasets, mu, duckdb, history>>
    /\ Observe

\* CREATE TABLE: it fails on a table that exists, or whose schema does not.
CreateTable(h) ==
    LET k == req[h].key
    IN  /\ pc[h] = "createTable"
        /\ \/ /\ k[1] \in schemas
              /\ k \notin tables
              /\ tables' = tables \cup {k}
              /\ Proceed(h, "tableExists")
              /\ UNCHANGED history
           \/ Finish(h, "invalid", NoPartition) /\ UNCHANGED tables
        /\ UNCHANGED <<datasets, partitioning, mu, schemas>>
        /\ Observe

StartGetTable(h, k) ==
    /\ Arrive(h, "getTable", k, NoPartition, "tableExists")
    /\ UNCHANGED <<declared, contested>>

\* GetTable's three sections, for tables.get and at the end of tables.insert.  A
\* missing table is a 404 to the one and a 500 to the other.
TableExists(h) ==
    /\ pc[h] = "tableExists"
    /\ \/ /\ req[h].key \in tables
          /\ Proceed(h, "tableColumns")
          /\ UNCHANGED history
       \/ /\ req[h].key \notin tables
          /\ Finish(h, IF req[h].op = "getTable" THEN "missing" ELSE "failed", NoPartition)
       \/ Finish(h, "failed", NoPartition)
    /\ UNCHANGED <<datasets, partitioning, mu, duckdb>>
    /\ Observe

\* The columns of a table that has gone meanwhile are none.
TableColumns(h) ==
    /\ pc[h] = "tableColumns"
    /\ \/ /\ req' = [req EXCEPT ![h].cols = IF req[h].key \in tables THEN "some" ELSE "none"]
          /\ Goto(h, "readPartitioning")
          /\ Silent
          /\ UNCHANGED history
       \/ Finish(h, "failed", NoPartition)
    /\ UNCHANGED <<datasets, partitioning, mu, duckdb>>
    /\ Observe

ReadPartitioning(h) ==
    /\ pc[h] = "readPartitioning"
    /\ mu = NoHandler
    /\ Finish(h, "ok", partitioning[partitioningKey(req[h].key)])
    /\ UNCHANGED <<datasets, partitioning, mu, duckdb>>
    /\ Observe

StartDeleteTable(h, k) ==
    /\ Arrive(h, "deleteTable", k, NoPartition, "dropExists")
    /\ UNCHANGED <<declared, contested>>

\* DeleteTable looks first.  Mutant: it relies on DROP TABLE IF EXISTS.
AnyTable(h) == TRUE
TableThere(h) == req[h].key \in tables
DropExists(h) ==
    /\ pc[h] = "dropExists"
    /\ \/ TableThere(h) /\ Proceed(h, "dropTable")
       \/ ~ TableThere(h) /\ Answer(h, "missing")
       \/ Answer(h, "failed")
    /\ UNCHANGED <<datasets, partitioning, mu, duckdb, history>>
    /\ Observe

\* DROP TABLE IF EXISTS; the partitioning of the table stays.
DropTable(h) ==
    /\ pc[h] = "dropTable"
    /\ \/ tables' = tables \ {req[h].key} /\ Answer(h, "ok")
       \/ Answer(h, "failed") /\ UNCHANGED tables
    /\ UNCHANGED <<datasets, partitioning, mu, schemas, history>>
    /\ Observe

-----------------------------------------------------------------------------
(* The environment *)

\* A jobs.query, or "localbq load" between two processes, changes DuckDB alone.
RawSchema(d) ==
    /\ \/ schemas' = schemas \cup {d} /\ UNCHANGED tables
       \/ schemas' = schemas \ {d} /\ tables' = tables \ TablesOf(d)
    /\ foreign' = foreign \cup {d}
    /\ Silent
    /\ UNCHANGED <<datasets, partitioning, mu, pc, req, declared, contested, survivors>>
    /\ Observe
RawTable(k) ==
    /\ \/ k[1] \in schemas /\ tables' = tables \cup {k}
       \/ tables' = tables \ {k}
    /\ Silent
    /\ UNCHANGED <<datasets, partitioning, mu, schemas, pc, req, history>>
    /\ Observe

\* The process stops, at any point, and a new one opens the same file.
Restart ==
    /\ datasets' = {}
    /\ partitioning' = [k \in PartitioningKeys |-> NoPartition]
    /\ mu' = NoHandler
    /\ pc' = [h \in Handlers |-> "idle"]
    /\ req' = [h \in Handlers |-> NoRequest]
    /\ declared' = [k \in Keys |-> Unknown]
    /\ contested' = {}
    /\ survivors' = schemas
    /\ Silent
    /\ UNCHANGED <<duckdb, foreign>>
    /\ Observe

Arrivals(h) ==
    \E k \in Keys :
        \/ StartDataset(h, k)
        \/ \E p \in MaybePartition : StartCreateTable(h, k, p)
        \/ StartGetTable(h, k)
        \/ StartDeleteTable(h, k)

\* A step of the request h is serving.
Serve(h) ==
    \/ CheckNew(h) \/ CreateSchema(h) \/ Register(h)
    \/ CheckOld(h) \/ DropSchema(h) \/ Unregister(h) \/ ReadDataset(h)
    \/ SetPartitioning(h) \/ CreateTable(h)
    \/ TableExists(h) \/ TableColumns(h) \/ ReadPartitioning(h)
    \/ DropExists(h) \/ DropTable(h)

Next ==
    \/ \E h \in Handlers : Arrivals(h) \/ Serve(h)
    \/ \E d \in Datasets : RawSchema(d)
    \/ \E k \in Keys : RawTable(k)
    \/ Restart

Spec == Init /\ [][Next]_vars

\* Statements of DuckDB end, and Go's RWMutex lets every waiter in, readers and
\* writers alike, however often others take it.
FairSpec == Spec /\ \A h \in Handlers : SF_vars(Serve(h))
-----------------------------------------------------------------------------
(* Properties *)

\* While no dataset operation is under way, the datasets of the API are the schemas
\* of DuckDB, but for those raw SQL has changed or a restart has left behind: no
\* failed statement and no overlapping call leaves one without the other.
StoresAgree ==
    mu = NoHandler =>
        \A d \in Datasets \ (foreign \cup survivors) : d \in datasets <=> d \in schemas

\* A tables.get that is answered tells of a table that was there while it was served,
\* a 404 of one that was not; without columns it is told of only if it went meanwhile.
\* A tables.delete answers "deleted" or 404 likewise.
TableAnswersTrue ==
    reply.req.op \in {"getTable", "deleteTable"} =>
        /\ reply.said = "ok" => "there" \in reply.saw
        /\ reply.said = "missing" => "gone" \in reply.saw
        /\ reply.said = "ok" /\ reply.req.op = "getTable" /\ reply.req.cols = "none"
              => "gone" \in reply.saw

\* tables.get echoes the timePartitioning that the last tables.insert of the table
\* declared, even one that was refused because the table exists (server.go:609-616),
\* provided that inserts of the table did not overlap, and that no other table has its
\* key (as none has if the names of datasets have no dots).
Alone(k) == \A j \in Keys : partitioningKey(j) = partitioningKey(k) => j = k
PartitioningEchoed ==
    LET k == reply.req.key
    IN  /\ reply.req.op = "getTable"
        /\ reply.said = "ok"
        /\ declared[k] # Unknown
        /\ Alone(k)
        => reply.part = declared[k]

\* meta.go:209: "SetTablePartitioning records the TimePartitioning a Tables.insert call
\* declared for one table, so a later GetTable echoes it back": for any table.
EveryTableEchoed ==
    LET k == reply.req.key
    IN  reply.req.op = "getTable" /\ reply.said = "ok" /\ declared[k] # Unknown =>
            reply.part = declared[k]

Registry == INSTANCE DatasetRegistry WITH
    present <- datasets,
    answer <- IF reply.req.op \in {"createDataset", "deleteDataset", "getDataset"}
              THEN <<reply.req.op, reply.said, reply.req.key[1]>> ELSE <<"none">>

\* Overlapping dataset calls are answered as if each took effect at one moment.
ImplementsRegistry == Registry!Spec

\* Every request is answered, unless the process stops.
RequestsAnswered ==
    \A h \in Handlers : pc[h] # "idle" ~> pc[h] = "idle"

\* README.md:115: "Data persists across restarts": a dataset the API made, and nothing
\* removed, is one of the API's datasets.
DatasetsPersist ==
    mu = NoHandler => \A d \in schemas \ foreign : d \in datasets
=============================================================================
