# localbq in TLA+

localbq is one Go program: a BigQuery emulator that serves the BigQuery REST API from a DuckDB
file. This directory holds TLA+ models of the parts of it where order matters, the instances
TLC checks, and proofs checked by TLAPS. Source paths are relative to `src/`.

`PROJECT.json` lists, for every definition, the lines it models (`map`), and for every property
a change of the model that breaks it (`mutants`: a lost lock, a swapped order, a missing check).
The mutated forms stand in the modules just before the definition they replace, marked "Mutant".

## 1. The system

| Component | Source | State | Operations |
|---|---|---|---|
| Query jobs | `internal/api/server.go`, `internal/meta/meta.go` | `Store.jobs` (id → `*Job`), `jobCounter` | jobs.query, jobs.insert, jobs.getQueryResults, jobs.get, jobs.list, jobs.cancel |
| Catalog | the same files, `internal/engine/engine.go` | `Store.datasets`, `Store.partitioning`; DuckDB's schemas and tables | insert, get, list and delete of datasets and tables; tabledata.list |
| INFORMATION_SCHEMA | `internal/meta/info_schema.go` | the DuckDB table `_bq_meta.jobs` and views | InitInfoSchema, RecordJob, ClassifyStatement |
| Engine | `internal/engine/engine.go` | one DuckDB connection, `Engine.mu` | Query, Exec, DryRun, schema and table helpers |
| Lowering | `internal/lowering/lowering.go` | none | an ordered list of rewrites from GoogleSQL to DuckDB SQL |
| Daemon | `cmd/localbq/daemon.go` | the file `localbq.pid` | `up -d`, `stop`, `status` |
| Server process | `cmd/localbq/main.go` | the open database, the listener | start-up, signals, shutdown |
| Load | `cmd/localbq/load.go` | the DuckDB file | `load` of Parquet, CSV and JSON files |
| GoogleSQL sidecar | `internal/googlesql/sidecar.go` | child process, port, connection | Start, Conn, Stop, Port |
| Analyzer | `internal/googlesql/analyzer.go` | none | runs a binary once per call |
| googlesql_server | `sidecar/googlesql_server.cc` | a listening port | starts, prints its port, ends on a signal |
| Discovery, stubs, generated code | `internal/api/discovery.go`, `internal/dryrun`, ..., `internal/googlesql/pb` | none | constants, empty packages, and about 138,000 lines made by protoc |

**How they interact.** `net/http` runs each request in a goroutine. A handler calls the `Store`
and the `Engine`. `Store.mu` (an RWMutex) guards the store's maps, `Engine.mu` lets one
statement at a time through to DuckDB, `jobMu` guards the job counter. The locks are taken in
separate sections, except that `CreateDataset` and `DeleteDataset` hold `Store.mu` across their
statement. `GetJob` returns a pointer into the map, and its caller reads the fields after the
lock is gone. What the maps hold dies with the process; what DuckDB holds does not. The
commands `stop`, `status` and `up -d` know a server only by its PID file, and the operating
system may give a pid out again.

**What is hard.**

* Jobs: a retried insert races the first call; `CompleteJob` finds its job by id and may find
  another request's object; unlocked reads race its two writes; a client goes away before the
  query or before the row; the counter starts again at every start of the process.
* Catalog: two stores that must agree although no transaction spans them; a table operation of
  three sections while others create and drop the table; raw SQL that goes past the maps.
* Daemon: reading, probing and removing the PID file are three steps; a server can die between
  any two; the writer can be interrupted halfway.
* Sidecar: a start-up timeout, a health check and a child that dies race each other.
* Load and dry runs: a load is six calls of the engine with no transaction around them; a dry run
  hands DuckDB the client's text twice, changed only at its two ends.
* Lowering: each rewrite sees what those before it have made, and its pattern reaches only so far.

**What correctness means.**

* Jobs: one query per id, as far as the code promises; stored outcomes and answers that are true
  of the job they name; no job left RUNNING; no request left waiting.
* Catalog: dataset calls are linearizable; the API's datasets are DuckDB's schemas; an answer
  about a table was true at some moment of the request; timePartitioning is echoed.
* Daemon: no background server is lost to `stop` and `status`.
* Sidecar: no child is lost or left behind; callers see one child or none, and are told the truth.
* Load: one that reports success has added its file once; what it looked up stays true.
* Dry runs: which texts are safe to dry-run; what an answer says of what ran.
* Lowering: within the reach of the patterns no GoogleSQL call is left.

The hazards, each at its line and with the properties that watch it, are in `PROJECT.json`.

## 2. Modules

| Module | What it is |
|---|---|
| `JobLedger` | abstract: an id names at most one query per process, which ends once |
| `Jobs` | handlers, job map, and rows of query jobs; implements `JobLedger` for clients that wait before they retry |
| `Jobs_proofs` | theorems about `Jobs` |
| `JobsSerial_proofs` | theorems about `Jobs` with clients that wait, the refinement of `JobLedger` among them |
| `DatasetRegistry` | abstract: every dataset call takes effect at one moment |
| `Catalog` | datasets, tables and partitioning over DuckDB; implements `DatasetRegistry` |
| `Catalog_proofs` | theorems about `Catalog`, the refinement among them |
| `Daemon` | the PID file protocol between commands and servers |
| `Daemon_proofs` | theorems about `Daemon` |
| `SidecarService` | abstract: at every moment callers see one child or none, and answers are true of it |
| `Sidecar` | the manager of the googlesql child process; implements `SidecarService` |
| `Sidecar_proofs` | theorems about `Sidecar`, the refinement among them |
| `Lowering` | the rewrites of calls and of LOAD DATA, as functions of texts |
| `Lowering_proofs` | lemmas about each rewrite, and what `Lower` leaves |
| `Ingest` | loads, servers, and requests whose SQL is run or dry-run; extends `Lowering` |
| `Ingest_proofs` | theorems about `Ingest` |
| `JobsMC`, `CatalogMC`, `DaemonMC`, `SidecarMC`, `IngestMC` | model values and symmetry for TLC |

### Jobs

A handler `h` serves one request at a time; `pc[h]` names the next section of its code, and one
step is one section that nothing can interleave with: a critical section of a lock, or one
unlocked access to a field of a shared `*Job`.

| Code | Model |
|---|---|
| `handleQuery` (and an insert without an id) | `StartQuery`, `Generate`, `Create`, `Execute`, `Publish`, `Settle`, `Record` |
| `handleInsertJob` with an id | `StartInsert`, `Lookup`, then as above, or `ReplayError`, `ReplayState` |
| `handleGetQueryResults` | `StartResults`, `Fetch`, `ReadState`, `ReadError`, `ReadResult` |
| `Store.CreateJob`, `GetJob`, `CompleteJob`, `RecordJob` | the map step of `Create`; `Lookup` and `Fetch`; `Publish` and `Settle`; `Record` |
| a cancelled `r.Context()` | `Disconnect` |
| the process stops and starts again | `Restart` |

Objects and queries are numbered together in the order `CreateJob` makes them, so an outcome is
the number of the query it came from, and "whose outcome is this" can be asked. `CompleteJob`'s
two assignments are two steps, in either order, because unlocked readers may see them so; a read
of a state string that races its write may be torn. The SQL text, rows, schemas and response
bodies are left out.

### Catalog

`CheckNew`, `CreateSchema`, `Register` are `CreateDataset`; `CheckOld`, `DropSchema`,
`Unregister` are `DeleteDataset`: three steps each, under `Store.mu`, the second a statement that
may fail. `SetPartitioning`, `CreateTable` and the three sections of `GetTable` (`TableExists`,
`TableColumns`, `ReadPartitioning`) are `handleCreateTable`; the last three alone are
`handleGetTable`; `DropExists`, `DropTable` are `handleDeleteTable`. `RawSchema` and `RawTable`
are what jobs.query and `localbq load` do to DuckDB behind the API. History variables record
what a request could have seen (`saw`), what the last insert of a table declared, and which
datasets raw SQL or an earlier process is answerable for. A name is the sequence of what stands
between its dots, so that `partitioningKey`, which joins two names with a dot, is concatenation,
and two tables can have one key, as in the code. A failed statement is taken to leave
DuckDB as it was, since each is a transaction of its own.

### Daemon

A step is a system call of a command, or an event of a process. `proc` says what runs under each
pid: a server that is booting (has not opened the database), serving or stopping, a zombie, a
stranger. `Read`, `Probe`, `RemoveStale` are `daemonRunning`; `Spawn`, `Truncate`, `Write`,
`Look` are the rest of `daemonStart`; `Signal`, `Await`, `Remove` are the rest of `runStop`.
Servers `Open` the database (or exit, because DuckDB's lock lets in one process), `Quit` on a
signal, `ShutDown`, `Crash`. `Foreground` is `up` without `-d`. `Stranger` gives a free pid to
another program. External, and modelled from how the code uses it: DuckDB's file lock, signals,
zombies and the reuse of pids. `Overlap` names the commands that may be given while others of them
run; the code takes no lock, and an `up -d` must run alone for anything below to hold.

### Sidecar

`Start`, `Stop` and `Port` hold `Sidecar.mu` from beginning to end. `Check`, `Spawn`, `ReadPort`,
`Dial`, `WaitHealthy`, `ReturnConn` are `Start`; `Close` and `Wait` are `stopLocked`, which three
places of `Start` and all of `Stop` go through, with `after` naming where the call goes on. A
child prints a good or a bad port line (`Announce`), becomes ready, hangs or recovers (`Turn`) and
exits (`Exit`: by itself, interrupted, or killed because the context it was started under has
ended). Timers are alternatives that are always possible. A child's slot is free again when it
has been waited for, so a zombie nobody waits for would be seen. No handler calls `Start` yet:
the module says that the manager is fit to be called by many. What it promises them is
`SidecarService`, with `serving` as the child callers see: the one `conn` leads to, but none as long
as that child has yet to pass its first health check.

### Lowering

A text is what its fate depends on: the kinds of its one or two statements, a comment before them,
a comment or a semicolon after them, and one chain of nested calls, outermost first, with a leaf.
`Depth` counts the levels of parentheses in a call's argument, and the patterns of `lowering.go`
match up to two of them (`Matches`). `LowerCall` is one `ReplaceAllString` with such a pattern: the
leftmost match takes what it contains along, so a call inside another of the same function stays.
`LowerNamed` is a pattern that ends at the opening parenthesis and has no such limit.
`LowerCalls` composes the rewrites in the order `init` registers them: `to_json_string` comes late
because its replacement, `CAST(to_json(x) AS VARCHAR)`, is a level deeper than what it replaces.
`LowerLoadData` turns LOAD DATA [OVERWRITE], if the text starts with it, into an INSERT, and drops
whatever comes after the name of the file, a second statement included.

### Ingest

One dataset, one table and the file they are in. `holder` is the process that has the file open:
a load, the server, or nobody. A load `l` stands for a file somebody loads: `LoadOpen`, `LoadInit`,
`LoadCreateSchema`, `LoadCheck`, `LoadRows`, `LoadCount`, `LoadClose` are the calls of `runLoad` in
order, each of which can fail and end the process (`LoadFails`), except that a failed count is
only a warning; `Kill` ends it between any two. A load that has not reported success is run again.
`copies[l]` counts how often the table holds the rows of `l`'s file.

The server opens the file (`ServerOpen`), initialises (`ServerReady`), serves and ends
(`ServerEnds`) at any time. A request lowers its text (`Arrive`), takes `Engine.mu` and hands the
text to DuckDB (`Begin`), which runs its statements one at a time (`RunStatement`), each one
committed by itself. `DryRun` is EXPLAIN of the text, then, if that succeeded, the text with LIMIT 0
(`TryLimit0`), whose error is ignored; `mode` tells the three uses apart, and `QueryFails` says
what an error means in each. `ReadRows` may always fail, though the statements of the query have
run: the driver may have no description of a column or not be able to scan a value, and the context
may have been cancelled. `did` records the statements that ran, and `reply` what the client was
told. A failure therefore says nothing about how much of a text is done; what an answer does say is
`AnswersMatchEffects`: success means all of it, what ran is in any case the start of the text, and
nobody has undone the last of it before the client is told, which is what `Engine.mu`, held from the
first statement to the last row, is for.

What DuckDB does with a text is external: that it parses all of it before it runs any, that
EXPLAIN covers the first statement only, what LIMIT 0 may be appended to, and that a comment at the
end swallows it. From this follows which dry runs are harmless: `SafeToDryRun`. The others are
not, though `engine.go:75` says a dry run does not execute its query. A dry run of
CREATE TABLE AS makes the (empty) table; of `INSERT ... -- note` inserts the rows; of
`DELETE ...; SELECT ...` deletes them. Without the conjuncts of `SafeToDryRun` that exclude them
TLC shows each of these.

## 3. What TLC checks

| Run | Question | Distinct states |
|---|---|---|
| `jobs_overlap` | Three requests, two queries, a restart, overlapping inserts of one id, clients that go away, a client id that equals a generated one: seven safety properties and the types | 1.7 million |
| `jobs_serial` | Clients that wait for an insert before they retry it: `Jobs` implements `JobLedger`, with its fairness; retries are told the outcome; every request is answered | 283,000 |
| `catalog_overlap` | Two requests about one dataset and its table, raw SQL, failures and restarts: refinement of `DatasetRegistry`, three properties, and every request is answered | 91,000 |
| `daemon_overlap` | Stops and status calls that overlap, an `up -d` alone, everything else at any time: the PID file loses no server | 27,000 |
| `sidecar` | Three callers and a child that does what it likes: refinement of `SidecarService`, no child is lost or left behind, the fields belong together, every call returns | 20,900 |
| `ingest_rows` | Two files to load beside a server with two requests of eighteen texts: loads count once, what they looked up stays true, safe dry runs change nothing, answers are true of what ran and of what still stands, what a dry run accepts is valid, and calls are lowered | 378,000 |

Six runs show where the code does not do what it says. TLC finds the shortest behaviour.

| Run | What the code says | What happens |
|---|---|---|
| `jobs_runs_once` | `server.go:246-252`: a retried insert never runs the query twice | the look-up and `CreateJob` are separate sections: two inserts in flight both run it |
| `jobs_replay` | `server.go:334-339`: a repeated insert replays the recorded outcome | an unlocked reader sees no error, then DONE: a failed job is replayed as a success |
| `jobs_rows` | `info_schema.go:88`: the view tracks all executed jobs | numbering restarts with the process, and the row collides with an old one; the error is dropped |
| `catalog_restart` | `README.md:115`: data persists across restarts | schemas do, `Store.datasets` does not: a dataset is a 404 after a restart |
| `catalog_keys` | `meta.go:209`: a later GetTable echoes what was declared for one table | table `c` of `a.b` and table `b.c` of `a` share an entry, and the second insert decides for both |
| `daemon_started` | `daemon.go:69-72`: a daemon that exits at once is reported | a dead child is a zombie until it is waited for and answers signal 0 |

**Bounds.** `Jobs` needs two inserts of one id and a third request that reads, so three handlers
and two queries (`MaxRuns`), one restart (`MaxRestarts`) and two generated ids
(`MaxGenerated`); ids are numbers so that `ClientIds = {2}` makes a client name a job like a
generated one. A request only arrives when the bounds leave room for it (`Budget`), so no handler
is cut off inside its code. `Catalog` has no counter; one dataset, one table and one partitioning
value (and none) suffice, because operations on other tables meet only in `Store.mu` and, if
their names have dots, in the partitioning key: `catalog_keys` has four tables, two of them with
one key, and a single handler, since the entry is shared without any overlap. Two handlers are
a holder of `Store.mu` and one that waits for it. `Daemon` has three pids: a server, its successor, and a process
that is neither; with two shells, commands follow each other in both. `Sidecar` has one caller
that holds the lock and two that wait, and a slot for a second child, which a stray first one
would leave the manager to use. `Ingest` has two files, so that one load finds the table of the
other, and two requests, so that one waits for `Engine.mu`; `MaxCopies = 2` lets a killed load be
seen twice in the table, and a load that would go past it fails. Its eighteen texts (`MCTexts`)
have every kind of statement alone, with a comment or a semicolon where that matters, three pairs,
and chains of two and three calls, one at the limit of two levels and one that nests a call in
itself. A load is killed at most once. Handlers, pids, shells, files and clients are
interchangeable and are reduced by symmetry in runs without liveness. In the proof modules none of
these bounds matters.

**Deadlock** is checked in every run: at the bounds of `Jobs` a client can still ask for results,
and elsewhere a request or a command is always possible.

**Fairness.** `Jobs` assumes weak fairness of each handler's next step: Go schedules every
goroutine, and a writer that holds `Store.mu` releases it within two steps. `Catalog` assumes
strong fairness, for there a waiting handler may find `Store.mu` taken again and again by others;
Go's RWMutex blocks new readers once a writer waits and lets every waiter in. It also takes for
granted that DuckDB's statements end. No fairness is assumed of clients, restarts or raw SQL.
`Sidecar` assumes strong fairness of each call, for the same reason about its mutex; that a
waiting call gives up in the end is what its timers do. `Daemon` states no liveness: its waits are
bounded by time, and `stop` gives up after three seconds. `Ingest` assumes no fairness and states no
liveness: nothing in it waits but for `Engine.mu`.

## 4. What is proved

All theorems hold for any number of handlers, ids, datasets, tables, pids, files, texts and
restarts, under the named assumptions on constants (special values are distinct, bounds are natural
numbers). Every invariant that a passing run checks is the subject of one, and so are the three
refinements, as far as safety goes. Four of the six claims the code does not keep (section 3) are
theorems too, each under the condition that the counterexample breaks: they say what has to
be true of the clients, or of the names, for the code's comment to hold.

| Claim refuted by a run | Theorem | Holds if |
|---|---|---|
| `RunsOncePerProcess` | `RunsOnce` | clients wait for an insert before they retry it, and use no generated id (`Patient`) |
| `ReplayMatchesOutcome` | `ReplaysTrue` | the same |
| `AnsweredRunsHaveRows` | `RowsComplete` | the same, no client goes away, and the process is the first to use the file |
| `EveryTableEchoed` | `UndottedEchoes` | no dataset's name has a dot |

**`Jobs_proofs`.** Type correctness, and seven of the safety properties. The argument is an
inductive invariant in parts. A handler past `CreateJob` owns a run: no other handler has
it, and it was created in this process for the id the handler serves. An outcome stored in an
object comes from a run of the same id, process and verdict. A handler that holds `Store.mu` is
at one of `CompleteJob`'s two inner steps and no other is. Ids above `jobCounter` are unused by
this process, unless a client has named them. From these: `RetriesAdopt` (a known id never
starts a query), `Ownership` and `OutcomesBelong`, `AnswersTrue`, `NoOrphans`,
`GeneratedPrivate`, `RowsFinished`, `FinishedAnswered`. `JobsListed` needs no patience, only clients that
stay: `RecordJob` is then called in a live context, and its INSERT can fail on a row of the same
id alone; so a job whose id had one run, in any process, is listed before its client hears of it.

**`Catalog_proofs`.** Type correctness; `StoresAgreed`; `RegistryImplemented`, that every
behaviour of `Catalog` is one of `DatasetRegistry`; `PartitioningEchoes`, for tables alone with
their key; `UndottedEchoes`, that with undotted datasets all tables are (`UndottedAlone`: a key's first
label is then the dataset); `TableAnswers`. The
invariant ties `Store.mu` to the one handler inside a dataset operation, and says what map and
schema look like at each of its steps: equal before the statement, differing in that handler's
dataset between the statement and the map. The refinement needs it because the map is changed
by an assignment whose guard was read two steps earlier.

**`Daemon_proofs`.** Type correctness with any number of commands at once, and, if every `up -d`
runs alone while stops and status calls overlap as they like, `ServersNamed` (`ServerNamed`) and `NotRunningTold` (`NotRunningTrue`). The invariant says what a
command can rely on at each step: that the PID file names the servers (before reading), that
the pid it read is the only server (before probing), that there is none (before removing or
starting), that its child is the only one (before writing). `ServerNamed` alone is not inductive:
it speaks of moments when no `up -d` is under way. Two stops may both signal and both remove the
file; that is harmless because it then names a dead process or one that was asked to stop, and only an
`up -d` writes a new one.

**`Sidecar_proofs`.** Type correctness, `ChildrenManaged` (`NoStray`), `FieldsTogether`
(`AllOrNothing`) and `NothingLeft` (`EndsClean`), all from one invariant. It says who holds the
mutex, and for each step of the holder which of the three fields are set and to what; `EndsClean`
follows because a call that fails has cleared `cmd`, and `NoStray` says that no child is left then.
`ServiceImplemented`: the refinement of `SidecarService` follows from the same invariant. What callers
see depends on the holder alone (`ServingSeen`); `Close` is the service's GiveUp or nothing, the
last step of a start is its Appear, and an answer its Tell.

**`JobsSerial_proofs`.** Here clients wait for an insert before they retry it, and do not use ids
that the server generates (`Patient`). The invariant `OneRun` says that an insert about to run finds
its id unused, and that runs of one process differ in their ids; so each run is alone with its
id, and what `Jobs_proofs` shows of such runs (how far the object has come at each step of its handler)
applies to all. `RunsOnce`, `RetriesTold`, `ReplaysTrue`, `RowsComplete` and `LedgerImplemented` follow: `CreateJob` is the ledger's
Begin, the last step of `CompleteJob` its Finish, a restart its Forget, and all else leaves
the ledger as it is. `LedgerImplemented` is the safety half of `ImplementsLedger`; the ledger's own
fairness is left to TLC.

**`Lowering_proofs`.** Chains of any length. Each rewrite changes only which calls are lowered, and
none before `to_json_string` adds parentheses, so a call within reach at the start is still so
when its turn comes, and is lowered if no other call of its function stands before it.
`LowersWhole` puts the passes together. All of it is plain reasoning about functions on
`1 .. n`, without induction, because a pass looks at each call by itself.

**`Ingest_proofs`.** `TypeCorrect`, `LoadedOnce`, `ChecksHold`, `DryRunsHarmless`, `AnswersTrue`,
`AcceptedValid`, `LoweredInFull`. Three inductive invariants carry the rest. About the file: the holder is
the one process past its opening (`OneHolder`), so that between a load's check and its statement nobody
else acts; with it `LoadsInv` counts copies by the step a load is at. About requests
(`RequestsInv`): the statements that ran and those still to run make up the text as `QueryContext`
was given it, in a query, in EXPLAIN and in the probe after EXPLAIN; once one has run, its calls are
known; and a request's text is the lowered form of what the client sent. About `Engine.mu` (`MuHeld`,
`Undisturbed`): a request that runs holds it, so that nobody else's statement follows its last one
before it is answered; loads are kept out by `OneHolder`. `AnswersTrue` needs all three.

**Only model-checked.** Liveness, and the fairness of `JobLedger`, which need ENABLED; the six
counterexamples. What DuckDB does is assumed, not proved.

## 5. What is not modelled

* jobs.get, jobs.list, jobs.cancel, the list calls and tabledata.list: they change nothing.
  jobs.get reads the fields that `ReadState` and `ReadError` read.
* Generated code: `internal/googlesql/pb` is about 138,000 of the repository's 141,000 lines of
  implementation, and no part of it is this program's logic; the hand-written Go is about 3,300 lines.
* Formatting of values, discovery, logging, flags, `find.go`, the analyzer, `mapDuckDBType`,
  `ClassifyStatement`: no state, or pure functions of one string that no property is about.
* In `Lowering`: identifiers (backticks, three-part names, region prefixes), names of types, UNNEST
  and string literals, which the patterns rewrite like anything else. Texts with several chains of
  calls, where a pattern can match across them.
* In `Ingest`: transactions written in a text (BEGIN, COMMIT); the checks of `load`'s arguments;
  the views that `InitInfoSchema` makes.
* What becomes of a sidecar when the server's process ends: `Sidecar` is about one process that lives.
* A removal that fails: `Daemon` takes every `os.Remove` of the PID file to succeed (the code drops its
  error), and `Sidecar` takes the signals it sends, and the closing of a connection, to do so.
* The mutex of the other half: `Catalog` has no `Engine.mu`, so how long a statement waits for it is not
  seen; `Ingest` has only queries and dry runs under it, not the catalog's statements, which take it too.
* An `up -d` beside another command in `Daemon`: with `"up"` in `Overlap`, TLC finds that two
  `up -d`, or a `stop` beside an `up -d`, lose a server. The code takes no lock and promises nothing
  here, so it is recorded as a hazard, not as a run.

## 6. Plan

Done, in order of what matters most:

1. `JobLedger`, `Jobs`, `Jobs_proofs`: the server's core, and where its concurrency is.
2. `DatasetRegistry`, `Catalog`, `Catalog_proofs`: the two stores.
3. `Daemon`, `Daemon_proofs`: processes, crashes and the PID file.
4. `Sidecar`, `Sidecar_proofs`: a child process, timeouts and contexts.
5. `Lowering`, `Ingest` and their proofs: rows of tables under `load`, LOAD DATA and dry runs.
6. `JobsSerial_proofs`: the refinement of `JobLedger`, and when its comments' claims hold.
7. `SidecarService` and its refinement by `Sidecar`; overlapping stops in `Daemon`; the partitioning
   key as the code makes it.

Left:

1. An abstract specification of `Ingest`, a table to which a load adds its file once, and its
   refinement.
2. `mapDuckDBType` over classes of names of types, against a reference definition.
