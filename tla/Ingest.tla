------------------------------- MODULE Ingest -------------------------------
(***************************************************************************)
(* Rows of one table, and the programs that change them: "localbq load"    *)
(* (cmd/localbq/load.go), and the SQL texts that clients send to a server, *)
(* to be run or dry-run (internal/api, internal/engine).                   *)
(*                                                                         *)
(* DuckDB lets one process at a time open the file.  A load is a process   *)
(* of its own, a step of it one call of the engine.  In the server a step  *)
(* is one statement: Engine.mu is held from the first statement of a text  *)
(* until the last row is read.                                             *)
(*                                                                         *)
(* External: DuckDB's lock; that it parses a whole text before it runs any *)
(* of it, runs its statements one after the other, each one a transaction  *)
(* that survives the process; that EXPLAIN covers the first statement and  *)
(* LIMIT 0 the last, and to which statements that may be added.            *)
(***************************************************************************)
EXTENDS Lowering

CONSTANTS
    Clients,        \* requests with SQL that the server can be serving at one time
    Loads,          \* files that somebody loads, by "localbq load"
    Server,         \* the server process, as a holder of the file
    Nobody,         \* holds the file, or Engine.mu, when it is free
    Texts,          \* the texts clients send
    MaxCopies       \* bound: how often the table can hold the rows of one file

ASSUME NamesAssumption == Server \notin Loads /\ Nobody \notin Loads \cup Clients \cup {Server}
ASSUME TextsAssumption == Texts \in SUBSET Text
ASSUME MaxCopiesAssumption == MaxCopies \in Nat \ {0}

VARIABLES
    \* The DuckDB file.
    holder,         \* the process that has it open
    schema,         \* is the dataset there?
    table,          \* is the table there?
    copies,         \* how often the table holds the rows of each load's file
    \* Loads.
    lpc,            \* a load's next step
    \* The server.
    server,
    mu,             \* the request that holds Engine.mu
    pc,             \* a request's next step
    mode,           \* what it does: EXPLAIN and LIMIT 0 are the two halves of DryRun
    sql,            \* its text, after Lower
    script,         \* the statements still to run
    \* History.
    text,           \* the text as the client sent it
    did,            \* the statements that have run for a request
    reply,          \* what the last step told a client
    loaded,         \* loads that reported success
    killed,         \* loads that were killed once
    wiped           \* loads whose rows a client may have removed since they ran

file == <<holder, schema, table, copies>>
request == <<mu, pc, mode, sql, script, text, did>>
vars == <<file, lpc, server, request, reply, loaded, killed, wiped>>

LoadSteps == {"idle", "init", "createSchema", "check", "insert", "create", "count", "close"}
Modes == {"query", "explain", "limit0"}
Stmt == [kind : DuckKinds, as : {"itself", "explained", "limited"}]
NoText == [commented |-> FALSE, first |-> "select", second |-> "none", tail |-> "none",
           chain |-> [calls |-> <<>>, leaf |-> "column"]]
Reply == [said : {"nothing", "ok", "failed"}, dry : BOOLEAN, sql : Text,
          did : Seq(Stmt)]
NoReply == [said |-> "nothing", dry |-> FALSE, sql |-> NoText, did |-> <<>>]

TypeOK ==
    /\ holder \in Loads \cup {Server, Nobody}
    /\ schema \in BOOLEAN
    /\ table \in BOOLEAN
    /\ copies \in [Loads -> 0 .. MaxCopies]
    /\ lpc \in [Loads -> LoadSteps]
    /\ server \in {"down", "starting", "serving"}
    /\ mu \in Clients \cup {Nobody}
    /\ pc \in [Clients -> {"idle", "waiting", "running"}]
    /\ mode \in [Clients -> Modes]
    /\ sql \in [Clients -> Text]
    /\ script \in [Clients -> Seq(Stmt)]
    /\ text \in [Clients -> Text]
    /\ did \in [Clients -> Seq(Stmt)]
    /\ reply \in Reply
    /\ loaded \in SUBSET Loads
    /\ killed \in SUBSET Loads
    /\ wiped \in SUBSET Loads

Init ==
    /\ holder = Nobody
    /\ schema = FALSE
    /\ table = FALSE
    /\ copies = [l \in Loads |-> 0]
    /\ lpc = [l \in Loads |-> "idle"]
    /\ server = "down"
    /\ mu = Nobody
    /\ pc = [c \in Clients |-> "idle"]
    /\ mode = [c \in Clients |-> "query"]
    /\ sql = [c \in Clients |-> NoText]
    /\ script = [c \in Clients |-> <<>>]
    /\ text = [c \in Clients |-> NoText]
    /\ did = [c \in Clients |-> <<>>]
    /\ reply = NoReply
    /\ loaded = {}
    /\ killed = {}
    /\ wiped = {}

Silent == reply' = NoReply

-----------------------------------------------------------------------------
(* "localbq load", repeated by its user until it reports success *)

LoadAt(l, step) == lpc[l] = step /\ Silent /\ UNCHANGED <<server, request, killed, wiped>>
LoadGoto(l, step) == lpc' = [lpc EXCEPT ![l] = step]

\* os.Exit(1): the load reports a failure, and the end of the process frees the file.
LoadFails(l) ==
    /\ LoadGoto(l, "idle")
    /\ holder' = Nobody
    /\ UNCHANGED <<schema, table, copies, loaded>>

\* DuckDB refuses a file that is open.
Free == holder = Nobody

\* engine.Open; one that fails leaves nothing to undo.
LoadOpen(l) ==
    /\ LoadAt(l, "idle")
    /\ l \notin loaded
    /\ Free
    /\ holder' = l
    /\ LoadGoto(l, "init")
    /\ UNCHANGED <<schema, table, copies, loaded>>

\* InitInfoSchema, which does not touch the table.
LoadInit(l) ==
    /\ LoadAt(l, "init")
    /\ \/ LoadGoto(l, "createSchema") /\ UNCHANGED <<file, loaded>>
       \/ LoadFails(l)

\* CREATE SCHEMA IF NOT EXISTS.
LoadCreateSchema(l) ==
    /\ LoadAt(l, "createSchema")
    /\ \/ /\ schema' = TRUE
          /\ LoadGoto(l, "check")
          /\ UNCHANGED <<holder, table, copies, loaded>>
       \/ LoadFails(l)

\* The engine stays open from the look for the table to the statement that relies on it.
\* Mutant: each has its own.
CloseBetween == holder' = Nobody
KeepOpen == UNCHANGED holder

\* TableExists decides which statement is to be run.
LoadCheck(l) ==
    /\ LoadAt(l, "check")
    /\ \/ /\ LoadGoto(l, IF table THEN "insert" ELSE "create")
          /\ KeepOpen
          /\ UNCHANGED <<schema, table, copies, loaded>>
       \/ LoadFails(l)

\* INSERT INTO the table, or CREATE TABLE AS.
LoadRows(l) ==
    /\ lpc[l] \in {"insert", "create"}
    /\ LoadAt(l, lpc[l])
    /\ \/ /\ IF lpc[l] = "insert" THEN table ELSE schema /\ ~ table
          /\ copies[l] < MaxCopies
          /\ table' = TRUE
          /\ copies' = [copies EXCEPT ![l] = @ + 1]
          /\ LoadGoto(l, "count")
          /\ UNCHANGED <<holder, schema, loaded>>
       \/ LoadFails(l)

\* The rows are counted for the report; if that fails, success is reported without
\* their number.  Mutant: it counts as a failure of the load.
CountOrFail(l) ==
    \/ LoadGoto(l, "close") /\ loaded' = loaded \cup {l} /\ UNCHANGED file
    \/ LoadFails(l)
CountAndReport(l) == LoadGoto(l, "close") /\ loaded' = loaded \cup {l} /\ UNCHANGED file
LoadCount(l) ==
    /\ lpc[l] = "count"
    /\ CountAndReport(l)
    /\ wiped' = wiped \ {l}
    /\ Silent
    /\ UNCHANGED <<server, request, killed>>

LoadClose(l) ==
    /\ LoadAt(l, "close")
    /\ holder' = Nobody
    /\ LoadGoto(l, "idle")
    /\ UNCHANGED <<schema, table, copies, loaded>>

\* The process is killed, or interrupted, between any two of its statements.
Kill(l) ==
    /\ lpc[l] # "idle"
    /\ l \notin killed
    /\ killed' = killed \cup {l}
    /\ holder' = Nobody
    /\ LoadGoto(l, "idle")
    /\ Silent
    /\ UNCHANGED <<schema, table, copies, server, request, loaded, wiped>>

LoadStep(l) ==
    \/ LoadOpen(l) \/ LoadInit(l) \/ LoadCreateSchema(l) \/ LoadCheck(l)
    \/ LoadRows(l) \/ LoadCount(l) \/ LoadClose(l) \/ Kill(l)

-----------------------------------------------------------------------------
(* The server *)

UnchangedLoads == UNCHANGED <<schema, table, copies, lpc, loaded, killed, wiped>>

ServerOpen ==
    /\ server = "down"
    /\ Free
    /\ holder' = Server
    /\ server' = "starting"
    /\ Silent
    /\ UNCHANGED request
    /\ UnchangedLoads

\* InitInfoSchema; without it the process ends.
ServerReady ==
    /\ server = "starting"
    /\ \/ server' = "serving" /\ UNCHANGED holder
       \/ server' = "down" /\ holder' = Nobody
    /\ Silent
    /\ UNCHANGED request
    /\ UnchangedLoads

\* The process ends: killed, or after a shutdown that waits five seconds for requests.
ServerEnds ==
    /\ server # "down"
    /\ server' = "down"
    /\ holder' = Nobody
    /\ mu' = Nobody
    /\ pc' = [c \in Clients |-> "idle"]
    /\ mode' = [c \in Clients |-> "query"]
    /\ sql' = [c \in Clients |-> NoText]
    /\ script' = [c \in Clients |-> <<>>]
    /\ text' = [c \in Clients |-> NoText]
    /\ did' = [c \in Clients |-> <<>>]
    /\ Silent
    /\ UnchangedLoads

-----------------------------------------------------------------------------
(* DuckDB's view of a text *)

\* A text is parsed as a whole, and LOAD DATA is not DuckDB's.
Parses(t) == t.first \in DuckKinds /\ t.second \in DuckKinds \cup {"none"}

\* The same with LIMIT 0 at its end: a comment swallows it, and after a semicolon it is
\* no statement; before, only a query, or a statement that ends in one, may have it.
LastKind(t) == IF t.second = "none" THEN t.first ELSE t.second
LimitParses(t) ==
    CASE t.tail = "comment"   -> Parses(t)
      [] t.tail = "semicolon" -> FALSE
      [] t.tail = "none"      -> Parses(t) /\ LastKind(t) \in {"select", "insert", "create"}

\* The statements that are run for text t: as it is, after EXPLAIN, or before LIMIT 0.
\* Mutant: LIMIT 0 is forgotten.
Statements(t, firstAs, lastAs) ==
    IF t.second = "none"
    THEN <<[kind |-> t.first, as |-> IF firstAs = "explained" THEN firstAs ELSE lastAs]>>
    ELSE <<[kind |-> t.first, as |-> firstAs], [kind |-> t.second, as |-> lastAs]>>
Query(t) == Statements(t, "itself", "itself")
Explain(t) == Statements(t, "explained", "itself")
ProbeWhole(t) == Query(t)
Probe(t) == Statements(t, "itself", IF t.tail = "comment" THEN "itself" ELSE "limited")

\* Statement s changes rows, tables or schemas; CREATE TABLE AS ... LIMIT 0 makes one.
Changes(s) ==
    \/ s.as = "itself" /\ s.kind # "select"
    \/ s.as = "limited" /\ s.kind = "create"
Removes(s) == s.as = "itself" /\ s.kind \in {"delete", "drop"}

\* What DuckDB must have for statement s.
Runnable(s) ==
    /\ s.kind \in {"select", "insert", "delete", "drop"} => table
    /\ s.kind = "create" => schema /\ ~ table

Effect(s) ==
    /\ schema' = (schema \/ (s.kind = "createSchema" /\ Changes(s)))
    /\ table' = ((table \/ (s.kind = "create" /\ Changes(s))) /\ ~ (s.kind = "drop" /\ Changes(s)))
    /\ copies' = IF Removes(s) THEN [l \in Loads |-> 0] ELSE copies
    /\ wiped' = IF Removes(s) THEN Loads ELSE wiped

KnownCalls(t) == \A i \in DOMAIN t.chain.calls : t.chain.calls[i].lowered

-----------------------------------------------------------------------------
(* jobs.query and jobs.insert, dry run or not *)

UnchangedFile == UNCHANGED <<file, lpc, server, loaded, killed, wiped>>

\* Request c is answered and Engine.mu, which it may hold, released.
Answer(c, what) ==
    /\ pc' = [pc EXCEPT ![c] = "idle"]
    /\ mu' = IF mu = c THEN Nobody ELSE mu
    /\ script' = [script EXCEPT ![c] = <<>>]
    /\ reply' = [said |-> what, dry |-> mode[c] # "query", sql |-> sql[c], did |-> did[c]]
    /\ mode' = [mode EXCEPT ![c] = "query"]
    /\ sql' = [sql EXCEPT ![c] = NoText]
    /\ text' = [text EXCEPT ![c] = NoText]
    /\ did' = [did EXCEPT ![c] = <<>>]

Arrive(c, t, dry) ==
    /\ server = "serving"
    /\ pc[c] = "idle"
    /\ pc' = [pc EXCEPT ![c] = "waiting"]
    /\ mode' = [mode EXCEPT ![c] = IF dry THEN "explain" ELSE "query"]
    /\ text' = [text EXCEPT ![c] = t]
    /\ sql' = [sql EXCEPT ![c] = Lower(t)]
    /\ Silent
    /\ UNCHANGED <<mu, script, did>>
    /\ UnchangedFile

\* What an error of QueryContext means: in the query and in EXPLAIN the request fails,
\* in the LIMIT 0 probe it is ignored.  Mutants: EXPLAIN's is ignored too; the query's is.
IgnoreInDryRun(c) == Answer(c, IF mode[c] = "query" THEN "failed" ELSE "ok")
IgnoreInQuery(c) == Answer(c, IF mode[c] = "explain" THEN "failed" ELSE "ok")
QueryFails(c) == Answer(c, IF mode[c] = "limit0" THEN "ok" ELSE "failed")

\* Engine.mu.  Mutant: Query and DryRun do not take it.
MuIgnored == TRUE
MuFree == mu = Nobody

\* Engine.mu is taken and the text given to DuckDB.
Begin(c) ==
    /\ pc[c] = "waiting"
    /\ MuFree
    /\ \/ /\ Parses(sql[c])
          /\ mu' = c
          /\ pc' = [pc EXCEPT ![c] = "running"]
          /\ script' = [script EXCEPT ![c] =
                           IF mode[c] = "query" THEN Query(sql[c]) ELSE Explain(sql[c])]
          /\ Silent
          /\ UNCHANGED <<mode, sql, text, did>>
       \/ QueryFails(c)
    /\ UnchangedFile

\* The next statement of the script runs, or fails: a bad statement, or a context that
\* is cancelled before it or meanwhile.
RunStatement(c) ==
    LET s == Head(script[c])
    IN  /\ pc[c] = "running"
        /\ script[c] # <<>>
        /\ \/ /\ Runnable(s)
              /\ KnownCalls(sql[c])
              /\ Effect(s)
              /\ script' = [script EXCEPT ![c] = Tail(@)]
              /\ did' = [did EXCEPT ![c] = Append(@, s)]
              /\ Silent
              /\ UNCHANGED <<mu, pc, mode, sql, text>>
           \/ QueryFails(c) /\ UNCHANGED <<schema, table, copies, wiped>>
        /\ UNCHANGED <<holder, lpc, server, loaded, killed>>

\* DryRun has seen EXPLAIN succeed and tries the text with LIMIT 0.
TryLimit0(c) ==
    /\ pc[c] = "running"
    /\ script[c] = <<>>
    /\ mode[c] = "explain"
    /\ \/ /\ LimitParses(sql[c])
          /\ mode' = [mode EXCEPT ![c] = "limit0"]
          /\ script' = [script EXCEPT ![c] = Probe(sql[c])]
          /\ Silent
          /\ UNCHANGED <<mu, pc, sql, text, did>>
       \/ Answer(c, "ok")
    /\ UnchangedFile

\* The rows, or the columns of the probe, are read.  For the probe an error means nothing;
\* a query fails by it, though its statements have run: a column or a row the driver
\* cannot describe or scan, or a context that is cancelled.
ReadRows(c) ==
    /\ pc[c] = "running"
    /\ script[c] = <<>>
    /\ mode[c] # "explain"
    /\ Answer(c, "ok") \/ (mode[c] = "query" /\ Answer(c, "failed"))
    /\ UnchangedFile

RequestStep(c) ==
    \/ \E t \in Texts, dry \in BOOLEAN : Arrive(c, t, dry)
    \/ Begin(c) \/ RunStatement(c) \/ TryLimit0(c) \/ ReadRows(c)

Next ==
    \/ \E l \in Loads : LoadStep(l)
    \/ ServerOpen \/ ServerReady \/ ServerEnds
    \/ \E c \in Clients : RequestStep(c)

Spec == Init /\ [][Next]_vars

-----------------------------------------------------------------------------
(* Properties *)

\* A file whose load is repeated until it reports success is in the table exactly once,
\* unless a client has removed rows since; a load that is killed may have added it or not,
\* and the next one adds it again.
LoadsCount ==
    \A l \in Loads :
        /\ l \notin killed => copies[l] <= 1
        /\ l \notin killed /\ l \notin loaded /\ lpc[l] # "count" => copies[l] = 0
        /\ l \in loaded /\ l \notin wiped => copies[l] >= 1

\* What TableExists has told a load is still true when the load's statement is run
\* (load.go:83-105).
CheckStillTrue ==
    \A l \in Loads :
        /\ lpc[l] = "insert" => table
        /\ lpc[l] = "create" => schema /\ ~ table

\* A request with one statement, not CREATE TABLE AS, and no comment after it (unless it
\* is a query), or with LOAD DATA, whatever follows that.
SafeToDryRun(t) ==
    \/ ~ t.commented /\ t.first \in LoadKinds
    \/ /\ t.second = "none"
       /\ t.first # "create"
       /\ t.tail = "comment" => t.first = "select"

\* A dry run of such a text changes nothing (engine.go:75: DryRun "validates a query
\* without executing it").
DryRunsChangeNothing ==
    \A c \in Clients :
        mode[c] # "query" /\ SafeToDryRun(text[c]) =>
            \A i \in DOMAIN did[c] : ~ Changes(did[c][i])

\* What statement s was run for is still so.
Stands(s) ==
    /\ s.kind = "createSchema" /\ Changes(s) => schema
    /\ s.kind = "create" /\ Changes(s) => table
    /\ s.kind \in {"select", "insert", "delete"} => table
    /\ s.kind = "drop" /\ Changes(s) => ~ table
    /\ Removes(s) => \A l \in Loads : copies[l] = 0

\* A client is told that its text has run only if all of it has; if it is told of a failure,
\* the statements that did run, all of them perhaps, are the first ones of its text.  When
\* it is told, nobody has undone the last of them (engine.go:112, 115-151).
AnswersMatchEffects ==
    reply.said # "nothing" /\ ~ reply.dry =>
        LET ran == reply.did
            all  == Query(reply.sql)
        IN  /\ reply.said = "ok" => ran = all
            /\ ran = SubSeq(all, 1, Len(ran))
            /\ ran # <<>> => Stands(ran[Len(ran)])

\* A dry run accepts only a text that DuckDB can parse and whose calls it knows.
AcceptedIsValid ==
    reply.said = "ok" /\ reply.dry => Parses(reply.sql) /\ KnownCalls(reply.sql)

\* Lower leaves none of GoogleSQL's calls in a text where no call stands inside one of the
\* same function, and none has more than two levels of parentheses in its argument.
LoweredWhole ==
    \A c \in Clients :
        LET ch == text[c].chain
        IN  /\ \A i, j \in DOMAIN ch.calls : ch.calls[i].fn = ch.calls[j].fn => i = j
            /\ \A i \in DOMAIN ch.calls : Depth(ch, i) <= 2
            => KnownCalls(sql[c])
=============================================================================
