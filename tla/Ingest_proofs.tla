---------------------------- MODULE Ingest_proofs ----------------------------
(* Proofs about module Ingest: its types, what loads leave in the table, and what *)
(* queries and dry runs do to it and say of it.                                   *)
EXTENDS Ingest, Lowering_proofs

-----------------------------------------------------------------------------
(* Statements and texts *)

\* A text that parses has at least one statement, however it is run.
LEMMA StatementsType ==
    ASSUME NEW t \in Text, Parses(t)
    PROVE  /\ Query(t) \in Seq(Stmt) /\ Len(Query(t)) >= 1
           /\ Explain(t) \in Seq(Stmt) /\ Len(Explain(t)) >= 1
           /\ Probe(t) \in Seq(Stmt)
  <1> DEFINE As == {"itself", "explained", "limited"}
  <1>1. ASSUME NEW a \in As, NEW b \in As
        PROVE  Statements(t, a, b) \in Seq(Stmt) /\ Len(Statements(t, a, b)) >= 1
    <2>1. CASE t.second = "none"
      <3>1. [kind |-> t.first, as |-> IF a = "explained" THEN a ELSE b] \in Stmt
        BY DEF Parses, Stmt
      <3> QED BY <2>1, <3>1 DEF Statements
    <2>2. CASE t.second # "none"
      <3>1. [kind |-> t.first, as |-> a] \in Stmt /\ [kind |-> t.second, as |-> b] \in Stmt
        BY <2>2 DEF Parses, Stmt
      <3> QED BY <2>2, <3>1 DEF Statements
    <2> QED BY <2>1, <2>2
  <1>2. Query(t) \in Seq(Stmt) /\ Len(Query(t)) >= 1
    BY <1>1 DEF Query
  <1>3. Explain(t) \in Seq(Stmt) /\ Len(Explain(t)) >= 1
    BY <1>1 DEF Explain
  <1>4. Probe(t) \in Seq(Stmt)
    BY <1>1 DEF Probe
  <1> QED BY <1>2, <1>3, <1>4

\* Running the first statement of a script moves it to those that have run.
LEMMA MoveHead ==
    ASSUME NEW S, NEW a \in Seq(S), NEW b \in Seq(S), b # <<>>
    PROVE  /\ Append(a, Head(b)) \in Seq(S) /\ Tail(b) \in Seq(S) /\ Head(b) \in S
           /\ Append(a, Head(b)) \o Tail(b) = a \o b
  OBVIOUS

\* No text is a text, whose rewriting it is.
LEMMA NoTextType == NoText \in Text /\ Lower(NoText) \in Text
  <1>1. NoText \in Text
    BY DEF NoText, Text, Kinds, DuckKinds, Chain, Leaves
  <1> QED BY <1>1, LowerType

-----------------------------------------------------------------------------
(* Types *)

\* Saying nothing is a reply.
LEMMA NoReplyType == NoReply \in Reply
  <1>1. <<>> \in Seq(Stmt)
    OBVIOUS
  <1> QED BY <1>1, NoTextType DEF NoReply, Reply

\* The initial state is well typed.
LEMMA InitTyped == Init => TypeOK
  <1> SUFFICES ASSUME Init PROVE TypeOK
    OBVIOUS
  <1>1. copies \in [Loads -> 0 .. MaxCopies]
    BY MaxCopiesAssumption DEF Init
  <1>2. script \in [Clients -> Seq(Stmt)] /\ did \in [Clients -> Seq(Stmt)]
    BY DEF Init
  <1>3. sql \in [Clients -> Text] /\ text \in [Clients -> Text]
    BY NoTextType DEF Init
  <1> QED BY <1>1, <1>2, <1>3, NoReplyType DEF Init, TypeOK, LoadSteps, Modes

\* The steps of a load keep the types.
LEMMA LoadTyped ==
    ASSUME TypeOK, NEW l \in Loads, LoadStep(l)
    PROVE  TypeOK'
  <1>0. NoReply \in Reply
    BY NoReplyType
  <1> USE <1>0, MaxCopiesAssumption
        DEF TypeOK, LoadSteps, LoadAt, LoadGoto, LoadFails, Silent, file, request
  <1>1. CASE LoadOpen(l)
    BY <1>1 DEF LoadOpen
  <1>2. CASE LoadInit(l)
    BY <1>2 DEF LoadInit
  <1>3. CASE LoadCreateSchema(l)
    BY <1>3 DEF LoadCreateSchema
  <1>4. CASE LoadCheck(l)
    BY <1>4 DEF LoadCheck, KeepOpen
  <1>5. CASE LoadRows(l)
    <2>1. CASE LoadFails(l)
      BY <1>5, <2>1 DEF LoadRows
    <2>2. CASE ~ LoadFails(l)
      <3>1. copies[l] + 1 \in 0 .. MaxCopies
        BY <1>5, <2>2 DEF LoadRows
      <3>2. copies' = [copies EXCEPT ![l] = copies[l] + 1]
        BY <1>5, <2>2 DEF LoadRows
      <3>3. copies' \in [Loads -> 0 .. MaxCopies]
        BY <3>1, <3>2
      <3> QED BY <1>5, <2>2, <3>3 DEF LoadRows
    <2> QED BY <2>1, <2>2
  <1>6. CASE LoadCount(l)
    BY <1>6 DEF LoadCount, CountAndReport
  <1>7. CASE LoadClose(l)
    BY <1>7 DEF LoadClose
  <1>8. CASE Kill(l)
    BY <1>8 DEF Kill
  <1> QED BY <1>1, <1>2, <1>3, <1>4, <1>5, <1>6, <1>7, <1>8 DEF LoadStep

ServerStep == ServerOpen \/ ServerReady \/ ServerEnds

\* The steps of the server keep the types.
LEMMA ServerTyped == TypeOK /\ ServerStep => TypeOK'
  <1>0. NoReply \in Reply
    BY NoReplyType
  <1>1. TypeOK /\ (ServerOpen \/ ServerReady) => TypeOK'
    BY <1>0 DEF TypeOK, ServerOpen, ServerReady, UnchangedLoads, Silent, request
  <1>2. ASSUME TypeOK, ServerEnds PROVE TypeOK'
    <2>1. script' \in [Clients -> Seq(Stmt)] /\ did' \in [Clients -> Seq(Stmt)]
      BY <1>2 DEF ServerEnds
    <2>2. sql' \in [Clients -> Text] /\ text' \in [Clients -> Text]
      BY <1>2, NoTextType DEF ServerEnds
    <2> QED BY <1>0, <1>2, <2>1, <2>2 DEF TypeOK, ServerEnds, UnchangedLoads, Silent, Modes
  <1> QED BY <1>1, <1>2 DEF ServerStep

\* An answer is a reply, and leaves the request typed.
LEMMA AnswerTyped ==
    ASSUME TypeOK, NEW c \in Clients, NEW what \in {"ok", "failed"}, Answer(c, what)
    PROVE  /\ mu' \in Clients \cup {Nobody}
           /\ pc' \in [Clients -> {"idle", "waiting", "running"}]
           /\ mode' \in [Clients -> Modes]
           /\ sql' \in [Clients -> Text]
           /\ script' \in [Clients -> Seq(Stmt)]
           /\ text' \in [Clients -> Text]
           /\ did' \in [Clients -> Seq(Stmt)]
           /\ reply' \in Reply
  <1>1. reply' \in Reply
    BY DEF TypeOK, Answer, Reply
  <1> QED BY <1>1, NoTextType DEF TypeOK, Answer, Modes

\* The statements a request still has to run, and those that have run.
RequestTyped ==
    \A c \in Clients : pc[c] = "running" => Parses(sql[c])

\* The steps of a request keep the types.
LEMMA RequestKeepsTypes ==
    ASSUME TypeOK, RequestTyped, NEW c \in Clients, RequestStep(c)
    PROVE  TypeOK' /\ RequestTyped'
  <1>0. NoReply \in Reply
    BY NoReplyType
  <1>1. ASSUME NEW t \in Texts, NEW dry \in BOOLEAN, Arrive(c, t, dry)
        PROVE  TypeOK' /\ RequestTyped'
    <2>1. t \in Text /\ Lower(t) \in Text
      BY TextsAssumption, LowerType
    <2> QED
      BY <1>0, <1>1, <2>1
         DEF Arrive, TypeOK, RequestTyped, Silent, UnchangedFile, file, Modes
  <1>2. CASE Begin(c)
    <2>1. CASE QueryFails(c) /\ UnchangedFile
      <3>1. PICK what \in {"ok", "failed"} : Answer(c, what)
        BY <2>1 DEF QueryFails
      <3> QED
        BY <2>1, <3>1, AnswerTyped DEF TypeOK, RequestTyped, UnchangedFile, file, Answer
    <2>2. CASE Parses(sql[c]) /\ ~ QueryFails(c)
      <3>1. Query(sql[c]) \in Seq(Stmt) /\ Explain(sql[c]) \in Seq(Stmt)
        BY <2>2, StatementsType DEF TypeOK
      <3> QED
        BY <1>0, <1>2, <2>2, <3>1
           DEF Begin, TypeOK, RequestTyped, Silent, UnchangedFile, file
    <2> QED BY <1>2, <2>1, <2>2 DEF Begin
  <1>3. CASE RunStatement(c)
    <2>1. CASE QueryFails(c) /\ UNCHANGED <<schema, table, copies, wiped>>
      <3>1. PICK what \in {"ok", "failed"} : Answer(c, what)
        BY <2>1 DEF QueryFails
      <3> QED
        BY <1>3, <2>1, <3>1, AnswerTyped DEF TypeOK, RequestTyped, RunStatement, Answer
    <2>2. CASE ~ (QueryFails(c) /\ UNCHANGED <<schema, table, copies, wiped>>)
      <3>1. /\ Head(script[c]) \in Stmt /\ Tail(script[c]) \in Seq(Stmt)
            /\ Append(did[c], Head(script[c])) \in Seq(Stmt)
        BY <1>3, MoveHead DEF TypeOK, RunStatement
      <3>2. Effect(Head(script[c]))
        BY <1>3, <2>2 DEF RunStatement
      <3>3. schema' \in BOOLEAN /\ table' \in BOOLEAN
        BY <3>2, Zenon DEF Effect
      <3>4. copies' \in [Loads -> 0 .. MaxCopies] /\ wiped' \in SUBSET Loads
        BY <3>2, MaxCopiesAssumption DEF TypeOK, Effect
      <3> QED
        BY <1>0, <1>3, <2>2, <3>1, <3>3, <3>4 DEF TypeOK, RequestTyped, RunStatement, Silent
    <2> QED BY <2>1, <2>2
  <1>4. CASE TryLimit0(c)
    <2>1. CASE Answer(c, "ok") /\ UnchangedFile
      BY <2>1, AnswerTyped DEF TypeOK, RequestTyped, UnchangedFile, file, Answer
    <2>2. CASE ~ Answer(c, "ok")
      <3>1. Probe(sql[c]) \in Seq(Stmt)
        BY <1>4, StatementsType DEF TypeOK, RequestTyped, TryLimit0
      <3> QED
        BY <1>0, <1>4, <2>2, <3>1
           DEF TryLimit0, TypeOK, RequestTyped, Silent, UnchangedFile, file, Modes
    <2> QED BY <1>4, <2>1, <2>2 DEF TryLimit0
  <1>5. CASE ReadRows(c)
    <2>1. PICK what \in {"ok", "failed"} : Answer(c, what)
      BY <1>5 DEF ReadRows
    <2> QED
      BY <1>5, <2>1, AnswerTyped DEF ReadRows, TypeOK, RequestTyped, UnchangedFile, file, Answer
  <1> QED BY <1>1, <1>2, <1>3, <1>4, <1>5 DEF RequestStep

\* Only steps of requests touch pc and sql, except that the server's end clears them.
LEMMA TypedStep == TypeOK /\ RequestTyped /\ [Next]_vars => TypeOK' /\ RequestTyped'
  <1> SUFFICES ASSUME TypeOK, RequestTyped, [Next]_vars PROVE TypeOK' /\ RequestTyped'
    OBVIOUS
  <1>1. ASSUME NEW l \in Loads, LoadStep(l) PROVE TypeOK' /\ RequestTyped'
    <2>1. UNCHANGED <<pc, sql>>
      BY <1>1
         DEF LoadStep, LoadOpen, LoadInit, LoadCreateSchema, LoadCheck, KeepOpen,
             LoadRows, LoadCount,
             LoadClose, Kill, LoadAt, request
    <2> QED BY <1>1, <2>1, LoadTyped DEF RequestTyped
  <1>2. CASE ServerStep
    BY <1>2, ServerTyped
       DEF RequestTyped, ServerStep, ServerOpen, ServerReady, ServerEnds, request
  <1>3. ASSUME NEW c \in Clients, RequestStep(c) PROVE TypeOK' /\ RequestTyped'
    BY <1>3, RequestKeepsTypes
  <1>4. CASE UNCHANGED vars
    BY <1>4 DEF vars, file, request, TypeOK, RequestTyped
  <1> QED BY <1>1, <1>2, <1>3, <1>4 DEF Next, ServerStep

\* Every variable of the model keeps its type, with any number of clients and loads, and
\* any texts (load.go, server.go, engine.go).
THEOREM TypeCorrect == Spec => []TypeOK
  <1>1. Init => TypeOK /\ RequestTyped
    BY InitTyped DEF Init, RequestTyped
  <1> QED BY <1>1, TypedStep, PTL DEF Spec

-----------------------------------------------------------------------------
(* Loads *)

\* One process at a time has the file, and requests are served only by the one that is
\* the server.
OneHolder ==
    /\ \A l \in Loads : lpc[l] # "idle" => holder = l
    /\ server # "down" => holder = Server
    /\ \A c \in Clients : pc[c] # "idle" => server = "serving"

\* What a load has achieved at each of its steps.
LoadsSound ==
    \A l \in Loads :
        /\ lpc[l] = "check" => schema
        /\ lpc[l] \notin {"idle", "close"} => l \notin loaded
        /\ lpc[l] = "count" => copies[l] >= 1

LoadsInv == OneHolder /\ LoadsSound /\ CheckStillTrue /\ LoadsCount

\* A request, in a server that has the file, leaves alone the loads and the processes; it
\* keeps a schema, and the copies unless it wipes them all.
LEMMA RequestFrame ==
    ASSUME TypeOK, OneHolder, NEW c \in Clients, RequestStep(c)
    PROVE  /\ UNCHANGED <<holder, lpc, server, loaded, killed>>
           /\ server = "serving"
           /\ schema => schema'
           /\ \/ UNCHANGED <<copies, wiped>>
              \/ copies' = [l \in Loads |-> 0] /\ wiped' = Loads
  <1>1. ASSUME NEW t \in Texts, NEW dry \in BOOLEAN, Arrive(c, t, dry)
        PROVE  UNCHANGED <<holder, lpc, server, loaded, killed, schema, copies, wiped>>
               /\ server = "serving"
    BY <1>1 DEF Arrive, UnchangedFile, file
  <1>2. CASE Begin(c) \/ TryLimit0(c) \/ ReadRows(c)
    BY <1>2 DEF Begin, TryLimit0, ReadRows, OneHolder, UnchangedFile, file
  <1>3. CASE RunStatement(c)
    <2>1. UNCHANGED <<holder, lpc, server, loaded, killed>> /\ server = "serving"
      BY <1>3 DEF RunStatement, OneHolder
    <2>2. Effect(Head(script[c])) \/ UNCHANGED <<schema, table, copies, wiped>>
      BY <1>3 DEF RunStatement
    <2>3. ASSUME NEW s, Effect(s)
          PROVE  /\ schema => schema'
                 /\ \/ UNCHANGED <<copies, wiped>>
                    \/ copies' = [l \in Loads |-> 0] /\ wiped' = Loads
      BY <2>3 DEF Effect
    <2> QED BY <2>1, <2>2, <2>3
  <1> QED BY <1>1, <1>2, <1>3 DEF RequestStep

\* A step of a load is possible only when its process has the file, or nobody has.
LEMMA LoadFrame ==
    ASSUME TypeOK, OneHolder, NEW l \in Loads, LoadStep(l)
    PROVE  /\ server = "down" /\ UNCHANGED <<server, pc, sql, script, mode, text, did>>
           /\ reply' = NoReply
           /\ \A k \in Loads \ {l} : lpc[k] = "idle"
           /\ \A k \in Loads \ {l} : lpc'[k] = "idle" /\ copies'[k] = copies[k]
           /\ lpc'[l] # "idle" => holder' = l
  <1>1. holder = l \/ holder = Nobody
    BY DEF LoadStep, LoadOpen, LoadInit, LoadCreateSchema, LoadCheck, KeepOpen,
             LoadRows, LoadCount,
           LoadClose, Kill, LoadAt, Free, OneHolder
  <1>2. server = "down" /\ \A k \in Loads \ {l} : lpc[k] = "idle"
    BY <1>1, NamesAssumption DEF OneHolder
  <1>3. UNCHANGED <<server, pc, sql, script, mode, text, did>> /\ reply' = NoReply
    BY DEF LoadStep, LoadOpen, LoadInit, LoadCreateSchema, LoadCheck, KeepOpen,
             LoadRows, LoadCount,
           LoadClose, Kill, LoadAt, Silent, request
  <1>4. /\ \A k \in Loads \ {l} : lpc'[k] = lpc[k] /\ copies'[k] = copies[k]
        /\ lpc'[l] # "idle" => holder' = l
    <2> USE DEF TypeOK, LoadAt, LoadGoto, LoadFails, OneHolder, file
    <2>1. CASE LoadOpen(l) \/ LoadInit(l) \/ LoadCreateSchema(l)
      BY <2>1 DEF LoadOpen, LoadInit, LoadCreateSchema
    <2>2. CASE LoadCheck(l) \/ LoadRows(l)
      BY <2>2 DEF LoadCheck, KeepOpen, LoadRows
    <2>3. CASE LoadCount(l) \/ LoadClose(l) \/ Kill(l)
      BY <2>3 DEF LoadCount, CountAndReport, LoadClose, Kill
    <2> QED BY <2>1, <2>2, <2>3 DEF LoadStep
  <1> QED BY <1>2, <1>3, <1>4

\* A load's own step keeps what is known of it.
LEMMA OwnLoadStep ==
    ASSUME TypeOK, LoadsInv, NEW l \in Loads, LoadStep(l)
    PROVE  LoadsInv'
  <1>1. OneHolder'
    <2>1. server' = "down" /\ (\A k \in Loads : lpc'[k] # "idle" => holder' = k)
      BY LoadFrame DEF LoadsInv
    <2>2. \A c \in Clients : pc'[c] = "idle"
      BY LoadFrame DEF LoadsInv, OneHolder
    <2> QED BY <2>1, <2>2 DEF OneHolder
  <1>2. /\ \A k \in Loads \ {l} : lpc'[k] = "idle" /\ copies'[k] = copies[k]
        /\ \A k \in Loads \ {l} :
              /\ k \in loaded <=> k \in loaded'
              /\ k \in killed <=> k \in killed'
              /\ k \in wiped <=> k \in wiped'
    <2>1. loaded \ {l} = loaded' \ {l} /\ killed \ {l} = killed' \ {l} /\ wiped \ {l} = wiped' \ {l}
      BY DEF LoadStep, LoadOpen, LoadInit, LoadCreateSchema, LoadCheck, KeepOpen,
             LoadRows, LoadCount,
             LoadClose, Kill, LoadAt, LoadFails, CountAndReport
    <2> QED BY <2>1, LoadFrame DEF LoadsInv
  <1> DEFINE Mine ==
         /\ lpc[l] = "check" => schema
         /\ lpc[l] \notin {"idle", "close"} => l \notin loaded
         /\ lpc[l] = "count" => copies[l] >= 1
         /\ lpc[l] = "insert" => table
         /\ lpc[l] = "create" => schema /\ ~ table
         /\ l \notin killed => copies[l] <= 1
         /\ l \notin killed /\ l \notin loaded /\ lpc[l] # "count" => copies[l] = 0
         /\ l \in loaded /\ l \notin wiped => copies[l] >= 1
  <1>3. Mine'
    <2>1. Mine
      BY DEF LoadsInv, LoadsSound, CheckStillTrue, LoadsCount
    <2> USE <2>1 DEF TypeOK, LoadAt, LoadGoto, LoadFails, file
    <2>2. CASE LoadOpen(l)
      BY <2>2 DEF LoadOpen
    <2>3. CASE LoadInit(l)
      BY <2>3 DEF LoadInit
    <2>4. CASE LoadCreateSchema(l)
      BY <2>4 DEF LoadCreateSchema
    <2>5. CASE LoadCheck(l)
      <3>1. /\ lpc[l] = "check" /\ lpc'[l] \in {"insert", "create", "idle"}
            /\ lpc'[l] = "insert" => table
            /\ lpc'[l] = "create" => ~ table
            /\ UNCHANGED <<schema, table, copies, loaded, killed, wiped>>
        BY <2>5 DEF LoadCheck, KeepOpen
      <3> QED BY <3>1
    <2>6. CASE LoadRows(l)
      <3>1. CASE LoadFails(l)
        BY <2>6, <3>1 DEF LoadRows
      <3>2. CASE ~ LoadFails(l)
        <4>1. copies[l] \in Nat /\ copies'[l] = copies[l] + 1
          BY <2>6, <3>2, MaxCopiesAssumption DEF LoadRows
        <4>2. lpc'[l] = "count" /\ UNCHANGED <<schema, loaded, killed, wiped>>
          BY <2>6, <3>2 DEF LoadRows
        <4>3. l \notin loaded /\ (l \notin killed => copies[l] = 0)
          BY <2>6 DEF LoadRows
        <4> QED BY <4>1, <4>2, <4>3
      <3> QED BY <3>1, <3>2
    <2>7. CASE LoadCount(l)
      BY <2>7 DEF LoadCount, CountAndReport
    <2>8. CASE LoadClose(l)
      BY <2>8 DEF LoadClose
    <2>9. CASE Kill(l)
      BY <2>9 DEF Kill
    <2> QED BY <2>2, <2>3, <2>4, <2>5, <2>6, <2>7, <2>8, <2>9 DEF LoadStep
  <1>4. ASSUME NEW k \in Loads \ {l}
        PROVE  /\ lpc'[k] = "idle"
               /\ k \notin killed' => copies'[k] <= 1
               /\ k \notin killed' /\ k \notin loaded' => copies'[k] = 0
               /\ k \in loaded' /\ k \notin wiped' => copies'[k] >= 1
    <2>1. lpc[k] = "idle"
      BY LoadFrame DEF LoadsInv
    <2> QED BY <1>2, <2>1 DEF LoadsInv, LoadsCount
  <1> QED BY <1>1, <1>3, <1>4 DEF LoadsInv, LoadsSound, CheckStillTrue, LoadsCount

\* The other steps leave each load where it is, and change the file only while no load
\* has it.
LEMMA OtherLoadStep ==
    ASSUME TypeOK, LoadsInv,
           ServerStep \/ (\E c \in Clients : RequestStep(c)) \/ UNCHANGED vars
    PROVE  LoadsInv'
  <1>1. CASE ServerStep
    BY <1>1, NamesAssumption
       DEF ServerStep, ServerOpen, ServerReady, ServerEnds, UnchangedLoads, Free, request, TypeOK,
           LoadsInv, OneHolder, LoadsSound, CheckStillTrue, LoadsCount
  <1>2. ASSUME NEW c \in Clients, RequestStep(c) PROVE LoadsInv'
    <2>1. /\ UNCHANGED <<holder, lpc, server, loaded, killed>>
          /\ server = "serving"
          /\ \/ UNCHANGED <<copies, wiped>>
             \/ copies' = [l \in Loads |-> 0] /\ wiped' = Loads
      BY <1>2, RequestFrame DEF LoadsInv
    <2>2. \A l \in Loads : lpc[l] = "idle"
      BY <2>1, NamesAssumption DEF LoadsInv, OneHolder
    <2>3. OneHolder'
      BY <2>1 DEF LoadsInv, OneHolder
    <2> QED BY <2>1, <2>2, <2>3 DEF LoadsInv, LoadsSound, CheckStillTrue, LoadsCount
  <1>3. CASE UNCHANGED vars
    BY <1>3 DEF vars, file, request, LoadsInv, OneHolder, LoadsSound, CheckStillTrue, LoadsCount
  <1> QED BY <1>1, <1>2, <1>3

\* What is known of loads is true at first and kept by every step.
LEMMA LoadsInvariant == Spec => []LoadsInv
  <1>1. Init => LoadsInv
    BY DEF Init, LoadsInv, OneHolder, LoadsSound, CheckStillTrue, LoadsCount
  <1>2. TypeOK /\ LoadsInv /\ [Next]_vars => LoadsInv'
    BY OwnLoadStep, OtherLoadStep DEF Next, ServerStep
  <1> QED BY <1>1, <1>2, TypeCorrect, PTL DEF Spec

\* A file whose load is repeated until it reports success is in the table exactly once,
\* unless a load of it was killed or a client removed rows (load.go:51-122).
THEOREM LoadedOnce == Spec => []LoadsCount
  BY LoadsInvariant, PTL DEF LoadsInv

\* No other process gets between a load's look for the table and the statement it then
\* chooses (load.go:83-105).
THEOREM ChecksHold == Spec => []CheckStillTrue
  BY LoadsInvariant, PTL DEF LoadsInv

-----------------------------------------------------------------------------
(* Requests *)

\* The statements a request in this mode has to run in all.
Script(c) ==
    CASE mode[c] = "query"   -> Query(sql[c])
      [] mode[c] = "explain" -> Explain(sql[c])
      [] mode[c] = "limit0"  -> Explain(sql[c]) \o Probe(sql[c])

\* One request, wherever it has got to.
Sound(c) ==
    /\ sql[c] = NoText \/ sql[c] = Lower(text[c])
    /\ pc[c] # "running" => did[c] = <<>> /\ script[c] = <<>> /\ mode[c] # "limit0"
    /\ pc[c] = "running" => did[c] \o script[c] = Script(c)
    /\ pc[c] # "idle" => sql[c] = Lower(text[c])
    /\ did[c] # <<>> => KnownCalls(sql[c])
    /\ mode[c] = "limit0" => LimitParses(sql[c]) /\ KnownCalls(sql[c])

RequestsInv == \A c \in Clients : Sound(c)

\* A request that has been answered is sound.
LEMMA AnswerSound ==
    ASSUME TypeOK, NEW c \in Clients, NEW what, Answer(c, what)
    PROVE  Sound(c)'
  <1>1. /\ pc'[c] = "idle" /\ did'[c] = <<>> /\ script'[c] = <<>> /\ mode'[c] = "query"
        /\ sql'[c] = NoText
    BY DEF TypeOK, Answer
  <1> QED BY <1>1 DEF Sound

\* A request's own step keeps it sound.
LEMMA OwnSoundStep ==
    ASSUME TypeOK, RequestTyped, NEW c \in Clients, Sound(c), RequestStep(c)
    PROVE  Sound(c)'
  <1>0. /\ did[c] \in Seq(Stmt) /\ script[c] \in Seq(Stmt) /\ sql[c] \in Text
        /\ mode[c] \in {"query", "explain", "limit0"}
    BY DEF TypeOK, Modes
  <1>1. ASSUME NEW t \in Texts, NEW dry \in BOOLEAN, Arrive(c, t, dry)
        PROVE  Sound(c)'
    <2>1. /\ pc[c] = "idle" /\ pc'[c] = "waiting" /\ mode'[c] \in {"query", "explain"}
          /\ sql'[c] = Lower(t) /\ text'[c] = t
          /\ script'[c] = script[c] /\ did'[c] = did[c]
      BY <1>1 DEF Arrive, TypeOK
    <2> QED BY <2>1 DEF Sound
  <1>2. ASSUME NEW what, Answer(c, what) PROVE Sound(c)'
    BY <1>2, AnswerSound
  <1>3. CASE Begin(c)
    <2>1. CASE QueryFails(c)
      BY <1>2, <2>1 DEF QueryFails
    <2>2. CASE ~ QueryFails(c)
      <3>1. /\ pc[c] = "waiting" /\ pc'[c] = "running" /\ Parses(sql[c])
            /\ mode'[c] = mode[c] /\ sql'[c] = sql[c] /\ text'[c] = text[c] /\ did'[c] = did[c]
            /\ script'[c] = IF mode[c] = "query" THEN Query(sql[c]) ELSE Explain(sql[c])
        BY <1>3, <2>2 DEF Begin, TypeOK
      <3>2. did[c] = <<>> /\ mode[c] \in {"query", "explain"}
        BY <1>0, <3>1 DEF Sound
      <3>3. Query(sql[c]) \in Seq(Stmt) /\ Explain(sql[c]) \in Seq(Stmt)
        BY <1>0, <3>1, StatementsType
      <3>4. did'[c] \o script'[c] = script'[c]
        BY <3>1, <3>2, <3>3
      <3>5. script'[c] = Script(c)'
        BY <3>1, <3>2 DEF Script, Query, Explain
      <3>6. sql[c] = Lower(text[c])
        BY <3>1 DEF Sound
      <3> QED BY <3>1, <3>2, <3>4, <3>5, <3>6 DEF Sound
    <2> QED BY <2>1, <2>2
  <1>4. CASE RunStatement(c)
    <2>1. CASE QueryFails(c)
      BY <1>2, <2>1 DEF QueryFails
    <2>2. CASE ~ QueryFails(c)
      <3>1. /\ pc[c] = "running" /\ script[c] # <<>> /\ KnownCalls(sql[c])
            /\ pc'[c] = pc[c] /\ mode'[c] = mode[c] /\ sql'[c] = sql[c] /\ text'[c] = text[c]
            /\ script'[c] = Tail(script[c]) /\ did'[c] = Append(did[c], Head(script[c]))
        BY <1>4, <2>2 DEF RunStatement, TypeOK
      <3>2. did'[c] \o script'[c] = did[c] \o script[c]
        <4> DEFINE d == did[c]  s == script[c]
        <4>1. d \in Seq(Stmt) /\ s \in Seq(Stmt) /\ s # <<>>
          BY <1>0, <3>1
        <4> HIDE DEF d, s
        <4>2. Append(d, Head(s)) \o Tail(s) = d \o s
          BY <4>1, MoveHead
        <4> QED BY <3>1, <4>2 DEF d, s
      <3>3. Script(c)' = Script(c)
        BY <3>1 DEF Script, Query, Explain, Probe, Statements
      <3>4. KnownCalls(sql'[c])
        BY <3>1
      <3> QED BY <3>1, <3>2, <3>3, <3>4 DEF Sound
    <2> QED BY <2>1, <2>2
  <1>5. CASE TryLimit0(c)
    <2>1. CASE Answer(c, "ok")
      BY <1>2, <2>1
    <2>2. CASE ~ Answer(c, "ok")
      <3>1. /\ pc[c] = "running" /\ script[c] = <<>> /\ mode[c] = "explain" /\ LimitParses(sql[c])
            /\ pc'[c] = pc[c] /\ mode'[c] = "limit0" /\ sql'[c] = sql[c] /\ text'[c] = text[c]
            /\ script'[c] = Probe(sql[c]) /\ did'[c] = did[c]
        BY <1>5, <2>2 DEF TryLimit0, TypeOK
      <3>2. did[c] = Explain(sql[c]) /\ Len(did[c]) >= 1
        BY <1>0, <3>1, StatementsType DEF Sound, Script, RequestTyped
      <3>3. KnownCalls(sql[c])
        BY <3>2 DEF Sound
      <3>4. did'[c] \o script'[c] = Script(c)'
        BY <3>1, <3>2 DEF Script
      <3> QED BY <3>1, <3>3, <3>4 DEF Sound
    <2> QED BY <2>1, <2>2
  <1>6. CASE ReadRows(c)
    BY <1>2, <1>6 DEF ReadRows
  <1> QED BY <1>1, <1>3, <1>4, <1>5, <1>6 DEF RequestStep

\* A step of one request leaves the others alone.
LEMMA OthersUnchanged ==
    ASSUME TypeOK, NEW c \in Clients, NEW d \in Clients, c # d, RequestStep(c)
    PROVE  /\ pc'[d] = pc[d] /\ mode'[d] = mode[d] /\ sql'[d] = sql[d] /\ text'[d] = text[d]
           /\ script'[d] = script[d] /\ did'[d] = did[d]
  <1> USE DEF TypeOK
  <1>1. ASSUME NEW t \in Texts, NEW dry \in BOOLEAN, Arrive(c, t, dry)
        PROVE  /\ pc'[d] = pc[d] /\ mode'[d] = mode[d] /\ sql'[d] = sql[d] /\ text'[d] = text[d]
               /\ script'[d] = script[d] /\ did'[d] = did[d]
    BY <1>1 DEF Arrive
  <1>2. CASE Begin(c)
    BY <1>2 DEF Begin, QueryFails, Answer
  <1>3. CASE RunStatement(c)
    BY <1>3 DEF RunStatement, QueryFails, Answer
  <1>4. CASE TryLimit0(c)
    BY <1>4 DEF TryLimit0, Answer
  <1>5. CASE ReadRows(c)
    BY <1>5 DEF ReadRows, Answer
  <1> QED BY <1>1, <1>2, <1>3, <1>4, <1>5 DEF RequestStep

\* Every step keeps the requests sound.
LEMMA SoundStep ==
    TypeOK /\ RequestTyped /\ OneHolder /\ RequestsInv /\ [Next]_vars => RequestsInv'
  <1> SUFFICES ASSUME TypeOK, RequestTyped, OneHolder, RequestsInv, [Next]_vars
               PROVE  RequestsInv'
    OBVIOUS
  <1>1. ASSUME UNCHANGED <<pc, mode, sql, text, script, did>> PROVE RequestsInv'
    BY <1>1 DEF RequestsInv, Sound, Script
  <1>2. ASSUME NEW l \in Loads, LoadStep(l) PROVE RequestsInv'
    BY <1>1, <1>2, LoadFrame
  <1>3. CASE ServerStep
    <2>1. CASE ServerEnds
      BY <2>1 DEF ServerEnds, RequestsInv, Sound
    <2> QED BY <1>1, <1>3, <2>1 DEF ServerStep, ServerOpen, ServerReady, request
  <1>4. ASSUME NEW c \in Clients, RequestStep(c) PROVE RequestsInv'
    <2> SUFFICES ASSUME NEW d \in Clients PROVE Sound(d)'
      BY DEF RequestsInv
    <2>1. CASE d = c
      BY <1>4, <2>1, OwnSoundStep DEF RequestsInv
    <2>2. CASE d # c
      BY <1>4, <2>2, OthersUnchanged DEF RequestsInv, Sound, Script
    <2> QED BY <2>1, <2>2
  <1>5. CASE UNCHANGED vars
    BY <1>1, <1>5 DEF vars, request
  <1> QED BY <1>2, <1>3, <1>4, <1>5 DEF Next, ServerStep

\* Requests are sound in every state.
LEMMA RequestsInvariant == Spec => [](TypeOK /\ RequestTyped /\ OneHolder /\ RequestsInv)
  <1>1. Init => TypeOK /\ RequestTyped /\ RequestsInv
    BY InitTyped DEF Init, RequestTyped, RequestsInv, Sound
  <1>2. Spec => []OneHolder
    BY LoadsInvariant, PTL DEF LoadsInv
  <1> QED BY <1>1, <1>2, TypedStep, SoundStep, PTL DEF Spec

\* What has run for a request is where its script starts.
LEMMA DidIsPrefix ==
    ASSUME NEW S, NEW a \in Seq(S), NEW b \in Seq(S), NEW i \in DOMAIN a
    PROVE  i \in DOMAIN (a \o b) /\ (a \o b)[i] = a[i]
  OBVIOUS

\* Two single statements, one after the other.
LEMMA TwoSingles ==
    ASSUME NEW S, NEW a \in Seq(S), NEW b \in Seq(S), Len(a) = 1, Len(b) = 1
    PROVE  \A j \in DOMAIN (a \o b) : (a \o b)[j] = a[1] \/ (a \o b)[j] = b[1]
  <1>1. Len(a \o b) = 2 /\ a \o b \in Seq(S)
    OBVIOUS
  <1>2. DOMAIN (a \o b) = {1, 2}
    BY <1>1
  <1>3. (a \o b)[1] = a[1] /\ (a \o b)[2] = b[1]
    OBVIOUS
  <1> QED BY <1>2, <1>3

\* What has run is where the whole starts, and is the whole when nothing is left.
LEMMA WholePrefix ==
    ASSUME NEW S, NEW a \in Seq(S), NEW b \in Seq(S)
    PROVE  /\ a = SubSeq(a \o b, 1, Len(a))
           /\ b = <<>> => a = a \o b
  OBVIOUS

\* No statement of the dry run of a text that is safe to dry-run changes anything.
LEMMA SafeScript ==
    ASSUME NEW t \in Text, SafeToDryRun(t), Parses(Lower(t))
    PROVE  /\ \A i \in DOMAIN Explain(Lower(t)) : ~ Changes(Explain(Lower(t))[i])
           /\ \A i \in DOMAIN Probe(Lower(t)) : ~ Changes(Probe(Lower(t))[i])
           /\ Len(Explain(Lower(t))) = 1 /\ Len(Probe(Lower(t))) = 1
  <1> DEFINE u == Lower(t)
  <1>1. /\ u.second = "none" /\ u.first # "create"
        /\ u.tail = "comment" => u.first = "select"
    <2>1. CASE ~ t.commented /\ t.first \in LoadKinds
      <3>1. u.first = "insert" /\ u.second = "none" /\ u.tail = "none"
        BY <2>1 DEF Lower, LowerLoadData, LoadToInsert, Text
      <3> QED BY <3>1
    <2>2. CASE ~ (~ t.commented /\ t.first \in LoadKinds)
      <3>1. u.first = t.first /\ u.second = t.second /\ u.tail = t.tail
        BY <2>2 DEF Lower, LowerLoadData, Text
      <3> QED BY <2>2, <3>1 DEF SafeToDryRun
    <2> QED BY <2>1, <2>2
  <1> HIDE DEF u
  <1>2. /\ Explain(u) = <<[kind |-> u.first, as |-> "explained"]>>
        /\ Probe(u) = <<[kind |-> u.first, as |-> IF u.tail = "comment" THEN "itself" ELSE "limited"]>>
    BY <1>1 DEF Explain, Probe, Statements
  <1>3. /\ ~ Changes([kind |-> u.first, as |-> "explained"])
        /\ ~ Changes([kind |-> u.first, as |-> IF u.tail = "comment" THEN "itself" ELSE "limited"])
    BY <1>1 DEF Changes
  <1>4. /\ \A i \in DOMAIN Explain(u) : ~ Changes(Explain(u)[i])
        /\ \A i \in DOMAIN Probe(u) : ~ Changes(Probe(u)[i])
        /\ Len(Explain(u)) = 1 /\ Len(Probe(u)) = 1
    BY <1>2, <1>3
  <1> QED BY <1>4 DEF u

\* A dry run of a request with one statement that is not CREATE TABLE AS, whose comment,
\* if there is one at its end, follows a query, or of a LOAD DATA, changes nothing
\* (engine.go:77-108).
THEOREM DryRunsHarmless == Spec => []DryRunsChangeNothing
  <1>1. ASSUME TypeOK, RequestTyped, RequestsInv, NEW c \in Clients, mode[c] # "query",
               SafeToDryRun(text[c]), NEW i \in DOMAIN did[c]
        PROVE  ~ Changes(did[c][i])
    <2>1. /\ did[c] \in Seq(Stmt) /\ script[c] \in Seq(Stmt) /\ text[c] \in Text
          /\ mode[c] \in {"explain", "limit0"}
      BY <1>1 DEF TypeOK, Modes
    <2>2. pc[c] = "running" /\ did[c] \o script[c] = Script(c) /\ sql[c] = Lower(text[c])
      <3>1. did[c] # <<>>
        BY <1>1
      <3> QED BY <1>1, <3>1 DEF RequestsInv, Sound
    <2>3. i \in DOMAIN Script(c) /\ Script(c)[i] = did[c][i]
      <3>1. i \in DOMAIN (did[c] \o script[c]) /\ (did[c] \o script[c])[i] = did[c][i]
        BY <1>1, <2>1, DidIsPrefix
      <3> QED BY <2>2, <3>1
    <2>4. Parses(Lower(text[c]))
      BY <1>1, <2>2 DEF RequestTyped
    <2> DEFINE e == Explain(Lower(text[c]))
               p == Probe(Lower(text[c]))
    <2>5. /\ \A j \in DOMAIN e : ~ Changes(e[j])
          /\ \A j \in DOMAIN p : ~ Changes(p[j])
          /\ Len(e) = 1 /\ Len(p) = 1 /\ e \in Seq(Stmt) /\ p \in Seq(Stmt)
      BY <1>1, <2>1, <2>4, SafeScript, StatementsType, LowerType
    <2>6. Script(c) = e \/ Script(c) = e \o p
      BY <2>1, <2>2 DEF Script
    <2> HIDE DEF e, p
    <2>7. \A j \in DOMAIN (e \o p) : (e \o p)[j] = e[1] \/ (e \o p)[j] = p[1]
      BY <2>5, TwoSingles
    <2>8. 1 \in DOMAIN e /\ 1 \in DOMAIN p
      BY <2>5
    <2> QED BY <2>3, <2>5, <2>6, <2>7, <2>8
  <1>2. TypeOK /\ RequestTyped /\ RequestsInv => DryRunsChangeNothing
    BY <1>1 DEF DryRunsChangeNothing
  <1> QED BY <1>2, RequestsInvariant, PTL

-----------------------------------------------------------------------------
(* Answers *)

\* A request that runs holds Engine.mu.
MuHeld == \A c \in Clients : pc[c] = "running" => mu = c

\* Nobody has undone the last of the statements that have run for a request.
Undisturbed ==
    \A c \in Clients :
        pc[c] = "running" /\ did[c] # <<>> => Stands(did[c][Len(did[c])])

\* A statement that is appended is the last one.
LEMMA LastAppended ==
    ASSUME NEW S, NEW a \in Seq(S), NEW e \in S
    PROVE  Append(a, e)[Len(Append(a, e))] = e
  OBVIOUS

\* Only the request that holds Engine.mu runs statements, and it leaves what the last one
\* has done as it is.
LEMMA OwnStatementStands ==
    ASSUME TypeOK, RequestsInv, MuHeld, Undisturbed, NEW c \in Clients, RequestStep(c),
           pc'[c] = "running", did'[c] # <<>>
    PROVE  Stands(did[c][Len(did[c])])'
  <1>1. CASE RunStatement(c)
    <2>1. CASE QueryFails(c)
      BY <2>1 DEF QueryFails, Answer, TypeOK
    <2>2. CASE ~ QueryFails(c)
      <3> DEFINE s == Head(script[c])
      <3>1. /\ Runnable(s) /\ Effect(s) /\ did' = [did EXCEPT ![c] = Append(@, s)]
            /\ script[c] # <<>>
        BY <1>1, <2>2 DEF RunStatement
      <3>2. did[c] \in Seq(Stmt) /\ s \in Stmt
        BY <3>1 DEF TypeOK
      <3> HIDE DEF s
      <3>3. did'[c] = Append(did[c], s)
        BY <3>1 DEF TypeOK
      <3>4. did'[c][Len(did'[c])] = s
        BY <3>2, <3>3, LastAppended
      <3>5. /\ schema' = (schema \/ (s.kind = "createSchema" /\ Changes(s)))
            /\ table' = ((table \/ (s.kind = "create" /\ Changes(s)))
                            /\ ~ (s.kind = "drop" /\ Changes(s)))
            /\ Removes(s) => copies' = [l \in Loads |-> 0]
        BY <3>1 DEF Effect
      <3>6. s.kind \in {"select", "insert", "delete"} => table
        BY <3>1 DEF Runnable
      <3>7. /\ s.kind = "createSchema" /\ Changes(s) => schema'
            /\ s.kind = "create" /\ Changes(s) => table'
            /\ s.kind \in {"select", "insert", "delete"} => table'
            /\ s.kind = "drop" /\ Changes(s) => ~ table'
        BY <3>5, <3>6, Zenon
      <3>8. Removes(s) => \A l \in Loads : copies'[l] = 0
        BY <3>5
      <3> QED BY <3>4, <3>7, <3>8 DEF Stands, Changes, Removes
    <2> QED BY <2>1, <2>2
  <1>2. CASE ~ RunStatement(c)
    <2>1. UNCHANGED <<schema, table, copies>>
      BY <1>2 DEF RequestStep, Arrive, Begin, TryLimit0, ReadRows, UnchangedFile, file
    <2>2. pc[c] = "running" /\ did'[c] = did[c]
      <3>1. CASE Begin(c)
        <4>1. CASE QueryFails(c)
          BY <4>1 DEF QueryFails, Answer, TypeOK
        <4>2. CASE ~ QueryFails(c)
          <5>1. pc[c] = "waiting" /\ did'[c] = did[c]
            BY <3>1, <4>2 DEF Begin
          <5>2. did[c] = <<>>
            BY <5>1 DEF RequestsInv, Sound
          <5> QED BY <5>1, <5>2
        <4> QED BY <4>1, <4>2
      <3>2. ASSUME NEW t \in Texts, NEW dry \in BOOLEAN, Arrive(c, t, dry) PROVE FALSE
        BY <3>2 DEF Arrive, TypeOK
      <3>3. CASE ReadRows(c)
        BY <3>3 DEF ReadRows, Answer, TypeOK
      <3>4. CASE TryLimit0(c)
        BY <3>4 DEF TryLimit0, Answer, TypeOK
      <3> QED BY <1>2, <3>1, <3>2, <3>3, <3>4 DEF RequestStep
    <2>3. Stands(did[c][Len(did[c])])
      BY <2>2 DEF Undisturbed
    <2> QED BY <2>1, <2>2, <2>3 DEF Stands, Changes, Removes
  <1> QED BY <1>1, <1>2

\* A request that runs after a step of its own holds Engine.mu.
LEMMA RunsHolding ==
    ASSUME TypeOK, MuHeld, NEW c \in Clients, RequestStep(c), pc'[c] = "running"
    PROVE  mu' = c
  <1>1. ASSUME NEW what PROVE ~ Answer(c, what)
    BY DEF Answer, TypeOK
  <1>2. ~ QueryFails(c)
    BY <1>1 DEF QueryFails
  <1>3. CASE Begin(c)
    BY <1>2, <1>3 DEF Begin
  <1>4. CASE RunStatement(c) \/ TryLimit0(c)
    BY <1>1, <1>2, <1>4 DEF RunStatement, TryLimit0, MuHeld
  <1>5. CASE ReadRows(c)
    BY <1>1, <1>5 DEF ReadRows
  <1>6. ASSUME NEW t \in Texts, NEW dry \in BOOLEAN, Arrive(c, t, dry) PROVE FALSE
    BY <1>6 DEF Arrive, TypeOK
  <1> QED BY <1>3, <1>4, <1>5, <1>6 DEF RequestStep

\* A step of one request does not take Engine.mu from another.
LEMMA MuKept ==
    ASSUME NEW c \in Clients, RequestStep(c), mu # c, mu # Nobody
    PROVE  mu' = mu
  <1>1. ASSUME NEW what, Answer(c, what) PROVE mu' = mu
    BY <1>1 DEF Answer
  <1>2. QueryFails(c) => mu' = mu
    BY <1>1 DEF QueryFails
  <1> QED
    BY <1>1, <1>2 DEF RequestStep, Arrive, Begin, MuFree, RunStatement, TryLimit0, ReadRows

\* Engine.mu is held from a text's first statement until its last row is read, so nobody
\* undoes meanwhile what its statements have done.
LEMMA HeldStep ==
    /\ TypeOK /\ RequestTyped /\ OneHolder /\ RequestsInv /\ MuHeld /\ Undisturbed
    /\ [Next]_vars
    => MuHeld' /\ Undisturbed'
  <1> SUFFICES ASSUME TypeOK, RequestTyped, OneHolder, RequestsInv, MuHeld, Undisturbed,
                      [Next]_vars
               PROVE  MuHeld' /\ Undisturbed'
    OBVIOUS
  <1>1. ASSUME UNCHANGED <<mu, pc, did, schema, table, copies>> PROVE MuHeld' /\ Undisturbed'
    BY <1>1 DEF MuHeld, Undisturbed, Stands, Changes, Removes
  <1>2. ASSUME \A c \in Clients : pc'[c] = "idle" PROVE MuHeld' /\ Undisturbed'
    BY <1>2 DEF MuHeld, Undisturbed
  <1>3. ASSUME NEW l \in Loads, LoadStep(l) PROVE MuHeld' /\ Undisturbed'
    <2>1. server # "serving" /\ pc' = pc
      BY <1>3, LoadFrame
    <2>2. \A c \in Clients : pc[c] = "idle"
      BY <2>1 DEF OneHolder
    <2> QED BY <1>2, <2>1, <2>2
  <1>4. CASE ServerStep
    <2>1. CASE ServerEnds
      BY <1>2, <2>1 DEF ServerEnds
    <2>2. CASE ServerOpen \/ ServerReady
      BY <1>1, <2>2 DEF ServerOpen, ServerReady, UnchangedLoads, request
    <2> QED BY <1>4, <2>1, <2>2 DEF ServerStep
  <1>5. ASSUME NEW c \in Clients, RequestStep(c) PROVE MuHeld' /\ Undisturbed'
    <2>1. ASSUME NEW d \in Clients, pc'[d] = "running" PROVE mu' = d
      <3>1. CASE d = c
        BY <1>5, <2>1, <3>1, RunsHolding
      <3>2. CASE d # c
        <4>1. pc[d] = "running" /\ mu = d
          BY <1>5, <2>1, <3>2, OthersUnchanged DEF MuHeld
        <4>2. mu # Nobody
          BY <4>1, NamesAssumption
        <4> QED BY <1>5, <3>2, <4>1, <4>2, MuKept
      <3> QED BY <3>1, <3>2
    <2>2. ASSUME NEW d \in Clients, pc'[d] = "running", did'[d] # <<>>
          PROVE  Stands(did[d][Len(did[d])])'
      <3>1. CASE d = c
        BY <1>5, <2>2, <3>1, OwnStatementStands
      <3>2. CASE d # c
        <4>1. pc[d] = "running" /\ did'[d] = did[d] /\ mu = d
          BY <1>5, <2>2, <3>2, OthersUnchanged DEF MuHeld
        <4>2. ~ RunStatement(c)
          BY <3>2, <4>1 DEF RunStatement, MuHeld
        <4>3. UNCHANGED <<schema, table, copies>>
          BY <1>5, <4>2
             DEF RequestStep, Arrive, Begin, TryLimit0, ReadRows, UnchangedFile, file
        <4>4. Stands(did[d][Len(did[d])])
          BY <2>2, <4>1 DEF Undisturbed
        <4> QED BY <4>1, <4>3, <4>4 DEF Stands, Changes, Removes
      <3> QED BY <3>1, <3>2
    <2> QED BY <2>1, <2>2 DEF MuHeld, Undisturbed
  <1>6. CASE UNCHANGED vars
    BY <1>1, <1>6 DEF vars, request, file
  <1> QED BY <1>3, <1>4, <1>5, <1>6 DEF Next, ServerStep

\* In every state requests are sound and what they have done last stands.
LEMMA HeldInvariant ==
    Spec => [](TypeOK /\ RequestTyped /\ OneHolder /\ RequestsInv /\ MuHeld /\ Undisturbed)
  <1>1. Init => MuHeld /\ Undisturbed
    BY DEF Init, MuHeld, Undisturbed
  <1> QED BY <1>1, RequestsInvariant, HeldStep, PTL DEF Spec

\* What a request, not a dry run, may be told: of success when all of its text has run,
\* and in any case when what ran is the start of its text and its last effect stands.
LEMMA AnswerMatches ==
    ASSUME TypeOK, RequestsInv, Undisturbed, NEW c \in Clients, NEW what, Answer(c, what),
           mode[c] = "query", UNCHANGED <<schema, table, copies>>,
           pc[c] = "running" \/ did[c] = <<>>,
           what = "ok" => pc[c] = "running" /\ script[c] = <<>>
    PROVE  AnswersMatchEffects'
  <1> DEFINE all == Query(sql[c])
             ran == did[c]
  <1>1. ran \in Seq(Stmt) /\ script[c] \in Seq(Stmt)
    BY DEF TypeOK
  <1>2. pc[c] = "running" => ran \o script[c] = all
    BY DEF RequestsInv, Sound, Script
  <1>3. reply' = [said |-> what, dry |-> FALSE, sql |-> sql[c], did |-> did[c]]
    BY DEF Answer
  <1>4. Query(reply.sql)' = all
    BY <1>3 DEF Query, Statements
  <1>5. ran # <<>> => Stands(ran[Len(ran)])
    BY DEF Undisturbed
  <1> HIDE DEF all
  <1>6. ran = SubSeq(all, 1, Len(ran))
    <2>1. CASE pc[c] = "running"
      BY <1>1, <1>2, <2>1, WholePrefix
    <2>2. CASE ran = <<>>
      BY <2>2
    <2> QED BY <2>1, <2>2
  <1>7. what = "ok" => ran = all
    BY <1>1, <1>2, WholePrefix
  <1>8. reply'.said = what /\ reply'.did = ran
    BY <1>3
  <1>9. reply'.did # <<>> => Stands(reply.did[Len(reply.did)])'
    BY <1>5, <1>8 DEF Stands, Changes, Removes
  <1> QED BY <1>4, <1>6, <1>7, <1>8, <1>9 DEF AnswersMatchEffects

\* A client is told that its text has run only if all of it has; otherwise the statements
\* that ran are the first ones of its text; and what the last of them did still stands
\* (engine.go:111-152, server.go:107-162, 268-302).
THEOREM AnswersTrue == Spec => []AnswersMatchEffects
  <1>1. Init => AnswersMatchEffects
    BY DEF Init, AnswersMatchEffects, NoReply
  <1>2. ASSUME TypeOK, RequestTyped, OneHolder, RequestsInv, MuHeld, Undisturbed,
               AnswersMatchEffects, [Next]_vars
        PROVE  AnswersMatchEffects'
    <2>1. ASSUME reply' = NoReply PROVE AnswersMatchEffects'
      BY <2>1 DEF AnswersMatchEffects, NoReply
    <2>2. ASSUME NEW c \in Clients, NEW what, Answer(c, what), mode[c] # "query"
          PROVE  AnswersMatchEffects'
      BY <2>2 DEF Answer, AnswersMatchEffects
    <2>3. ASSUME NEW c \in Clients, RequestStep(c) PROVE AnswersMatchEffects'
      <3>1. CASE Begin(c) /\ QueryFails(c)
        <4>1. did[c] = <<>> /\ UNCHANGED <<schema, table, copies>>
          BY <1>2, <3>1 DEF Begin, RequestsInv, Sound, UnchangedFile, file
        <4>2. CASE mode[c] = "query"
          <5>1. Answer(c, "failed")
            BY <3>1, <4>2 DEF QueryFails
          <5> QED BY <1>2, <4>1, <4>2, <5>1, AnswerMatches
        <4> QED BY <2>2, <3>1, <4>2 DEF QueryFails
      <3>2. CASE RunStatement(c) /\ QueryFails(c)
        <4>1. CASE mode[c] = "query"
          <5>1. Answer(c, "failed") /\ pc[c] = "running"
            BY <3>2, <4>1 DEF QueryFails, RunStatement
          <5>2. UNCHANGED <<schema, table, copies>>
            BY <1>2, <3>2, <5>1 DEF RunStatement, Answer, TypeOK
          <5> QED BY <1>2, <4>1, <5>1, <5>2, AnswerMatches
        <4> QED BY <2>2, <3>2, <4>1 DEF QueryFails
      <3>3. CASE ReadRows(c)
        <4>1. CASE mode[c] = "query"
          <5>1. PICK what : Answer(c, what)
            BY <3>3 DEF ReadRows
          <5>2. /\ pc[c] = "running" /\ script[c] = <<>>
                /\ UNCHANGED <<schema, table, copies>>
            BY <3>3 DEF ReadRows, UnchangedFile, file
          <5> QED BY <1>2, <4>1, <5>1, <5>2, AnswerMatches
        <4> QED BY <2>2, <3>3, <4>1 DEF ReadRows
      <3>4. CASE TryLimit0(c)
        BY <2>1, <2>2, <3>4 DEF TryLimit0, Silent
      <3>5. ASSUME NEW t \in Texts, NEW dry \in BOOLEAN, Arrive(c, t, dry)
            PROVE  AnswersMatchEffects'
        BY <2>1, <3>5 DEF Arrive, Silent
      <3>6. CASE (Begin(c) \/ RunStatement(c)) /\ ~ QueryFails(c)
        BY <2>1, <3>6 DEF Begin, RunStatement, Silent
      <3> QED BY <2>3, <3>1, <3>2, <3>3, <3>4, <3>5, <3>6 DEF RequestStep
    <2>4. ASSUME NEW l \in Loads, LoadStep(l) PROVE AnswersMatchEffects'
      BY <1>2, <2>1, <2>4, LoadFrame
    <2>5. CASE ServerStep
      BY <2>1, <2>5 DEF ServerStep, ServerOpen, ServerReady, ServerEnds, Silent
    <2>6. CASE UNCHANGED vars
      BY <1>2, <2>6
         DEF vars, file, AnswersMatchEffects, Query, Statements, Stands, Changes, Removes
    <2> QED BY <1>2, <2>3, <2>4, <2>5, <2>6 DEF Next, ServerStep
  <1> QED BY <1>1, <1>2, HeldInvariant, PTL DEF Spec

\* A dry run that is told "ok" has had a text that DuckDB parses, with calls it knows
\* (engine.go:81-107).
THEOREM AcceptedValid == Spec => []AcceptedIsValid
  <1>1. Init => AcceptedIsValid
    BY DEF Init, AcceptedIsValid, NoReply
  <1>2. ASSUME TypeOK, RequestTyped, OneHolder, RequestsInv, AcceptedIsValid, [Next]_vars
        PROVE  AcceptedIsValid'
    <2>1. ASSUME reply' = NoReply PROVE AcceptedIsValid'
      BY <2>1 DEF AcceptedIsValid, NoReply
    <2>2. ASSUME NEW c \in Clients, NEW what, Answer(c, what),
                 what = "ok" /\ mode[c] # "query" => Parses(sql[c]) /\ KnownCalls(sql[c])
          PROVE  AcceptedIsValid'
      <3>1. reply'.said = what /\ reply'.dry = (mode[c] # "query") /\ reply'.sql = sql[c]
        BY <2>2 DEF Answer
      <3> QED BY <2>2, <3>1 DEF AcceptedIsValid, Parses, KnownCalls
    <2>3. ASSUME NEW c \in Clients, RequestStep(c) PROVE AcceptedIsValid'
      <3>1. /\ did[c] \in Seq(Stmt) /\ sql[c] \in Text /\ Sound(c)
            /\ pc[c] = "running" => Parses(sql[c])
            /\ mode[c] \in {"query", "explain", "limit0"}
        BY <1>2 DEF TypeOK, RequestsInv, RequestTyped, Modes
      <3>2. CASE Begin(c) /\ QueryFails(c)
        <4>1. mode[c] # "limit0"
          BY <3>1, <3>2 DEF Begin, Sound
        <4> QED BY <2>2, <3>2, <4>1 DEF QueryFails
      <3>3. CASE RunStatement(c) /\ QueryFails(c)
        <4>1. CASE mode[c] = "limit0"
          BY <2>2, <3>1, <3>3, <4>1 DEF QueryFails, RunStatement, Sound
        <4>2. CASE mode[c] # "limit0"
          BY <2>2, <3>3, <4>2 DEF QueryFails
        <4> QED BY <4>1, <4>2
      <3>4. CASE TryLimit0(c) /\ Answer(c, "ok")
        <4>1. pc[c] = "running" /\ script[c] = <<>> /\ mode[c] = "explain"
          BY <3>4 DEF TryLimit0
        <4>2. did[c] # <<>>
          BY <3>1, <4>1, StatementsType DEF Sound, Script
        <4> QED BY <2>2, <3>1, <3>4, <4>1, <4>2 DEF Sound
      <3>5. CASE ReadRows(c)
        <4>1. pc[c] = "running" /\ mode[c] # "explain"
          BY <3>5 DEF ReadRows
        <4>2. mode[c] # "query" => Parses(sql[c]) /\ KnownCalls(sql[c])
          BY <3>1, <4>1 DEF Sound
        <4>3. PICK what : Answer(c, what)
          BY <3>5 DEF ReadRows
        <4> QED BY <2>2, <4>2, <4>3
      <3>6. ASSUME NEW t \in Texts, NEW dry \in BOOLEAN, Arrive(c, t, dry)
            PROVE  AcceptedIsValid'
        BY <2>1, <3>6 DEF Arrive, Silent
      <3>7. CASE (Begin(c) \/ RunStatement(c)) /\ ~ QueryFails(c)
        BY <2>1, <3>7 DEF Begin, RunStatement, Silent
      <3>8. CASE TryLimit0(c) /\ ~ Answer(c, "ok")
        BY <2>1, <3>8 DEF TryLimit0, Silent
      <3> QED BY <2>3, <3>2, <3>3, <3>4, <3>5, <3>6, <3>7, <3>8 DEF RequestStep
    <2>4. ASSUME NEW l \in Loads, LoadStep(l) PROVE AcceptedIsValid'
      BY <1>2, <2>1, <2>4, LoadFrame
    <2>5. CASE ServerStep
      BY <2>1, <2>5 DEF ServerStep, ServerOpen, ServerReady, ServerEnds, Silent
    <2>6. CASE UNCHANGED vars
      BY <1>2, <2>6 DEF vars, AcceptedIsValid, Parses, KnownCalls
    <2> QED BY <1>2, <2>3, <2>4, <2>5, <2>6 DEF Next, ServerStep
  <1> QED BY <1>1, <1>2, RequestsInvariant, PTL DEF Spec

\* In a request whose text nests no function in itself, and no argument deeper than two
\* levels of parentheses, what reaches DuckDB has none of GoogleSQL's calls
\* (server.go:128-136, lowering.go:29-103).
THEOREM LoweredInFull == Spec => []LoweredWhole
  <1>1. KnownCalls(NoText)
    BY DEF KnownCalls, NoText
  <1>2. ASSUME NEW t \in Text, Simple(t.chain)
        PROVE  KnownCalls(Lower(t))
    <2> DEFINE u == [t EXCEPT !.chain = LowerCalls(t.chain)]
    <2>1. t.chain \in Chain /\ u.chain = LowerCalls(t.chain)
      BY DEF Text
    <2>2. KnownCalls(u)
      BY <1>2, <2>1, LowersWhole DEF KnownCalls
    <2>3. u \in Text
      BY <2>1, LowerCallsType DEF Text
    <2> HIDE DEF u
    <2>4. LoadToInsert(u).chain.calls = <<>>
      BY <2>3 DEF LoadToInsert, Text
    <2>5. KnownCalls(LoadToInsert(u))
      BY <2>4 DEF KnownCalls
    <2> QED BY <2>2, <2>5 DEF Lower, LowerLoadData, u
  <1>3. TypeOK /\ RequestsInv => LoweredWhole
    <2> SUFFICES ASSUME TypeOK, RequestsInv, NEW c \in Clients, Simple(text[c].chain)
                 PROVE  KnownCalls(sql[c])
      BY DEF LoweredWhole, Simple
    <2>1. text[c] \in Text
      BY DEF TypeOK
    <2>2. sql[c] = NoText \/ sql[c] = Lower(text[c])
      BY DEF RequestsInv, Sound
    <2> QED BY <1>1, <1>2, <2>1, <2>2
  <1> QED BY <1>3, RequestsInvariant, PTL
=============================================================================
