------------------------------ MODULE IngestMC ------------------------------
(* Instances of Ingest for TLC. *)
EXTENDS Ingest, TLC

CONSTANTS c1, c2, l1, l2

\* Clients, and files, are interchangeable.
IngestSymmetry == Permutations({c1, c2}) \cup Permutations({l1, l2})

One(kind, tail) == [NoText EXCEPT !.first = kind, !.tail = tail]
Two(kind, other) == [NoText EXCEPT !.first = kind, !.second = other]

\* Statements alone, with a comment or a semicolon after them, and in pairs.
StatementTexts ==
    {One(k, "none") : k \in Kinds}
    \cup {One("insert", "comment"), One("insert", "semicolon"), One("loadData", "comment")}
    \cup {[One("loadData", "none") EXCEPT !.commented = TRUE]}
    \cup {Two("insert", "select"), Two("select", "delete"), Two("loadData", "drop")}

\* Queries with up to three calls.
Wrapped(fns, leaf) ==
    [NoText EXCEPT !.chain =
        [calls |-> [i \in DOMAIN fns |-> [fn |-> fns[i], lowered |-> FALSE]], leaf |-> leaf]]
CallTexts ==
    {Wrapped(<<"DATE", "TO_JSON_STRING", "TIMESTAMP_SUB">>, "column"),
     Wrapped(<<"DATE", "TO_JSON_STRING">>, "CURRENT_TIMESTAMP()"),
     Wrapped(<<"DATE", "SAFE_CAST", "DATE">>, "column")}

MCTexts == StatementTexts \cup CallTexts
=============================================================================
