------------------------------ MODULE Lowering ------------------------------
(***************************************************************************)
(* The rewrites of internal/lowering, which turn GoogleSQL into DuckDB SQL *)
(* by regular expressions, one after the other.                            *)
(*                                                                         *)
(* Of a text only what tells its fate is kept: the kinds of its one or two *)
(* statements, comments around them, and one chain of function calls,      *)
(* outermost first, around a column or CURRENT_TIMESTAMP().                *)
(***************************************************************************)
EXTENDS Naturals, Sequences, FiniteSets

\* Statements of DuckDB ("create" is CREATE TABLE AS), and those only GoogleSQL has.
DuckKinds == {"select", "insert", "delete", "create", "drop", "createSchema"}
LoadKinds == {"loadData", "loadOverwrite"}
Kinds == DuckKinds \cup LoadKinds

\* Rewritten only with their whole argument, which the patterns match up to two
\* levels of parentheses deep; and rewritten by name, wherever they stand.
ArgumentCalls == {"TIMESTAMP_SUB", "TIMESTAMP_ADD", "TIMESTAMP_TRUNC",
                  "DATE_SUB", "DATE_ADD", "DATE", "TO_JSON_STRING"}
NamedCalls == {"COUNTIF", "SAFE_CAST"}
Call == [fn : ArgumentCalls \cup NamedCalls, lowered : BOOLEAN]
Leaves == {"column", "CURRENT_TIMESTAMP()", "CURRENT_TIMESTAMP"}
Chain == [calls : Seq(Call), leaf : Leaves]

\* commented: a comment comes first.  tail: what comes last.
Text == [commented : BOOLEAN, first : Kinds, second : Kinds \cup {"none"},
         tail : {"none", "comment", "semicolon"}, chain : Chain]

-----------------------------------------------------------------------------
(* Function calls *)

\* Levels of parentheses in the argument of call i; CAST(to_json(x) AS VARCHAR)
\* has two of its own.
Depth(ch, i) ==
    LET inner == {j \in DOMAIN ch.calls : j > i}
        json  == {j \in inner : ch.calls[j].lowered /\ ch.calls[j].fn = "TO_JSON_STRING"}
    IN  Cardinality(inner) + Cardinality(json)
        + IF ch.leaf = "CURRENT_TIMESTAMP()" THEN 1 ELSE 0

\* The pattern of function f matches at call i.
Matches(ch, f, i) == ch.calls[i].fn = f /\ ~ ch.calls[i].lowered /\ Depth(ch, i) <= 2

\* One pass of ReplaceAllString: the leftmost match takes the rest of the chain with
\* it, so a call of f inside another is left as it is.
LowerCall(f, ch) ==
    [ch EXCEPT !.calls = [i \in DOMAIN ch.calls |->
        IF Matches(ch, f, i) /\ \A j \in 1 .. i - 1 : ~ Matches(ch, f, j)
        THEN [ch.calls[i] EXCEPT !.lowered = TRUE]
        ELSE ch.calls[i]]]

LowerNamed(f, ch) ==
    [ch EXCEPT !.calls = [i \in DOMAIN ch.calls |->
        IF ch.calls[i].fn = f THEN [ch.calls[i] EXCEPT !.lowered = TRUE] ELSE ch.calls[i]]]

LowerCurrentTimestamp(ch) ==
    [ch EXCEPT !.leaf = IF ch.leaf = "CURRENT_TIMESTAMP()" THEN "CURRENT_TIMESTAMP" ELSE ch.leaf]

\* The rewrites of calls, in the order they are registered.  Mutant: to_json_string
\* comes first.
LowerTimestamps(ch) ==
    LowerCall("TIMESTAMP_TRUNC", LowerCall("TIMESTAMP_ADD", LowerCall("TIMESTAMP_SUB", ch)))
LowerDates(ch) ==
    LowerCall("DATE", LowerCall("DATE_ADD", LowerCall("DATE_SUB", ch)))
LowerJSONFirst(ch) ==
    LowerCurrentTimestamp(LowerNamed("SAFE_CAST", LowerNamed("COUNTIF",
        LowerDates(LowerTimestamps(LowerCall("TO_JSON_STRING", ch))))))
LowerCalls(ch) ==
    LowerCurrentTimestamp(LowerCall("TO_JSON_STRING",
        LowerNamed("SAFE_CAST", LowerNamed("COUNTIF", LowerDates(LowerTimestamps(ch))))))

-----------------------------------------------------------------------------
(* Statements *)

\* LOAD DATA [OVERWRITE] INTO, at the very start, becomes an INSERT; all that follows
\* the file's name is dropped.  Mutant: the next statement is taken for the INSERT.
LoadToSecond(t) == [t EXCEPT !.first = t.second]
LoadToInsert(t) ==
    [t EXCEPT !.first = "insert", !.second = "none", !.tail = "none",
              !.chain = [calls |-> <<>>, leaf |-> "column"]]
LowerLoadData(t) ==
    IF ~ t.commented /\ t.first \in LoadKinds THEN LoadToInsert(t) ELSE t

Lower(t) == LowerLoadData([t EXCEPT !.chain = LowerCalls(t.chain)])
=============================================================================
