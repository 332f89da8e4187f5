-------------------------- MODULE DatasetRegistry --------------------------
(***************************************************************************)
(* What the dataset API promises while the server runs: every call takes   *)
(* effect at one moment, so of two creates of one dataset only one is told *)
(* that it made it, and of two deletes only one that it removed it.  A     *)
(* call that fails changes nothing.  Module Catalog implements this.       *)
(***************************************************************************)
CONSTANT Datasets

VARIABLES
    present,    \* the datasets there are
    answer      \* what the last step told a client: <<operation, outcome, dataset>>

vars == <<present, answer>>
Nothing == <<"none">>

Init == present = {} /\ answer = Nothing

Create(d) ==
    \/ d \notin present /\ present' = present \cup {d} /\ answer' = <<"createDataset", "ok", d>>
    \/ d \in present /\ UNCHANGED present /\ answer' = <<"createDataset", "conflict", d>>

Delete(d) ==
    \/ d \in present /\ present' = present \ {d} /\ answer' = <<"deleteDataset", "ok", d>>
    \/ d \notin present /\ UNCHANGED present /\ answer' = <<"deleteDataset", "missing", d>>

Get(d) ==
    /\ UNCHANGED present
    /\ answer' = <<"getDataset", IF d \in present THEN "ok" ELSE "missing", d>>

Fail(op, d) == UNCHANGED present /\ answer' = <<op, "failed", d>>

\* Work that no client of the dataset API is told of.
Quiet == UNCHANGED present /\ answer' = Nothing

\* A new process starts with no dataset.
Forget == present' = {} /\ answer' = Nothing

Next ==
    \/ \E d \in Datasets :
          Create(d) \/ Delete(d) \/ Get(d)
          \/ \E op \in {"createDataset", "deleteDataset"} : Fail(op, d)
    \/ Quiet
    \/ Forget

Spec == Init /\ [][Next]_vars
============================================================================
