----------------------------- MODULE JobLedger -----------------------------
(***************************************************************************)
(* What the job API promises about one process of the server: an id names  *)
(* at most one query.  The query begins once, ends once, as a success or   *)
(* as a failure, and its outcome never changes while the process lives; a  *)
(* restart forgets every job.  Module Jobs implements this specification   *)
(* when no two inserts of one id are in flight together.                   *)
(***************************************************************************)
CONSTANT Ids

VARIABLE status

Statuses == {"absent", "running", "succeeded", "failed"}

TypeOK == status \in [Ids -> Statuses]

Init == status = [j \in Ids |-> "absent"]

\* The first insert of id j registers its query.
Begin(j) ==
    /\ status[j] = "absent"
    /\ status' = [status EXCEPT ![j] = "running"]

\* The query of id j ends, and its outcome is there to be read.
Finish(j) ==
    /\ status[j] = "running"
    /\ \E outcome \in {"succeeded", "failed"} :
          status' = [status EXCEPT ![j] = outcome]

\* The process stops: its jobs lived in memory.
Forget == status' = [j \in Ids |-> "absent"]

Next ==
    \/ \E j \in Ids : Begin(j) \/ Finish(j)
    \/ Forget

Spec ==
    /\ Init
    /\ [][Next]_status
    /\ \A j \in Ids : WF_status(Finish(j))
============================================================================
