-------------------------- MODULE SidecarService ---------------------------
(***************************************************************************)
(* What the sidecar's manager promises its callers: at every moment there  *)
(* is one child to talk to or none, and every answer is true of that       *)
(* moment.  A child is never exchanged for another while a caller can see  *)
(* it: the old one goes first.  Module Sidecar implements this             *)
(* specification, whatever its calls, timers and children do.              *)
(***************************************************************************)
CONSTANTS Children, None

VARIABLES
    current,        \* the child that serves, or None
    answer          \* what the last step told a caller, about which child

vars == <<current, answer>>

Nothing == [said |-> "nothing", child |-> None]

Init == current = None /\ answer = Nothing

\* A new child has shown that it serves; or the one there is is given up.
Appear ==
    /\ current = None
    /\ current' \in Children
    /\ answer' = Nothing
GiveUp == current # None /\ current' = None /\ answer' = Nothing

\* A caller gets the connection, or is told the port (there may be none), that the
\* start failed, or that the sidecar is stopped; or a call goes on unseen.
Honest(a) ==
    /\ a.said \in {"conn", "port"} => a.child = current
    /\ a.said = "conn" => current # None
    /\ a.said \in {"failed", "stopped"} => current = None
Tell ==
    /\ UNCHANGED current
    /\ answer' \in [said : {"nothing", "conn", "port", "failed", "stopped"},
                    child : Children \cup {None}]
    /\ Honest(answer')

Next == Appear \/ GiveUp \/ Tell

Spec == Init /\ [][Next]_vars
============================================================================
