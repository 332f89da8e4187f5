----------------------------- MODULE DaemonMC ------------------------------
(* Instances of Daemon for TLC. *)
EXTENDS Daemon, TLC

CONSTANTS c1, c2, p1, p2, p3

\* Shells are interchangeable, and so are pids.
DaemonSymmetry == Permutations(Callers) \cup Permutations(Pids)
============================================================================
