----------------------------- MODULE SidecarMC -----------------------------
(* Instances of Sidecar for TLC. *)
EXTENDS Sidecar

CONSTANTS c1, c2, c3, k1, k2
============================================================================
