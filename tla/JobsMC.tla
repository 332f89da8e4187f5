------------------------------ MODULE JobsMC -------------------------------
(* Instances of Jobs for TLC. *)
EXTENDS Jobs, TLC

CONSTANTS h1, h2, h3

\* Handlers are interchangeable; only runs without liveness use this.
HandlerSymmetry == Permutations(Handlers)
============================================================================
