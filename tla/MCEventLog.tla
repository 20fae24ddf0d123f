------------------------------ MODULE MCEventLog ------------------------------
(* Two processes and one bus over a file of at most three events.          *)
EXTENDS EventLog, TLC

Symmetry == Permutations(Writers)
=============================================================================
