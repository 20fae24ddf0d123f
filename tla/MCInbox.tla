------------------------------- MODULE MCInbox -------------------------------
(* One reading agent, two agents that write to it and to each other, and   *)
(* enough events for two messages and two reports that overtake each other.*)
EXTENDS Inbox, TLC

Symmetry == Permutations(Handles \ Readers)
=============================================================================
