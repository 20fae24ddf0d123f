---------------------------- MODULE MCRouterInbox ----------------------------
(* Messages on their way to an agent: the outbox that types them into its  *)
(* composer, with threads preempted anywhere, and the inbox that counts    *)
(* them until the agent reads them.  The two share no variable: a          *)
(* behaviour is one of one part, the other stays where it began.           *)
(* One reading agent, two agents that write to it and to each other, and   *)
(* enough events for two messages and two reports that overtake each other.*)
EXTENDS RouterOutbox, Inbox, TLC

VARIABLE part
partVars == <<part, vars, inboxVars>>

PartsInit ==
    /\ part \in {"outbox", "inbox"}
    /\ Init /\ InboxInit
    /\ part = "inbox" => phase = "pending"

PartsNext ==
    \/ part = "outbox" /\ Next /\ UNCHANGED <<part, inboxVars>>
    \/ part = "inbox" /\ InboxNext /\ UNCHANGED <<part, vars>>

PartsSpec == PartsInit /\ [][PartsNext]_partVars

Symmetry == Permutations(Handles \ Readers)
=============================================================================
