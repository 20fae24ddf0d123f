---------------------------- MODULE MCIndicators ----------------------------
(* What the human sees, in one run of three parts that share no step: the  *)
(* outbox of one slot, through drafts, reports of the terminal and the     *)
(* replacement of its child; the same outbox with unread messages, its     *)
(* pill and the reconciliation, and one child; and the dots of chats.      *)
(* Threads are fair and prompt, and no input waits behind a delivery.  A   *)
(* part bounds what comes in from outside and never a thread; the parts    *)
(* that are not run stay where they began, with nothing to run.            *)
EXTENDS RouterOutbox, Attention

VARIABLE part
partVars == <<part, vars, attentionVars>>

PartsInit ==
    /\ part \in {"outbox", "pill", "attention"}
    /\ Init /\ AttentionInit
    /\ part = "attention" => phase = "pending"
    /\ part # "attention" => \A c \in Sessions : tabOf[c] = CHOOSE tab \in Tabs : TRUE

PartsNext ==
    \/ /\ part \in {"outbox", "pill"}
       /\ Next /\ UNCHANGED <<part, attentionVars>>
       /\ part = "outbox" => unread' = 0 /\ ~idle'
       /\ part = "pill" => sent' + backoff'.nudges <= 2
                          /\ lock'.epoch <= 1 /\ reports' = 0
    \/ /\ part = "attention"
       /\ AttentionNext /\ UNCHANGED <<part, vars>>

PartsSpec     == PartsInit /\ [][PartsNext]_partVars
PartsFairSpec == PartsSpec /\ Fairness
=============================================================================
