--------------------------- MODULE MCRouterOutbox ---------------------------
(* One slot's outbox with input that may wait behind a delivery, fair (Stuck), *)
(* and with a report of the terminal (Jam).                                    *)
EXTENDS RouterOutbox, TLC
=============================================================================
