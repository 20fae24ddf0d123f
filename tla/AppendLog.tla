------------------------------ MODULE AppendLog ------------------------------
(***************************************************************************)
(* What the mission event log promises its readers: a log that only grows, *)
(* in the order of its ids, and of which the event bus projects one prefix *)
(* after the other.  EventLog implements it with a locked file whose last  *)
(* line may be torn; Inbox is written against it.                          *)
(***************************************************************************)
EXTENDS Integers, SequencesExt

VARIABLES
    log,       \* ids of the committed events, in file order
    delivered  \* ids the event bus has emitted since it was mounted

avars == <<log, delivered>>

AppendInit == log = <<>> /\ delivered = <<>>

Commit ==
    /\ log' # <<>>
    /\ log' = Append(log, Last(log'))
    /\ log # <<>> => Last(log') > Last(log)
    /\ UNCHANGED delivered

Project ==
    /\ delivered' \in {SubSeq(log, 1, n) : n \in Len(delivered) .. Len(log)}
    /\ UNCHANGED log

Remount ==
    /\ delivered' = <<>>
    /\ UNCHANGED log

AppendSpec == AppendInit /\ [][Commit \/ Project \/ Remount]_avars
=============================================================================
