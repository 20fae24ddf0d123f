-------------------------------- MODULE Inbox --------------------------------
(***************************************************************************)
(* The message inboxes of a mission: `runner msg post` and `runner msg     *)
(* read` (cli/src/msg.rs) append to the mission log, and the event bus     *)
(* projects the log into one inbox per handle                              *)
(* (crates/runner-backend/src/event_bus), whose unread counts the router   *)
(* and the UI act on.                                                      *)
(*                                                                         *)
(* The log is AppendLog: it only grows, in the order of its ids, so an     *)
(* event's id is its position here.  Every CLI invocation is a process of  *)
(* its own: a read takes its snapshot, prints, and only then appends its   *)
(* inbox_read, which other processes may overtake, or which may fail.      *)
(***************************************************************************)
EXTENDS Integers, FiniteSetsExt, SequencesExt

CONSTANTS
    Handles,      \* the roster
    Readers,      \* the handles that run msg read
    All,          \* no --to: a broadcast; no --from: any sender
    MaxEvents,    \* bound: events in the log
    MaxRemounts,  \* bound: times the bus is mounted again
    Filters       \* which of "since" and "from" the agents pass to msg read

ASSUME InboxAssumption ==
    /\ All \notin Handles
    /\ Readers \subseteq Handles
    /\ MaxEvents \in Nat /\ MaxRemounts \in Nat
    /\ Filters \subseteq {"since", "from"}

VARIABLES
    log,      \* the mission log
    pending,  \* per handle: up_to of reads that printed and have yet to append
    shown,    \* history, per handle: messages some read of it printed
    cursor,   \* events the bus has projected since it was mounted
    inbox,    \* RunnerInbox per handle
    remounts

inboxVars == <<log, pending, shown, cursor, inbox, remounts>>

Ids   == 1 .. MaxEvents
Event == [kind : {"message"}, from : Handles, to : Handles \cup {All}]
         \cup [kind : {"inbox_read"}, from : Handles, up_to : Ids]

InboxTypeOK ==
    /\ log \in Seq(Event)
    /\ pending \in [Handles -> SUBSET Ids]
    /\ shown \in [Handles -> SUBSET Ids]
    /\ cursor \in 0 .. Len(log)
    /\ inbox \in [Handles -> [matched : Seq(Ids), read_idx : Nat, watermark : 0 .. MaxEvents]]
    /\ \A h \in Handles : inbox[h].read_idx <= Len(inbox[h].matched)
    /\ remounts \in 0 .. MaxRemounts

EmptyInbox == [matched |-> <<>>, read_idx |-> 0, watermark |-> 0]

InboxInit ==
    /\ log = <<>>
    /\ pending = [h \in Handles |-> {}]
    /\ shown = [h \in Handles |-> {}]
    /\ cursor = 0
    /\ inbox = [h \in Handles |-> EmptyInbox]
    /\ remounts = 0

-----------------------------------------------------------------------------
(* The CLI.                                                                *)

\* is_inbox in the CLI, event_targets on the bus.
Targets(event, handle) ==
    /\ event.kind = "message"
    /\ event.from # handle
    /\ event.to \in {All, handle}

Post(handle, to) ==
    /\ Len(log) < MaxEvents
    /\ log' = Append(log, [kind |-> "message", from |-> handle, to |-> to])
    /\ UNCHANGED <<pending, shown, cursor, inbox, remounts>>

Printed(handle, since, sender) ==
    {n \in DOMAIN log : /\ Targets(log[n], handle)
                        /\ n > since
                        /\ sender \in {All, log[n].from}}

MutRead(handle, since, sender) ==  \* --from advances the watermark too
    LET printed == Printed(handle, since, sender)
    IN  /\ printed # {}
        /\ shown' = [shown EXCEPT ![handle] = @ \cup printed]
        /\ pending' = [pending EXCEPT ![handle] = @ \cup {Max(printed)}]
        /\ UNCHANGED <<log, cursor, inbox, remounts>>

\* A read that printed something will report its last id, unless it was
\* filtered by sender.
Read(handle, since, sender) ==
    LET printed == Printed(handle, since, sender)
    IN  /\ printed # {}
        /\ shown' = [shown EXCEPT ![handle] = @ \cup printed]
        /\ pending' = [pending EXCEPT ![handle] =
                         IF sender = All THEN @ \cup {Max(printed)} ELSE @]
        /\ UNCHANGED <<log, cursor, inbox, remounts>>

AppendInboxRead(handle, up_to) ==
    /\ up_to \in pending[handle]
    /\ Len(log) < MaxEvents
    /\ log' = Append(log, [kind |-> "inbox_read", from |-> handle, up_to |-> up_to])
    /\ pending' = [pending EXCEPT ![handle] = @ \ {up_to}]
    /\ UNCHANGED <<shown, cursor, inbox, remounts>>

\* The append fails, or the process ends before it.
InboxReadLost(handle, up_to) ==
    /\ up_to \in pending[handle]
    /\ pending' = [pending EXCEPT ![handle] = @ \ {up_to}]
    /\ UNCHANGED <<log, shown, cursor, inbox, remounts>>

-----------------------------------------------------------------------------
(* The bus: BusState::tick for the next event of the log.                  *)

ProjectMessage(event, id) ==
    [h \in Handles |->
        IF Targets(event, h) THEN [inbox[h] EXCEPT !.matched = Append(@, id)] ELSE inbox[h]]

MutHandleInboxRead(box, up_to) ==  \* stops short of the message reported
    IF up_to <= box.watermark
    THEN box
    ELSE [box EXCEPT !.watermark = up_to,
                     !.read_idx = Max({@} \cup {i \in (@ + 1) .. Len(box.matched) :
                                           \A j \in (@ + 1) .. i : box.matched[j] < up_to})]

\* handle_inbox_read: a stale up_to is ignored; otherwise read_idx walks over
\* every matched id up to it.
HandleInboxRead(box, up_to) ==
    IF up_to <= box.watermark
    THEN box
    ELSE [box EXCEPT !.watermark = up_to,
                     !.read_idx = Max({@} \cup {i \in (@ + 1) .. Len(box.matched) :
                                           \A j \in (@ + 1) .. i : box.matched[j] <= up_to})]

Tick ==
    /\ cursor < Len(log)
    /\ cursor' = cursor + 1
    /\ LET event == log[cursor + 1]
       IN  inbox' = IF event.kind = "message"
                    THEN ProjectMessage(event, cursor + 1)
                    ELSE [inbox EXCEPT ![event.from] = HandleInboxRead(@, event.up_to)]
    /\ UNCHANGED <<log, pending, shown, remounts>>

\* The mission is reopened: a fresh projection from the start of the log.
Remount ==
    /\ remounts < MaxRemounts
    /\ remounts' = remounts + 1
    /\ cursor' = 0
    /\ inbox' = [h \in Handles |-> EmptyInbox]
    /\ UNCHANGED <<log, pending, shown>>

-----------------------------------------------------------------------------
\* --since takes an id the agent was shown; 0 leaves it out.
Sinces(h) == {0} \cup IF "since" \in Filters THEN shown[h] ELSE {}
Senders   == IF "from" \in Filters THEN Handles \cup {All} ELSE {All}

InboxNext ==
    \/ \E h \in Handles, to \in Handles \cup {All} : Post(h, to)
    \/ \E h \in Readers : \E since \in Sinces(h), sender \in Senders : Read(h, since, sender)
    \/ \E h \in Readers : \E up_to \in pending[h] :
          AppendInboxRead(h, up_to) \/ InboxReadLost(h, up_to)
    \/ Tick
    \/ Remount

InboxSpec == InboxInit /\ [][InboxNext]_inboxVars

-----------------------------------------------------------------------------
(* Properties.                                                             *)

Unread(h) == Len(inbox[h].matched) - inbox[h].read_idx

\* The counters the bus keeps incrementally agree with the log it has seen:
\* the watermark is the highest up_to the handle reported, whatever order its
\* reads were appended in, and the unread messages are the ones beyond it.
UnreadIsExact ==
    LET seen == SubSeq(log, 1, cursor)
    IN  \A h \in Handles :
            LET reads == {n \in DOMAIN seen : seen[n].kind = "inbox_read" /\ seen[n].from = h}
                mark  == Max({0} \cup {seen[n].up_to : n \in reads})
            IN  /\ inbox[h].watermark = mark
                /\ Unread(h) = Cardinality({n \in DOMAIN seen : Targets(seen[n], h) /\ n > mark})

\* A message counts as read only if some `msg read` of its addressee printed
\* it: overtaking reads, lost reports, filtered reads and replays never mark a
\* message that nobody was shown.
ReadWasShown ==
    \A h \in Handles :
        \A i \in 1 .. inbox[h].read_idx : inbox[h].matched[i] \in shown[h]
=============================================================================
