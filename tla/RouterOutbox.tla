---------------------------- MODULE RouterOutbox ----------------------------
(***************************************************************************)
(* The outbox of one mission slot in the router                            *)
(* (crates/runner-backend/src/router/mod.rs): every delivery to the slot's *)
(* agent is written at once, or parked and flushed when the session        *)
(* manager reports that the composer is free again.                        *)
(*                                                                         *)
(* Threads are the elements of the bag `tasks`: the senders that sleep 80  *)
(* ms between body and Enter, the retry, flush and cool-down timers, and   *)
(* the threads that carry a notification from the session manager to the   *)
(* router.  A task's record says where its thread stands; every            *)
(* acquisition of the router's state mutex, and every call into the        *)
(* session manager made without it, is a step of its own.                  *)
(*                                                                         *)
(* In one case a thread calls the session manager with the mutex held, is  *)
(* notified on the spot and wants the mutex again, which std's Mutex never *)
(* grants it: the thread hangs ("jammed") and with it, one after another,  *)
(* all that take the mutex, whatever their slot.                           *)
(*                                                                         *)
(* The composer is the ComposerLock that DeliveryGate implements.          *)
(* Deliveries are numbered; texts are not modelled, and bodies are never   *)
(* empty (no handler of the router composes an empty one).                 *)
(***************************************************************************)
EXTENDS ComposerLock, Sequences, FiniteSets, Bags

CONSTANTS
    MaxDeliveries,  \* bound: deliveries handed to the router
    MaxInputs,      \* bound: keystrokes of the human
    MaxReports,     \* bound: observations of the composer by the terminal
    MaxUnread,      \* bound: unread messages of the slot; 0 leaves the inbox out
    MaxRenudges,    \* bound: reconciliation nudges
    MaxThreads,     \* bound: nothing new comes in while this many threads run
    Prompt          \* TRUE: no thread is preempted for as long as a sleep of 80 ms

ASSUME OutboxAssumption ==
    /\ MaxDeliveries \in Nat /\ MaxInputs \in Nat /\ MaxReports \in Nat
    /\ MaxUnread \in Nat /\ MaxRenudges \in Nat /\ MaxThreads \in Nat
    /\ Prompt \in BOOLEAN

VARIABLES
    outbox,    \* SessionOutbox of the slot's session, or NoOutbox
    phase,     \* pending_sessions / live_sessions: "pending", "live", "gone"
    unread,    \* unread_by_handle
    pill,      \* blocked_unread_by_session: count shown, 0 when none is
    idle,      \* status says the agent is idle
    backoff,   \* whether a reconciliation nudge was sent within the backoff,
               \* and how many were sent
    tasks,     \* bag of threads
    sent,      \* deliveries handed to the router so far
    inputs,    \* keystrokes so far
    reports,   \* observations so far
    written,   \* history: relays whose body reached the child, in order
    submitted, \* history: deliveries whose Enter reached the child
    warned     \* history: deliveries a mission_warning spoke for

rvars == <<outbox, phase, unread, pill, idle, backoff, tasks>>
hist  == <<written, submitted, warned>>
vars  == <<lock, session, rvars, sent, inputs, reports, hist>>

Kinds    == {"nudge", "relay"}
NoOutbox == [q |-> <<>>, submit |-> FALSE, blocked |-> FALSE, retry |-> FALSE,
             gen |-> 0, open |-> FALSE]
Opened   == IF outbox.open THEN outbox ELSE [NoOutbox EXCEPT !.open = TRUE]

Item == [kind : Kinds, ids : SUBSET (1 .. MaxDeliveries)]

Events == {"cleared", "drained", "finished", "respawned", "exited"}
Tails  == {"none", "prune"}

Task ==
    [at : {"notify"}, event : Events]
    \cup [at : {"retry"}, gen : Nat, touched : BOOLEAN]
    \cup [at : {"flush", "cooldown"}, gen : Nat]
    \cup [at : {"check", "reserve", "recent", "prune"}, tail : Tails]
    \cup [at : {"granted"}, token : Nat, tail : Tails]
    \cup [at : {"refused"}, answer : {"unavailable", "in_flight", "pending_input",
                                      "recently_typing"}, tail : Tails]
    \cup [at : {"body", "cancel"}, item : Item, token : Nat, caller : {"dispatch", "flush", "reconcile"},
          tail : Tails]
    \cup [at : {"dispatch-recent"}]
    \cup [at : {"enter"}, item : Item, token : Nat]
    \cup [at : {"finish"}, token : Nat]
    \cup [at : {"jammed"}]

Running == BagToSet(tasks)

\* A thread waits for the state mutex it holds itself: nobody gets it any more.
Jammed == [at |-> "jammed"] \in Running
Copies(task) == IF BagIn(task, tasks) THEN tasks[task] ELSE 0

\* The sleeping threads and the clock move: when threads are prompt, only once
\* every other thread has come to rest, or waits for a mutex that is not released.
ClockMoves ==
    Prompt => \A task \in Running :
                 \/ task.at \in {"enter", "retry", "flush", "cooldown"}
                 \/ Jammed /\ task.at \notin {"body", "reserve", "finish"}

Room == BagCardinality(tasks) < MaxThreads

TypeOK ==
    /\ LockTypeOK
    /\ outbox \in [q : Seq(Item), submit : BOOLEAN, blocked : BOOLEAN, retry : BOOLEAN,
                   gen : Nat, open : BOOLEAN]
    /\ phase \in {"pending", "live", "gone"}
    /\ unread \in 0 .. MaxUnread /\ pill \in 0 .. MaxUnread
    /\ idle \in BOOLEAN /\ backoff \in [on : BOOLEAN, nudges : 0 .. MaxRenudges]
    /\ Running \subseteq Task
    /\ sent \in 0 .. MaxDeliveries /\ inputs \in 0 .. MaxInputs /\ reports \in 0 .. MaxReports
    /\ written \in Seq(1 .. MaxDeliveries)
    /\ submitted \subseteq 1 .. MaxDeliveries /\ warned \subseteq 1 .. MaxDeliveries

\* mission_start registers the row before its spawn; a reopened mission may
\* find the session already live, or stopped.
Init ==
    /\ \E p \in {"pending", "live", "gone"} :
          /\ phase = p
          /\ session = Blank(p = "live")
          /\ lock = [epoch |-> IF p = "live" THEN 1 ELSE 0, held |-> FALSE, waiting |-> 0]
    /\ outbox = NoOutbox
    /\ unread = 0 /\ pill = 0 /\ idle = FALSE /\ backoff = [on |-> FALSE, nudges |-> 0]
    /\ tasks = EmptyBag
    /\ sent = 0 /\ inputs = 0 /\ reports = 0
    /\ written = <<>> /\ submitted = {} /\ warned = {}

-----------------------------------------------------------------------------
(* Helpers.                                                                *)

\* The thread moves on: it becomes the threads of `next` (none: it ends).
Becomes(task, next) == tasks' = (tasks (-) SetToBag({task})) (+) SetToBag(next)
Spawns(next)        == tasks' = tasks (+) SetToBag(next)

AfterTail(tail) == IF tail = "prune" THEN {[at |-> "prune", tail |-> "none"]} ELSE {}

Queued(q) == UNION {q[i].ids : i \in DOMAIN q}

\* SessionOutbox::enqueue: an inbox nudge joins the one already queued.
Enqueue(box, item) ==
    LET nudges == {i \in DOMAIN box.q : box.q[i].kind = "nudge"}
    IN  IF item.kind = "nudge" /\ nudges # {}
        THEN LET i == CHOOSE n \in nudges : \A m \in nudges : n <= m
             IN  [box EXCEPT !.q[i].ids = @ \cup item.ids]
        ELSE [box EXCEPT !.q = Append(@, item)]

\* blocked_transition: the "delivery waiting" pill after the outbox or the
\* unread count changed.
PillOf(box, count) ==
    IF box.open /\ box.blocked /\ box.q # <<>> THEN count ELSE 0

SetOutbox(box) ==
    /\ outbox' = box
    /\ pill' = PillOf(box, unread)

-----------------------------------------------------------------------------
(* inject_delivery_at: one handler, or one reconciliation nudge, hands a   *)
(* delivery to the router.  The state lock is held through the reservation.*)

\* The bus thread is inside an earlier inject_delivery_at.
Dispatching ==
    \E task \in Running : \/ task.at = "dispatch-recent"
                          \/ task.at \in {"body", "cancel"} /\ task.caller = "dispatch"

Park(item, blocked) == SetOutbox(Enqueue([Opened EXCEPT !.blocked = blocked], item))

Start(item, caller) ==
    /\ SetOutbox([Opened EXCEPT !.submit = TRUE, !.blocked = FALSE])
    /\ Spawns({[at |-> "body", item |-> item, token |-> lock.epoch,
                caller |-> caller, tail |-> "none"]})

\* An earlier delivery is under way or parked: a new one goes behind it.
MutDeliveryPending == outbox.open /\ outbox.submit
DeliveryPending == outbox.open /\ (outbox.submit \/ outbox.q # <<>>)

Inject(item) ==
    \/ /\ DeliveryPending
       /\ SetOutbox(Enqueue(outbox, item))
       /\ UNCHANGED <<lock, session, phase, tasks>>
    \/ /\ ~DeliveryPending
       /\ phase # "live"
       /\ Park(item, FALSE)
       /\ UNCHANGED <<lock, session, phase, tasks>>
    \/ /\ ~DeliveryPending
       /\ phase = "live"
       /\ \/ /\ Reservation = "unavailable"
             /\ phase' = "gone"
             /\ Park(item, FALSE)
             /\ UNCHANGED <<lock, session, tasks>>
          \/ /\ LockReserve
             /\ Start(item, "dispatch")
             /\ UNCHANGED phase
          \/ /\ Reservation = "recently_typing"
             /\ Park(item, FALSE)
             /\ Spawns({[at |-> "dispatch-recent"]})
             /\ UNCHANGED <<lock, session, phase>>
          \/ /\ Reservation = "pending_input"
             /\ Park(item, TRUE)
             /\ UNCHANGED <<lock, session, phase, tasks>>
          \/ /\ Reservation = "in_flight"
             /\ Park(item, FALSE)
             /\ UNCHANGED <<lock, session, phase, tasks>>

\* inject_and_submit and inject_inbox_nudge, called by the handlers on the
\* bus thread.
Deliver(kind) ==
    /\ Room /\ ~Jammed
    /\ sent < MaxDeliveries
    /\ ~Dispatching
    /\ sent' = sent + 1
    /\ Inject([kind |-> kind, ids |-> {sent + 1}])
    /\ UNCHANGED <<unread, idle, backoff, inputs, reports, hist>>

\* reconcile_inbox_at: a nudge of its own for a slot that is idle, live, has
\* unread messages and nothing pending; never parked.
Reconciling == \E task \in Running : task.at \in {"body", "cancel"} /\ task.caller = "reconcile"

Reconcile ==
    /\ ~Reconciling /\ ~Jammed
    /\ phase = "live" /\ unread > 0 /\ idle /\ ~backoff.on
    /\ ~DeliveryPending
    /\ LockReserve
    /\ Start([kind |-> "nudge", ids |-> {}], "reconcile")
    /\ backoff.nudges < MaxRenudges
    /\ backoff' = [on |-> TRUE, nudges |-> backoff.nudges + 1]
    /\ UNCHANGED <<phase, unread, idle, sent, inputs, reports, hist>>

\* RECONCILIATION_RENUDGE_BACKOFF passes.
BackoffEnds ==
    /\ backoff.on /\ backoff' = [backoff EXCEPT !.on = FALSE]
    /\ UNCHANGED <<lock, session, outbox, phase, unread, pill, idle, tasks, sent,
                   inputs, reports, hist>>

\* update_inbox: the bus projected a message or an inbox_read for the slot.
MutUpdateInbox(count) ==  \* without blocked_transition
    /\ count # unread /\ ~Jammed
    /\ unread' = count
    /\ UNCHANGED <<lock, session, outbox, phase, pill, idle, backoff, tasks, sent, inputs,
                   reports, hist>>

UpdateInbox(count) ==
    /\ count # unread /\ ~Jammed
    /\ unread' = count
    /\ pill' = PillOf(outbox, count)
    /\ UNCHANGED <<lock, session, outbox, phase, idle, backoff, tasks, sent, inputs,
                   reports, hist>>

\* The handler of a runner_status signal.
SetStatus(toIdle) ==
    /\ idle # toIdle /\ MaxUnread > 0 /\ ~Jammed
    /\ idle' = toIdle
    /\ UNCHANGED <<lock, session, outbox, phase, unread, pill, backoff, tasks, sent,
                   inputs, reports, hist>>

-----------------------------------------------------------------------------
(* start_reserved_delivery.                                                *)

Relays(item) == IF item.kind = "relay" THEN <<CHOOSE d \in item.ids : TRUE>> ELSE <<>>

\* The error of start_reserved_delivery: a handler turns it into a
\* mission_warning, the reconciliation takes the mutex and forgets that it nudged,
\* and flush_outbox only logs it.
Failed(task) ==
    /\ warned' = IF task.caller = "dispatch" THEN warned \cup task.item.ids ELSE warned
    /\ backoff' = IF task.caller = "reconcile" /\ ~Jammed
                  THEN [backoff EXCEPT !.on = FALSE] ELSE backoff

\* inject_reserved(body).  A stale token is Ok(false); the PTY may also refuse
\* the bytes, which skips cancel_started_delivery.  After a successful write
\* the sender thread is spawned and, under the mutex, the wake is marked busy.
WriteBody(task) ==
    /\ task.at = "body"
    /\ \/ /\ MayWrite(task.token)
          /\ Becomes(task, {[at |-> "enter", item |-> task.item, token |-> task.token]}
                           \cup AfterTail(task.tail))
          /\ written' = written \o Relays(task.item)
          /\ idle' = (Jammed /\ idle)
          /\ UNCHANGED <<warned, backoff>>
       \/ /\ ~MayWrite(task.token)
          /\ Becomes(task, {[task EXCEPT !.at = "cancel"]})
          /\ UNCHANGED <<written, idle, warned, backoff>>
       \/ /\ MayWrite(task.token)
          /\ Becomes(task, {[at |-> "finish", token |-> task.token]} \cup AfterTail(task.tail))
          /\ Failed(task)
          /\ UNCHANGED <<written, idle>>
    /\ UNCHANGED <<lock, session, outbox, phase, unread, pill, sent, inputs,
                   reports, submitted>>

\* cancel_started_delivery, then finish_delivery and the error.
CancelStarted(task) ==
    /\ task.at = "cancel" /\ ~Jammed
    /\ IF outbox.open
       THEN SetOutbox(IF outbox.q = <<>> THEN NoOutbox ELSE [outbox EXCEPT !.submit = FALSE])
       ELSE UNCHANGED <<outbox, pill>>
    /\ Becomes(task, {[at |-> "finish", token |-> task.token]} \cup AfterTail(task.tail))
    /\ Failed(task)
    /\ UNCHANGED <<lock, session, phase, unread, idle, sent, inputs, reports,
                   written, submitted>>

\* The sender thread after SUBMIT_DELAY: Enter, whose failure is ignored.
WriteEnter(task) ==
    /\ task.at = "enter" /\ ClockMoves
    /\ submitted' = IF MayWrite(task.token) THEN submitted \cup task.item.ids ELSE submitted
    /\ Becomes(task, {[at |-> "finish", token |-> task.token]})
    /\ UNCHANGED <<lock, session, outbox, phase, unread, pill, idle, backoff, sent, inputs,
                   reports, written, warned>>

\* finish_delivery: only the current holder's finish is reported.
Finish(task) ==
    /\ task.at = "finish"
    /\ LockRelease(task.token)
    /\ Becomes(task, IF lock.held /\ lock.epoch = task.token
                     THEN {[at |-> "notify", event |-> "finished"]} ELSE {})
    /\ UNCHANGED <<outbox, phase, unread, pill, idle, backoff, sent, inputs, reports, hist>>

-----------------------------------------------------------------------------
(* flush_outbox: look, reserve without the state lock, act on the answer.  *)

Check(task) ==
    /\ task.at = "check" /\ ~Jammed
    /\ Becomes(task, IF outbox.open /\ ~outbox.submit /\ outbox.q # <<>>
                     THEN {[at |-> "reserve", tail |-> task.tail]}
                     ELSE AfterTail(task.tail))
    /\ UNCHANGED <<lock, session, outbox, phase, unread, pill, idle, backoff, sent, inputs,
                   reports, hist>>

ReserveForFlush(task) ==
    /\ task.at = "reserve"
    /\ \/ /\ LockReserve
          /\ Becomes(task, {[at |-> "granted", token |-> lock.epoch, tail |-> task.tail]})
       \/ /\ Reservation # "ready"
          /\ Becomes(task, {[at |-> "refused", answer |-> Reservation, tail |-> task.tail]})
          /\ UNCHANGED <<lock, session>>
    /\ UNCHANGED <<outbox, phase, unread, pill, idle, backoff, sent, inputs, reports, hist>>

\* Nothing is left to deliver: finish_delivery with the mutex held.  If the token is
\* that of the holder, DeliveryFinished comes back before it returns and asks for the
\* mutex.
GrantedNothing(task) ==
    /\ LockRelease(task.token)
    /\ Becomes(task, IF lock.held /\ lock.epoch = task.token
                     THEN {[at |-> "jammed"]} ELSE AfterTail(task.tail))
    /\ UNCHANGED <<outbox, pill>>

MutGranted(task) ==  \* front() instead of pop_front()
    /\ task.at = "granted" /\ ~Jammed
    /\ IF outbox.open /\ outbox.q # <<>>
       THEN /\ SetOutbox([outbox EXCEPT !.submit = TRUE, !.blocked = FALSE])
            /\ Becomes(task, {[at |-> "body", item |-> Head(outbox.q), token |-> task.token,
                               caller |-> "flush", tail |-> task.tail]})
            /\ UNCHANGED <<lock, session>>
       ELSE GrantedNothing(task)
    /\ UNCHANGED <<phase, unread, idle, backoff, sent, inputs, reports, hist>>

\* Ready: the head of the queue, unless somebody emptied it meanwhile.
Granted(task) ==
    /\ task.at = "granted" /\ ~Jammed
    /\ IF outbox.open /\ outbox.q # <<>>
       THEN /\ SetOutbox([outbox EXCEPT !.q = Tail(@), !.submit = TRUE, !.blocked = FALSE])
            /\ Becomes(task, {[at |-> "body", item |-> Head(outbox.q), token |-> task.token,
                               caller |-> "flush", tail |-> task.tail]})
            /\ UNCHANGED <<lock, session>>
       ELSE GrantedNothing(task)
    /\ UNCHANGED <<phase, unread, idle, backoff, sent, inputs, reports, hist>>

Refused(task) ==
    /\ task.at = "refused" /\ ~Jammed
    /\ phase' = IF task.answer = "unavailable" /\ phase = "live" THEN "gone" ELSE phase
    /\ IF outbox.open
       THEN SetOutbox([outbox EXCEPT !.blocked = (task.answer = "pending_input")])
       ELSE IF task.answer = "unavailable" THEN SetOutbox(outbox)
                                           ELSE UNCHANGED <<outbox, pill>>
    /\ Becomes(task, IF outbox.open /\ task.answer = "recently_typing"
                     THEN {[at |-> "recent", tail |-> task.tail]}
                     ELSE AfterTail(task.tail))
    /\ UNCHANGED <<lock, session, unread, idle, backoff, sent, inputs, reports, hist>>

-----------------------------------------------------------------------------
(* The timers.                                                             *)

\* schedule_outbox_retry, called by a dispatch or a flush that was told to
\* come back when the human has paused.
ScheduleRetry(task) ==
    /\ task.at \in {"recent", "dispatch-recent"} /\ ~Jammed
    /\ LET then == IF task.at = "recent" THEN AfterTail(task.tail) ELSE {}
       IN  IF outbox.open /\ ~outbox.retry
           THEN /\ outbox' = [outbox EXCEPT !.retry = TRUE, !.gen = @ + 1]
                /\ Becomes(task, {[at |-> "retry", gen |-> outbox.gen + 1, touched |-> FALSE]}
                                 \cup then)
           ELSE /\ UNCHANGED outbox
                /\ Becomes(task, then)
    /\ UNCHANGED <<lock, session, phase, unread, pill, idle, backoff, sent, inputs, reports,
                   hist>>

Recent == session.input_recent \/ session.submit_recent

\* The retry sleeps out the rest of the window: when it wakes, the human is
\* recent again only because of input that came after it was scheduled.
RetryWakes(task) ==
    /\ task.at = "retry" /\ ClockMoves /\ ~Jammed
    /\ Recent => task.touched
    /\ IF outbox.open /\ outbox.gen = task.gen
       THEN /\ outbox' = [outbox EXCEPT !.retry = FALSE]
            /\ Becomes(task, {[at |-> "check", tail |-> "none"]})
       ELSE /\ UNCHANGED outbox
            /\ Becomes(task, {})
    /\ UNCHANGED <<lock, session, phase, unread, pill, idle, backoff, sent, inputs, reports,
                   hist>>

\* The flush that InputCleared scheduled, after INPUT_CLEAR_FLUSH_GRACE.
FlushWakes(task) ==
    /\ task.at = "flush" /\ ClockMoves /\ ~Jammed
    /\ Becomes(task, IF outbox.open /\ outbox.gen = task.gen
                     THEN {[at |-> "check", tail |-> "none"]} ELSE {})
    /\ UNCHANGED <<lock, session, outbox, phase, unread, pill, idle, backoff, sent, inputs,
                   reports, hist>>

\* The cool-down that DeliveryFinished scheduled, after SUBMIT_DELAY.
CooldownEnds(task) ==
    /\ task.at = "cooldown" /\ ClockMoves /\ ~Jammed
    /\ IF outbox.open /\ outbox.gen = task.gen
       THEN /\ outbox' = [outbox EXCEPT !.submit = FALSE]
            /\ Becomes(task, {[at |-> "check", tail |-> "prune"]})
       ELSE /\ UNCHANGED outbox
            /\ Becomes(task, {})
    /\ UNCHANGED <<lock, session, phase, unread, pill, idle, backoff, sent, inputs, reports,
                   hist>>

\* The last step of the cool-down removes an outbox with nothing left to do.
Prune(task) ==
    /\ task.at = "prune" /\ ~Jammed
    /\ outbox' = IF outbox.open /\ ~outbox.submit /\ outbox.q = <<>> THEN NoOutbox ELSE outbox
    /\ Becomes(task, {})
    /\ UNCHANGED <<lock, session, phase, unread, pill, idle, backoff, sent, inputs, reports,
                   hist>>

-----------------------------------------------------------------------------
(* session_delivery_event: the session manager's notifications.            *)

InputCleared(task) ==
    /\ task = [at |-> "notify", event |-> "cleared"] /\ ~Jammed
    /\ IF outbox.open /\ outbox.q # <<>>
       THEN /\ outbox' = [outbox EXCEPT !.gen = @ + 1, !.retry = FALSE, !.submit = FALSE]
            /\ Becomes(task, {[at |-> "flush", gen |-> outbox.gen + 1]})
       ELSE /\ UNCHANGED outbox
            /\ Becomes(task, {})
    /\ UNCHANGED <<lock, session, phase, unread, pill, idle, backoff, sent, inputs, reports,
                   hist>>

InputQueueDrained(task) ==
    /\ task = [at |-> "notify", event |-> "drained"]
    /\ Becomes(task, {[at |-> "check", tail |-> "none"]})
    /\ UNCHANGED <<lock, session, outbox, phase, unread, pill, idle, backoff, sent, inputs,
                   reports, hist>>

DeliveryFinished(task) ==
    /\ task = [at |-> "notify", event |-> "finished"] /\ ~Jammed
    /\ IF outbox.open
       THEN /\ outbox' = [outbox EXCEPT !.gen = @ + 1]
            /\ Becomes(task, {[at |-> "cooldown", gen |-> outbox.gen + 1]})
       ELSE /\ UNCHANGED outbox
            /\ Becomes(task, {})
    /\ UNCHANGED <<lock, session, phase, unread, pill, idle, backoff, sent, inputs, reports,
                   hist>>

MutRespawned(task) ==  \* submit_in_flight survives the child
    /\ task = [at |-> "notify", event |-> "respawned"] /\ ~Jammed
    /\ phase' = "live"
    /\ outbox' = IF outbox.open THEN [outbox EXCEPT !.retry = FALSE, !.gen = @ + 1] ELSE outbox
    /\ Becomes(task, {[at |-> "check", tail |-> "none"]})
    /\ UNCHANGED <<lock, session, unread, pill, idle, backoff, sent, inputs, reports, hist>>

Respawned(task) ==
    /\ task = [at |-> "notify", event |-> "respawned"] /\ ~Jammed
    /\ phase' = "live"
    /\ outbox' = IF outbox.open
                 THEN [outbox EXCEPT !.submit = FALSE, !.retry = FALSE, !.gen = @ + 1]
                 ELSE outbox
    /\ Becomes(task, {[at |-> "check", tail |-> "none"]})
    /\ UNCHANGED <<lock, session, unread, pill, idle, backoff, sent, inputs, reports, hist>>

\* The queue is dropped; one mission_warning counts what was in it.
Exited(task) ==
    /\ task = [at |-> "notify", event |-> "exited"] /\ ~Jammed
    /\ phase' = "gone"
    /\ SetOutbox(NoOutbox)
    /\ warned' = warned \cup Queued(outbox.q)
    /\ Becomes(task, {})
    /\ UNCHANGED <<lock, session, unread, idle, backoff, sent, inputs, reports, written,
                   submitted>>

-----------------------------------------------------------------------------
(* The session manager's side.                                             *)

\* Input that comes after a retry was scheduled: the window it sleeps out is
\* no longer the current one.
Touched ==
    LET Touch(task) == IF task.at = "retry" THEN [task EXCEPT !.touched = TRUE] ELSE task
    IN  [task \in {Touch(old) : old \in Running} |->
           Copies(task) + IF task.at = "retry" THEN Copies([task EXCEPT !.touched = FALSE]) ELSE 0]

NotifiesInput(event) == tasks' = Touched (+) SetToBag({[at |-> "notify", event |-> event]})

HumanTypes(class, ok) ==
    /\ ClockMoves /\ Room
    /\ inputs < MaxInputs
    /\ inputs' = inputs + 1
    /\ LockInputAtOnce(class, ok)
    /\ NotifiesInput(IF ok /\ class = "clear" THEN "cleared" ELSE "drained")
    /\ UNCHANGED <<outbox, phase, unread, pill, idle, backoff, sent, reports, hist>>

HumanWaits ==
    /\ ClockMoves
    /\ inputs < MaxInputs
    /\ inputs' = inputs + 1
    /\ LockInputWaits
    /\ UNCHANGED <<rvars, sent, reports, hist>>

\* The queue's last input reports that it drained; a clear reports itself.
HumanServed(class, ok) ==
    /\ LockInputServed(class, ok)
    /\ IF ok /\ class = "clear" THEN NotifiesInput("cleared")
       ELSE IF lock.waiting = 1 THEN NotifiesInput("drained")
       ELSE tasks' = Touched
    /\ UNCHANGED <<outbox, phase, unread, pill, idle, backoff, sent, inputs, reports, hist>>

\* The five-second timeout of a waiting input notifies nobody.
HumanGivesUp ==
    /\ LockInputGivesUp
    /\ UNCHANGED <<rvars, sent, inputs, reports, hist>>

TerminalReports(state, fresh) ==
    /\ ClockMoves /\ Room
    /\ reports < MaxReports
    /\ reports' = reports + 1
    /\ LockObserve(state, fresh)
    /\ IF session.observed \in {"drafting", "submitted"} /\ state = "idle"
       THEN Spawns({[at |-> "notify", event |-> "cleared"]})
       ELSE IF state = "submitted" THEN tasks' = Touched ELSE UNCHANGED tasks
    /\ UNCHANGED <<outbox, phase, unread, pill, idle, backoff, sent, inputs, hist>>

TimePasses ==
    /\ ClockMoves
    /\ LockElapse
    /\ UNCHANGED <<rvars, sent, inputs, reports, hist>>

\* install_handle or the end of the child; the notification follows the unlock.
ChildChanges(present) ==
    /\ ClockMoves /\ Room
    /\ LockChild(present)
    /\ Spawns({[at |-> "notify", event |-> IF present THEN "respawned" ELSE "exited"]})
    /\ UNCHANGED <<outbox, phase, unread, pill, idle, backoff, sent, inputs, reports, hist>>

-----------------------------------------------------------------------------
ThreadStep(task) ==
    \/ WriteBody(task) \/ CancelStarted(task) \/ WriteEnter(task) \/ Finish(task)
    \/ Check(task) \/ ReserveForFlush(task) \/ Granted(task) \/ Refused(task)
    \/ ScheduleRetry(task) \/ RetryWakes(task) \/ FlushWakes(task) \/ CooldownEnds(task)
    \/ Prune(task)
    \/ InputCleared(task) \/ InputQueueDrained(task) \/ DeliveryFinished(task)
    \/ Respawned(task) \/ Exited(task)

Threads == \E task \in Running : ThreadStep(task)

HumanStep ==
    \/ \E class \in InputClasses, ok \in BOOLEAN : HumanTypes(class, ok)
    \/ HumanWaits
    \/ HumanGivesUp
    \/ \E state \in InputStates, fresh \in BOOLEAN : TerminalReports(state, fresh)

InputIsServed == \E class \in InputClasses, ok \in BOOLEAN : HumanServed(class, ok)

Next ==
    \/ \E kind \in Kinds : Deliver(kind)
    \/ Reconcile
    \/ BackoffEnds
    \/ \E count \in 0 .. MaxUnread : UpdateInbox(count)
    \/ \E toIdle \in BOOLEAN : SetStatus(toIdle)
    \/ Threads
    \/ HumanStep
    \/ InputIsServed
    \/ TimePasses
    \/ \E present \in BOOLEAN : ChildChanges(present)

Spec == Init /\ [][Next]_vars

\* Threads run, sleeps end, waiting input is served.  Nobody has to type, to
\* deliver, to report or to respawn a child.
Fairness == WF_vars(Threads) /\ WF_vars(InputIsServed) /\ WF_vars(TimePasses)

FairSpec == Spec /\ Fairness

-----------------------------------------------------------------------------
(* Properties.                                                             *)

InFlight == {task \in Running : task.at \in {"body", "cancel", "enter"}}
Flying   == UNION {task.item.ids : task \in InFlight}

\* The pill the UI shows for a slot is the unread count exactly while the
\* human's draft holds back a delivery, whichever thread changed either last.
PillIsCurrent == pill = PillOf(outbox, unread)

\* Whatever threads race over the outbox, no delivery is ever in two places:
\* queued twice, carried by two threads, or kept after it was submitted.
DeliveredAtMostOnce ==
    /\ \A i, j \in DOMAIN outbox.q :
          i # j => outbox.q[i].ids \cap outbox.q[j].ids = {}
    /\ \A t1, t2 \in InFlight : t1 # t2 => t1.item.ids \cap t2.item.ids = {}
    /\ \A task \in InFlight : task.item.ids # {} => Copies(task) = 1
    /\ Queued(outbox.q) \cap Flying = {}
    /\ (Queued(outbox.q) \cup Flying) \cap submitted = {}

\* Relays reach the agent in the order in which the bus dispatched them, even
\* when the first was parked and the second found the composer free.
RelaysInOrder ==
    \A i, j \in DOMAIN written : i < j => written[i] < written[j]

\* No thread waits for the router's mutex while it holds it.  Refuted.
NeverJammed == ~Jammed

\* A live child whose composer is empty by every account: the terminal's, if it
\* has reported, and the byte latch's.
Reachable == session.handle /\ session.observed \in {"idle", None} /\ ~session.pending

\* A parked delivery does not stay behind in front of a live, free composer.
ParkedIsFlushed ==
    \A d \in 1 .. MaxDeliveries :
        (d \in Queued(outbox.q) /\ Reachable) ~> (d \notin Queued(outbox.q) \/ ~Reachable)
=============================================================================
