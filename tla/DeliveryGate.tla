---------------------------- MODULE DeliveryGate ----------------------------
(***************************************************************************)
(* The per-session delivery gate of the session manager                    *)
(* (crates/runner-backend/src/session/manager).                            *)
(*                                                                         *)
(* Two kinds of threads write to one agent's composer: the human's input   *)
(* threads (inject_direct_stdin), which queue by ticket, and the router's  *)
(* delivery threads, which reserve the gate, write a body, sleep 80 ms,    *)
(* write Enter and finish.  The session may be killed, may exit and may be *)
(* respawned under the same id at any moment; a generation number tells a  *)
(* thread of an earlier child from one of the current child.               *)
(*                                                                         *)
(* The gate mutex and the session mutex are both held across every check   *)
(* AND the PTY write it guards, so each operation is one step here.  The   *)
(* state entry is assumed to outlive the run: prune_empty_session_state    *)
(* removes it only for a session without output that is being forgotten.   *)
(* A handle and the PTY behind it change together.  Elapsed time is a flag *)
(* that an Elapse step may lower.  The events the operations send to the   *)
(* router are the subject of RouterOutbox.                                 *)
(***************************************************************************)
EXTENDS Integers, FiniteSets

CONSTANTS
    Typers,         \* threads that call inject_direct_stdin
    Routers,        \* threads that carry one router delivery at a time
    None,           \* no observation yet, nobody's write
    MaxGeneration,  \* bound: handle installs and teardowns explored
    MaxTicket       \* bound: tickets handed out per generation

ASSUME GateAssumption ==
    /\ Typers \cap Routers = {}
    /\ None \notin Typers \cup Routers
    /\ None \notin {"idle", "drafting", "submitted"}
    /\ MaxGeneration \in Nat
    /\ MaxTicket \in Nat

VARIABLES
    gate,      \* DeliveryGateState
    session,   \* the part of SessionState the gate reads
    typer,     \* per input thread: where it is in inject_direct_stdin
    router,    \* per delivery thread: where it is in start_reserved_delivery
    last       \* history: the last write the current child received

vars == <<gate, session, typer, router, last>>

InputClasses == {"set", "clear", "activity"}
InputStates  == {"idle", "drafting", "submitted"}
NoWrite      == [by |-> None, part |-> "none"]

TypeOK ==
    /\ gate \in [generation : Nat, in_flight : BOOLEAN, next_ticket : Nat,
                 next_served : Nat, cancelled : SUBSET Nat]
    /\ session \in [handle : BOOLEAN, pending : BOOLEAN,
                    observed : InputStates \cup {None},
                    submit_recent : BOOLEAN, input_recent : BOOLEAN]
    /\ typer \in [Typers -> [pc : {"idle", "waiting"}, ticket : Nat,
                             generation : Nat, class : InputClasses]]
    /\ router \in [Routers -> [pc : {"idle", "body", "enter", "finish"},
                               token : Nat]]
    /\ last \in [by : Typers, part : {"local"}]
                \cup [by : Routers, part : {"body", "enter"}] \cup {NoWrite}

IdleTyper  == [pc |-> "idle", ticket |-> 0, generation |-> 0, class |-> "activity"]
IdleRouter == [pc |-> "idle", token |-> 0]

Init ==
    /\ gate = [generation |-> 0, in_flight |-> FALSE, next_ticket |-> 0,
               next_served |-> 0, cancelled |-> {}]
    /\ session = [handle |-> FALSE, pending |-> FALSE, observed |-> None,
                  submit_recent |-> FALSE, input_recent |-> FALSE]
    /\ typer = [t \in Typers |-> IdleTyper]
    /\ router = [r \in Routers |-> IdleRouter]
    /\ last = NoWrite

-----------------------------------------------------------------------------
(* Helpers of the gate.                                                    *)

MutRegenerated(g) ==  \* the tickets are kept
    [g EXCEPT !.generation = @ + 1, !.in_flight = FALSE]

\* Teardown and install reset the gate the same way; waiting threads see the
\* generation change and give up without touching the new counters.
Regenerated(g) ==
    [generation |-> g.generation + 1, in_flight |-> FALSE, next_ticket |-> 0,
     next_served |-> 0, cancelled |-> {}]

\* skip_cancelled_tickets: from ticket n on, the first that was not cancelled.
FirstUncancelled(g, n) ==
    CHOOSE m \in n .. g.next_ticket :
        /\ m \notin g.cancelled
        /\ \A k \in n .. (m - 1) : k \in g.cancelled

Served(g, n) ==
    LET m == FirstUncancelled(g, n)
    IN  [g EXCEPT !.next_served = m, !.cancelled = @ \ (n .. (m - 1))]

MutReservation ==  \* waiting input is not looked at
    CASE ~session.handle                    -> "unavailable"
      [] session.handle /\ gate.in_flight  -> "in_flight"
      [] OTHER                              -> "ready"

\* What reserve_delivery answers: the gate first, then the observed composer,
\* then the two-second window since the last local input.
Reservation ==
    CASE ~session.handle                          -> "unavailable"
      [] session.handle /\ (gate.in_flight \/ gate.next_ticket # gate.next_served)
                                                  -> "in_flight"
      [] OTHER ->
         IF session.observed = "drafting" \/ (session.observed = None /\ session.pending)
         THEN "pending_input"
         ELSE IF (session.observed = "submitted" /\ session.submit_recent)
                 \/ session.input_recent
              THEN "recently_typing"
              ELSE "ready"

\* update_local_input_state: what a successful local write does to the draft
\* flags.  Enter and Ctrl-C clear the byte latch, but keep the recency stamp
\* when the terminal already reports an empty composer.
AfterInput(s, class) ==
    CASE class = "set"      -> [s EXCEPT !.pending = TRUE, !.input_recent = TRUE]
      [] class = "clear"    -> [s EXCEPT !.pending = FALSE,
                                         !.input_recent = (s.observed = "idle")]
      [] class = "activity" -> [s EXCEPT !.input_recent = TRUE]

Holds(r) == /\ gate.in_flight
            /\ router[r].token = gate.generation
            /\ session.handle

-----------------------------------------------------------------------------
(* inject_direct_stdin.  The ticket is taken and, when nothing is ahead of *)
(* it, served under one lock acquisition; otherwise the thread waits on    *)
(* the condition variable.                                                 *)

\* The write succeeds and updates the draft flags, or the PTY refuses it (or
\* the handle is gone) and the flags are restored.
LocalWrite(t, class) ==
    \/ /\ session.handle
       /\ session' = AfterInput(session, class)
       /\ last' = [by |-> t, part |-> "local"]
    \/ UNCHANGED <<session, last>>

MutInputAtOnce(t, class) ==  \* the queue is looked at, the delivery is not
    /\ typer[t].pc = "idle"
    /\ gate.next_ticket < MaxTicket
    /\ gate.next_served = gate.next_ticket
    /\ gate' = Served([gate EXCEPT !.next_ticket = @ + 1], gate.next_served + 1)
    /\ LocalWrite(t, class)
    /\ UNCHANGED <<typer, router>>

InputAtOnce(t, class) ==
    /\ typer[t].pc = "idle"
    /\ gate.next_ticket < MaxTicket
    /\ ~gate.in_flight
    /\ gate.next_served = gate.next_ticket
    /\ gate' = Served([gate EXCEPT !.next_ticket = @ + 1], gate.next_served + 1)
    /\ LocalWrite(t, class)
    /\ UNCHANGED <<typer, router>>

InputQueues(t, class) ==
    /\ typer[t].pc = "idle"
    /\ gate.next_ticket < MaxTicket
    /\ gate.in_flight \/ gate.next_served # gate.next_ticket
    /\ typer' = [typer EXCEPT ![t] =
                   [pc |-> "waiting", ticket |-> gate.next_ticket,
                    generation |-> gate.generation, class |-> class]]
    /\ gate' = [gate EXCEPT !.next_ticket = @ + 1]
    /\ UNCHANGED <<session, router, last>>

MayServe(t) ==
    /\ typer[t].pc = "waiting"
    /\ typer[t].generation = gate.generation
    /\ ~gate.in_flight
    /\ gate.next_served = typer[t].ticket

InputServed(t) ==
    /\ MayServe(t)
    /\ gate' = Served(gate, gate.next_served + 1)
    /\ LocalWrite(t, typer[t].class)
    /\ typer' = [typer EXCEPT ![t] = IdleTyper]
    /\ UNCHANGED router

MutInputTimesOutKept(t) ==  \* gives up without cancelling
    /\ typer[t].pc = "waiting"
    /\ typer[t].generation = gate.generation
    /\ gate.in_flight \/ gate.next_served # typer[t].ticket
    /\ typer' = [typer EXCEPT ![t] = IdleTyper]
    /\ UNCHANGED <<gate, session, router, last>>

\* DIRECT_INPUT_GATE_TIMEOUT: the ticket is cancelled, and skipped at once when
\* it is the next to be served.
InputTimesOut(t) ==
    /\ typer[t].pc = "waiting"
    /\ typer[t].generation = gate.generation
    /\ gate.in_flight \/ gate.next_served # typer[t].ticket
    /\ gate' = Served([gate EXCEPT !.cancelled = @ \cup {typer[t].ticket}],
                      gate.next_served)
    /\ typer' = [typer EXCEPT ![t] = IdleTyper]
    /\ UNCHANGED <<session, router, last>>

\* "session changed while input was queued"
InputAbandoned(t) ==
    /\ typer[t].pc = "waiting"
    /\ typer[t].generation # gate.generation
    /\ typer' = [typer EXCEPT ![t] = IdleTyper]
    /\ UNCHANGED <<gate, session, router, last>>

-----------------------------------------------------------------------------
(* A router delivery: reserve_delivery, inject_reserved twice,             *)
(* finish_delivery.                                                        *)

Reserve(r) ==
    /\ router[r].pc = "idle"
    /\ Reservation = "ready"
    /\ gate' = [gate EXCEPT !.in_flight = TRUE]
    /\ router' = [router EXCEPT ![r] = [pc |-> "body", token |-> gate.generation]]
    /\ UNCHANGED <<session, typer, last>>

\* inject_reserved(body): Ok(true), or Ok(false) / Err, after which the caller
\* finishes without sending Enter.
WriteBody(r) ==
    /\ router[r].pc = "body"
    /\ \/ /\ Holds(r)
          /\ last' = [by |-> r, part |-> "body"]
          /\ router' = [router EXCEPT ![r].pc = "enter"]
       \/ /\ router' = [router EXCEPT ![r].pc = "finish"]
          /\ UNCHANGED last
    /\ UNCHANGED <<gate, session, typer>>

\* inject_reserved("\r") after SUBMIT_DELAY; its result is ignored.
WriteEnter(r) ==
    /\ router[r].pc = "enter"
    /\ router' = [router EXCEPT ![r].pc = "finish"]
    /\ \/ Holds(r) /\ last' = [by |-> r, part |-> "enter"]
       \/ UNCHANGED last
    /\ UNCHANGED <<gate, session, typer>>

MutFinishDelivery(r) ==  \* any thread's finish frees the gate
    /\ router[r].pc = "finish"
    /\ gate' = [gate EXCEPT !.in_flight = FALSE]
    /\ router' = [router EXCEPT ![r] = IdleRouter]
    /\ UNCHANGED <<session, typer, last>>

FinishDelivery(r) ==
    /\ router[r].pc = "finish"
    /\ gate' = IF gate.in_flight /\ gate.generation = router[r].token
               THEN [gate EXCEPT !.in_flight = FALSE]
               ELSE gate
    /\ router' = [router EXCEPT ![r] = IdleRouter]
    /\ UNCHANGED <<session, typer, last>>

-----------------------------------------------------------------------------
(* The terminal's observation of the composer, and the passing of time.    *)

\* report_input_state: dropped without a handle; a composer that became empty
\* clears the recency stamp.  The stamp of a "submitted" observation is the
\* terminal's own, so it may already be old when it arrives.
ReportInputState(state, fresh) ==
    /\ session.handle
    /\ session' = [session EXCEPT
                     !.observed = state,
                     !.submit_recent = (state = "submitted" /\ fresh),
                     !.input_recent = @ /\ ~(/\ session.observed \in {"drafting", "submitted"}
                                             /\ state = "idle")]
    /\ UNCHANGED <<gate, typer, router, last>>

\* RECENT_LOCAL_INPUT_WINDOW elapses for one of the two stamps.
Elapse ==
    /\ \/ session.input_recent  /\ session' = [session EXCEPT !.input_recent = FALSE]
       \/ session.submit_recent /\ session' = [session EXCEPT !.submit_recent = FALSE]
    /\ UNCHANGED <<gate, typer, router, last>>

-----------------------------------------------------------------------------
(* The life of the child.                                                  *)

\* install_handle: a fresh child under the same session id, over the handle of
\* one that exited and is not forgotten yet, if there is one.
InstallHandle ==
    /\ gate.generation < MaxGeneration
    /\ gate' = Regenerated(gate)
    /\ session' = [handle |-> TRUE, pending |-> FALSE, observed |-> None,
                   submit_recent |-> FALSE, input_recent |-> FALSE]
    /\ last' = NoWrite
    /\ UNCHANGED <<typer, router>>

\* kill after runtime.stop, or forget_runtime_handle after the child exited.
DropHandle ==
    /\ session.handle
    /\ gate.generation < MaxGeneration
    /\ gate' = Regenerated(gate)
    /\ session' = [handle |-> FALSE, pending |-> FALSE, observed |-> None,
                   submit_recent |-> FALSE, input_recent |-> FALSE]
    /\ last' = NoWrite
    /\ UNCHANGED <<typer, router>>

-----------------------------------------------------------------------------
TyperStep(t) ==
    \/ \E class \in InputClasses : InputAtOnce(t, class) \/ InputQueues(t, class)
    \/ InputServed(t)
    \/ InputTimesOut(t)
    \/ InputAbandoned(t)

RouterStep(r) ==
    Reserve(r) \/ WriteBody(r) \/ WriteEnter(r) \/ FinishDelivery(r)

Observe ==
    \E state \in InputStates, fresh \in BOOLEAN : ReportInputState(state, fresh)

Next ==
    \/ \E t \in Typers : TyperStep(t)
    \/ \E r \in Routers : RouterStep(r)
    \/ Observe
    \/ Elapse
    \/ InstallHandle
    \/ DropHandle

Spec == Init /\ [][Next]_vars

\* A delivery thread runs to its end, and the condition variable wakes a waiter
\* that may go.  Nothing forces a timeout, a keystroke or a respawn.
Fairness ==
    /\ \A r \in Routers : WF_vars(WriteBody(r) \/ WriteEnter(r) \/ FinishDelivery(r))
    /\ \A t \in Typers : WF_vars(InputServed(t)) /\ WF_vars(InputAbandoned(t))

FairSpec == Spec /\ Fairness

-----------------------------------------------------------------------------
(* Properties.                                                             *)

\* The in_flight flag is up exactly when one thread of the current generation
\* is between reserve_delivery and finish_delivery: no stale thread of an
\* earlier child can hold or release the gate, and it never leaks.
OneHolder ==
    LET holders == {r \in Routers : /\ router[r].pc # "idle"
                                    /\ router[r].token = gate.generation}
    IN  /\ gate.in_flight <=> holders # {}
        /\ \A r1, r2 \in holders : r1 = r2

\* Every ticket between next_served and next_ticket is either cancelled or
\* held by exactly one thread still waiting in this generation, so the queue
\* of direct input can never stop at a ticket nobody will return.
TicketsAccounted ==
    LET queued(t) == /\ typer[t].pc = "waiting"
                     /\ typer[t].generation = gate.generation
    IN  /\ gate.next_served <= gate.next_ticket
        /\ gate.cancelled \subseteq gate.next_served .. (gate.next_ticket - 1)
        /\ gate.next_served \notin gate.cancelled
        /\ \A k \in gate.next_served .. (gate.next_ticket - 1) :
              (k \notin gate.cancelled) <=> \E t \in Typers : queued(t) /\ typer[t].ticket = k
        /\ \A t \in Typers : queued(t) =>
              typer[t].ticket \in gate.next_served .. (gate.next_ticket - 1)
        /\ \A t1, t2 \in Typers :
              queued(t1) /\ queued(t2) /\ typer[t1].ticket = typer[t2].ticket => t1 = t2

\* No thread carries a token of a generation that is yet to come: what told a
\* dead child's threads from the current ones must never tell them wrong again.
TokensArePast ==
    /\ \A r \in Routers : router[r].pc # "idle" => router[r].token <= gate.generation
    /\ \A t \in Typers : typer[t].pc = "waiting" => typer[t].generation <= gate.generation

\* A sender sleeping before its Enter has its own body as the last thing the
\* child received exactly while the child is the one it reserved.
BodyInComposer ==
    \A r \in Routers :
        router[r].pc = "enter" =>
            (router[r].token = gate.generation <=> last = [by |-> r, part |-> "body"])

\* The inductive invariant.
GateInv == TypeOK /\ OneHolder /\ TicketsAccounted /\ TokensArePast /\ BodyInComposer

\* From a delivery's body to its Enter, 80 ms later, the child receives nothing
\* else: no keystroke and no other delivery joins the draft (unless the child
\* is replaced).  Only an Enter the PTY itself refuses ends this early.
BodyIsFollowedByItsEnter ==
    [][/\ last.part = "body"
       /\ router[last.by].pc = "enter"
       /\ last' # last
       => \/ last' = [by |-> last.by, part |-> "enter"]
          \/ gate'.generation # gate.generation]_vars

\* The router's bare Enter only ever submits its own body: it never submits
\* what a human left in the composer, nor reaches a later child.
EnterSubmitsOwnBody ==
    [][last' # last /\ last'.part = "enter"
         => last = [by |-> last'.by, part |-> "body"]]_vars

\* A thread whose reservation or ticket is of an earlier generation leaves the
\* gate, the session and the composer of the current child alone.
StaleThreadsAreInert ==
    [][/\ \A r \in Routers :
             router'[r] # router[r] /\ router[r].pc # "idle"
                /\ router[r].token # gate.generation
             => UNCHANGED <<gate, session, last>>
       /\ \A t \in Typers :
             typer'[t] # typer[t] /\ typer[t].pc = "waiting"
                /\ typer[t].generation # gate.generation
             => UNCHANGED <<gate, session, last>>]_vars

\* The tickets, the condition variable and the cancelled set implement the
\* lock with an epoch that the router is written against.
Lock == INSTANCE ComposerLock
    WITH MaxEpoch   <- MaxGeneration,
         MaxWaiting <- Cardinality(Typers),
         lock <- [epoch   |-> gate.generation,
                  held    |-> gate.in_flight,
                  waiting |-> Cardinality({t \in Typers :
                                 /\ typer[t].pc = "waiting"
                                 /\ typer[t].generation = gate.generation})]

ImplementsComposerLock == Lock!LockSpec

\* Direct input that is queued behind a delivery is eventually written,
\* refused or told that the session changed, even when its own five-second
\* timeout never fires.
QueuedInputIsAnswered ==
    \A t \in Typers : (typer[t].pc = "waiting") ~> (typer[t].pc = "idle")
=============================================================================
