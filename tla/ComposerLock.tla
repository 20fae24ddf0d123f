---------------------------- MODULE ComposerLock ----------------------------
(***************************************************************************)
(* What the session manager promises of one agent's composer: a lock with  *)
(* an epoch.  DeliveryGate implements it with tickets and a condition      *)
(* variable; RouterOutbox is written against it.                           *)
(*                                                                         *)
(*   - the router holds the composer from a granted reservation until the  *)
(*     release that carries the same epoch, or until the child goes;       *)
(*   - direct input is written only while nobody holds the composer; input *)
(*     that has to wait is counted, and a reservation is refused while any *)
(*     is waiting;                                                         *)
(*   - a child that goes or comes starts a new epoch with a free composer. *)
(***************************************************************************)
EXTENDS Integers

CONSTANTS
    None,      \* no observation of the composer yet
    MaxEpoch,  \* bound: children installed or dropped
    MaxWaiting \* bound: direct inputs waiting at once

VARIABLES
    lock,      \* epoch, whether the router holds it, inputs waiting for it
    session    \* the child's presence and what is known of its draft

lvars == <<lock, session>>

InputClasses == {"set", "clear", "activity"}
InputStates  == {"idle", "drafting", "submitted"}

LockTypeOK ==
    /\ lock \in [epoch : Nat, held : BOOLEAN, waiting : Nat]
    /\ session \in [handle : BOOLEAN, pending : BOOLEAN,
                    observed : InputStates \cup {None},
                    submit_recent : BOOLEAN, input_recent : BOOLEAN]

Blank(present) ==
    [handle |-> present, pending |-> FALSE, observed |-> None,
     submit_recent |-> FALSE, input_recent |-> FALSE]

LockInit ==
    /\ lock = [epoch |-> 0, held |-> FALSE, waiting |-> 0]
    /\ session = Blank(FALSE)

\* DeliveryReservation, in the order reserve_delivery decides it.
Reservation ==
    CASE ~session.handle                                    -> "unavailable"
      [] session.handle /\ (lock.held \/ lock.waiting # 0)  -> "in_flight"
      [] OTHER ->
         IF session.observed = "drafting" \/ (session.observed = None /\ session.pending)
         THEN "pending_input"
         ELSE IF (session.observed = "submitted" /\ session.submit_recent)
                 \/ session.input_recent
              THEN "recently_typing"
              ELSE "ready"

AfterInput(class) ==
    CASE class = "set"      -> [session EXCEPT !.pending = TRUE, !.input_recent = TRUE]
      [] class = "clear"    -> [session EXCEPT !.pending = FALSE,
                                  !.input_recent = (session.observed = "idle")]
      [] class = "activity" -> [session EXCEPT !.input_recent = TRUE]

LockReserve ==
    /\ Reservation = "ready"
    /\ lock' = [lock EXCEPT !.held = TRUE]
    /\ UNCHANGED session

\* A release of another epoch is a no-op.
LockRelease(token) ==
    /\ lock' = IF lock.held /\ lock.epoch = token
               THEN [lock EXCEPT !.held = FALSE]
               ELSE lock
    /\ UNCHANGED session

\* A token writes to the child only while it holds the composer.
MayWrite(token) == session.handle /\ lock.held /\ lock.epoch = token

LockInputAtOnce(class, written) ==
    /\ ~lock.held
    /\ lock.waiting = 0
    /\ written => session.handle
    /\ session' = IF written THEN AfterInput(class) ELSE session
    /\ UNCHANGED lock

LockInputWaits ==
    /\ lock.held \/ lock.waiting # 0
    /\ lock.waiting < MaxWaiting
    /\ lock' = [lock EXCEPT !.waiting = @ + 1]
    /\ UNCHANGED session

LockInputServed(class, written) ==
    /\ ~lock.held
    /\ lock.waiting > 0
    /\ written => session.handle
    /\ lock' = [lock EXCEPT !.waiting = @ - 1]
    /\ session' = IF written THEN AfterInput(class) ELSE session

LockInputGivesUp ==
    /\ lock.waiting > 0
    /\ lock.held \/ lock.waiting > 1
    /\ lock' = [lock EXCEPT !.waiting = @ - 1]
    /\ UNCHANGED session

LockObserve(state, fresh) ==
    /\ session.handle
    /\ session' = [session EXCEPT
                     !.observed = state,
                     !.submit_recent = (state = "submitted" /\ fresh),
                     !.input_recent = @ /\ ~(/\ session.observed \in {"drafting", "submitted"}
                                             /\ state = "idle")]
    /\ UNCHANGED lock

LockElapse ==
    /\ \/ session.input_recent  /\ session' = [session EXCEPT !.input_recent = FALSE]
       \/ session.submit_recent /\ session' = [session EXCEPT !.submit_recent = FALSE]
    /\ UNCHANGED lock

\* A child is installed, or the one that is there is dropped.
LockChild(present) ==
    /\ present \/ session.handle
    /\ lock.epoch < MaxEpoch
    /\ lock' = [epoch |-> lock.epoch + 1, held |-> FALSE, waiting |-> 0]
    /\ session' = Blank(present)

LockNext ==
    \/ LockReserve
    \/ \E token \in 0 .. lock.epoch : LockRelease(token)
    \/ \E class \in InputClasses, written \in BOOLEAN :
          LockInputAtOnce(class, written) \/ LockInputServed(class, written)
    \/ LockInputWaits
    \/ LockInputGivesUp
    \/ \E state \in InputStates, fresh \in BOOLEAN : LockObserve(state, fresh)
    \/ LockElapse
    \/ \E present \in BOOLEAN : LockChild(present)

LockSpec == LockInit /\ [][LockNext]_lvars
=============================================================================
