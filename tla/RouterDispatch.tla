--------------------------- MODULE RouterDispatch ---------------------------
(***************************************************************************)
(* What the router does with the events of the mission log                 *)
(* (crates/runner-backend/src/router/{mod,handlers}.rs): the bus thread    *)
(* hands it every event in file order, the handlers turn events into       *)
(* deliveries, ask_human into a card for the human and the human's answer  *)
(* into a delivery to whoever asked.  The app may end between any two      *)
(* steps; a reopen rebuilds the pending asks from the log and sets a mark  *)
(* at or below which nothing is dispatched again.                          *)
(*                                                                         *)
(* Ids are positions in the log (EventLog keeps ids in file order); what   *)
(* becomes of a delivery is RouterOutbox.  A tick's snapshot of the file   *)
(* is not modelled: the events it leaves out come next, in the same order. *)
(***************************************************************************)
EXTENDS Integers, FiniteSets, SequencesExt

CONSTANTS
    Handles,   \* slot handles of the roster
    Lead,      \* the lead's handle
    Posts,     \* events that agents and the human append, asks and answers apart
    MaxLog,    \* bound: events in the log; an append that would exceed it fails
    MaxBoots   \* bound: times the mission is mounted

Everyone == "everyone"
Router   == "router"
Human    == "human"

DispatchAssumption ==
    /\ Lead \in Handles
    /\ {Everyone, Router, Human} \cap Handles = {}
    /\ MaxLog \in Nat /\ MaxBoots \in Nat
    /\ \A e \in Posts : /\ e.kind \in {"message", "ask_lead", "human_said"}
                        /\ DOMAIN e = {"kind", "from", "to", "ref"}
ASSUME DispatchAssumption

VARIABLES
    log,        \* committed events, in file order
    app,        \* "down"; "folded": router built, no bus yet; "up"
    boots,      \* mounts so far
    pending,    \* pending_asks: question -> asker
    highWater,  \* replay_high_water, 0 when None
    cursor,     \* next event the bus hands to the router
    handler,    \* what the bus thread is doing inside a handler
    since,      \* history: length of the log when the router was built
    handed      \* history: deliveries handed to the outboxes, <<event, handle>>

vars == <<log, app, boots, pending, highWater, cursor, handler, since, handed>>

Event(k, from, to, ref) == [kind |-> k, from |-> from, to |-> to, ref |-> ref]
Ids(k)      == {i \in DOMAIN log : log[i].kind = k}
Room        == Len(log) < MaxLog
NoPending   == [q \in {} |-> Lead]
Resting     == [at |-> "rest", event |-> 0, todo |-> {}, question |-> 0]

Init ==
    /\ log = <<>> /\ handed = <<>>
    /\ app = "down" /\ boots = 0 /\ since = 0
    /\ pending = NoPending /\ highWater = 0 /\ cursor = 1 /\ handler = Resting

-----------------------------------------------------------------------------
(* Other processes and the app's other threads append to the log.           *)

Write(e) ==
    /\ Room
    /\ log' = Append(log, e)
    /\ UNCHANGED <<app, boots, pending, highWater, cursor, handler, since, handed>>

Post     == \E e \in Posts : Write(e)
AskHuman == \E h \in Handles : Write(Event("ask_human", h, Everyone, 0))

\* The card of an answered question may still be on the screen, so that a
\* question is answered twice; question 0 stands for one the log does not hold.
Answer ==
    \E q \in Ids("human_question") \union {0} :
        Write(Event("human_response", Human, Everyone, q))

-----------------------------------------------------------------------------
(* Mounting.  A fresh mission has no mark; a reopened one folds the log.    *)

MountFresh ==
    /\ app = "down" /\ boots = 0 /\ MaxBoots > 0
    /\ app' = "up" /\ boots' = 1 /\ since' = Len(log)
    /\ pending' = NoPending /\ highWater' = 0 /\ cursor' = 1 /\ handler' = Resting
    /\ UNCHANGED <<log, handed>>

MutUnanswered == Ids("human_question")  \* responses are not folded

\* Questions of an earlier ask that no response names, with their askers.
Unanswered ==
    {q \in Ids("human_question") : /\ log[q].ref \in Ids("ask_human")
                                   /\ log[q].ref < q
                                   /\ \A r \in Ids("human_response") : log[r].ref # q}

Asker(q)      == log[log[q].ref].from
Reconstructed == [q \in Unanswered |-> Asker(q)]

MutReconstructFromLog ==  \* no mark
    /\ app = "down" /\ boots \in 1 .. MaxBoots - 1
    /\ app' = "folded" /\ boots' = boots + 1 /\ since' = Len(log)
    /\ pending' = Reconstructed /\ highWater' = 0
    /\ cursor' = 1 /\ handler' = Resting
    /\ UNCHANGED <<log, handed>>

ReconstructFromLog ==
    /\ app = "down" /\ boots \in 1 .. MaxBoots - 1
    /\ app' = "folded" /\ boots' = boots + 1 /\ since' = Len(log)
    /\ pending' = Reconstructed /\ highWater' = Len(log)
    /\ cursor' = 1 /\ handler' = Resting
    /\ UNCHANGED <<log, handed>>

\* What the missions list shows of a mission whose router is not mounted.
MutCountPendingAsksFromLog == Cardinality(Ids("human_question"))
CountPendingAsksFromLog ==
    Cardinality({q \in Ids("human_question") : \A r \in Ids("human_response") : log[r].ref # q})

MutMountBus ==  \* the mark is taken when the bus is mounted
    /\ app = "folded"
    /\ app' = "up" /\ highWater' = Len(log)
    /\ UNCHANGED <<log, boots, pending, cursor, handler, since, handed>>

MountBus ==
    /\ app = "folded"
    /\ app' = "up"
    /\ UNCHANGED <<log, boots, pending, highWater, cursor, handler, since, handed>>

\* The process ends: router and bus are gone, the log stays.
AppEnds ==
    /\ app # "down"
    /\ app' = "down"
    /\ pending' = NoPending /\ highWater' = 0 /\ cursor' = 1 /\ handler' = Resting
    /\ UNCHANGED <<log, boots, since, handed>>

-----------------------------------------------------------------------------
(* The bus thread.  Handlers append while others append, too.               *)

Warn == log' = IF Room THEN Append(log, Event("mission_warning", Router, Everyone, 0))
                       ELSE log

NextEvent == log[cursor]

Arrives ==
    /\ app = "up" /\ handler = Resting
    /\ cursor \in DOMAIN log
    /\ cursor' = cursor + 1
    /\ UNCHANGED <<app, boots, highWater, since, handed>>

Live == cursor > highWater

\* What history holds, and events the router only observes.
Ignore ==
    /\ Arrives
    /\ Live => NextEvent.kind \in {"human_question", "mission_warning"}
    /\ UNCHANGED <<log, pending, handler>>

Recipients(e) ==
    CASE e.kind = "ask_lead"   -> {Lead}
      [] e.kind = "human_said" -> {e.to}
      [] e.kind = "message"    -> IF e.to = Everyone THEN Handles \ {e.from}
                                                     ELSE {e.to} \ {e.from, Human}

Hands(todo) == [at |-> "hand", event |-> cursor, todo |-> todo, question |-> 0]

DispatchRelay ==
    /\ Arrives /\ Live
    /\ NextEvent.kind \in {"message", "ask_lead", "human_said"}
    /\ handler' = Hands(Recipients(NextEvent))
    /\ UNCHANGED <<log, pending>>

\* ask_human: the card is appended first, and recorded under the card's id.
DispatchAsk ==
    /\ Arrives /\ Live /\ NextEvent.kind = "ask_human"
    /\ \/ /\ Room
          /\ log' = Append(log, Event("human_question", Router, Everyone, cursor))
          /\ handler' = [at |-> "record", event |-> cursor, todo |-> {},
                        question |-> Len(log) + 1]
       \/ ~Room /\ UNCHANGED <<log, handler>>  \* the append failed
    /\ UNCHANGED pending

RecordPendingAsk ==
    /\ handler.at = "record"
    /\ pending' = [q \in DOMAIN pending \union {handler.question} |->
                     IF q = handler.question THEN log[handler.event].from ELSE pending[q]]
    /\ handler' = Resting
    /\ UNCHANGED <<log, app, boots, highWater, cursor, since, handed>>

MutDispatchResponse ==  \* the ask stays pending
    LET q == NextEvent.ref IN
    /\ Arrives /\ Live /\ NextEvent.kind = "human_response"
    /\ IF q \in DOMAIN pending
       THEN handler' = Hands({pending[q]}) /\ UNCHANGED <<pending, log>>
       ELSE Warn /\ UNCHANGED <<pending, handler>>

DispatchResponse ==
    LET q == NextEvent.ref IN
    /\ Arrives /\ Live /\ NextEvent.kind = "human_response"
    /\ IF q \in DOMAIN pending
       THEN /\ pending' = [p \in DOMAIN pending \ {q} |-> pending[p]]
            /\ handler' = Hands({pending[q]})
            /\ UNCHANGED log
       ELSE /\ Warn
            /\ UNCHANGED <<pending, handler>>

\* inject_and_submit / inject_inbox_nudge for one recipient.  The outbox warns
\* when it parks the first delivery for an absent agent; a handle without a
\* session is only warned about.
HandOver ==
    /\ handler.at = "hand"
    /\ \E h \in handler.todo :
         /\ \/ /\ h \in Handles
               /\ handed' = Append(handed, <<handler.event, h>>)
               /\ Warn \/ UNCHANGED log
            \/ /\ h \notin Handles
               /\ Warn
               /\ UNCHANGED handed
         /\ handler' = [handler EXCEPT !.todo = @ \ {h}]
    /\ UNCHANGED <<app, boots, pending, highWater, cursor, since>>

HandlerReturns ==
    /\ handler.at = "hand" /\ handler.todo = {}
    /\ handler' = Resting
    /\ UNCHANGED <<log, app, boots, pending, highWater, cursor, since, handed>>

Bus == \/ Ignore \/ DispatchRelay \/ DispatchAsk \/ DispatchResponse
       \/ RecordPendingAsk \/ HandOver \/ HandlerReturns

Next ==
    \/ Post \/ AskHuman \/ Answer
    \/ MountFresh \/ ReconstructFromLog \/ MountBus \/ AppEnds
    \/ Ignore \/ DispatchRelay \/ DispatchAsk \/ DispatchResponse
    \/ RecordPendingAsk \/ HandOver \/ HandlerReturns

Spec     == Init /\ [][Next]_vars
FairSpec == Spec /\ WF_vars(Bus) /\ WF_vars(MountBus)

-----------------------------------------------------------------------------
(* Properties.                                                              *)

Kinds   == {"ask_human", "human_question", "human_response", "mission_warning"}
Events  == Posts \union [kind : Kinds, from : Handles \union {Router, Human},
                         to : {Everyone}, ref : Nat]
Targets == Handles \union {e.to : e \in Posts}

\* Every variable holds a value of its kind; the bus is never past the log, a
\* pending question is one, and its asker has a slot (RouterState, BusState).
TypeOK ==
    /\ log \in Seq(Events) /\ Len(log) <= MaxLog
    /\ app \in {"down", "folded", "up"} /\ boots \in 0 .. MaxBoots
    /\ DOMAIN pending \subseteq Ids("human_question")
    /\ \A q \in DOMAIN pending : pending[q] \in Handles
    /\ highWater \in 0 .. Len(log) /\ since \in 0 .. Len(log)
    /\ cursor \in 1 .. Len(log) + 1
    /\ handler \in [at : {"rest", "hand", "record"}, event : 0 .. Len(log),
                    todo : SUBSET Targets, question : 0 .. Len(log)]
    /\ handed \in Seq((1 .. Len(log)) \X Handles)

\* Across all restarts, deliveries are handed over in file order and none twice:
\* the initial replay of a reopened mission types nothing into an agent that it
\* was already given (handle_event's mark, handlers.rs).
HandedInLogOrder ==
    \A i, j \in DOMAIN handed :
        i < j => handed[i][1] <= handed[j][1] /\ handed[i] # handed[j]

\* An answer goes to the one who asked, and one answer only to each question,
\* however often it is answered and whenever the app ends (ask_human,
\* human_response, take_pending_ask, reconstruct_from_log).
Answered == {i \in DOMAIN handed : log[handed[i][1]].kind = "human_response"}
QuestionOf(i) == log[handed[i][1]].ref
AnswersGoToTheAsker ==
    /\ \A i \in Answered : handed[i][2] = Asker(QuestionOf(i))
    /\ \A i, j \in Answered : i # j => QuestionOf(i) # QuestionOf(j)

\* The pending asks that dispatching built up, one event at a time, are those a
\* reopen would read off the log, up to the responses still to be dispatched
\* ("a reopen sees the same state as the live registry would have").
Dispatched == {i \in DOMAIN log : i < cursor \/ i <= highWater}
StillOpen  == {q \in Ids("human_question") :
                 \A r \in Ids("human_response") \intersect Dispatched : log[r].ref # q}
PendingAgreesWithLog ==
    app # "down" /\ handler.at # "record" =>
        /\ DOMAIN pending = StillOpen
        /\ \A q \in DOMAIN pending : pending[q] = Asker(q)

\* The missions list shows the same number of pending asks from the live router
\* and from the file, once the bus has caught up (mission_list_summary).
BadgeAgreesWithFile ==
    app = "up" /\ handler = Resting /\ cursor > Len(log) =>
        Cardinality(DOMAIN pending) = CountPendingAsksFromLog

\* Whatever is asked while the router exists is put to the human, unless the app
\* ends first or the card cannot be written, also when it was asked between the
\* fold and the mount of the bus (ensure_mission_router_mounted): again and again
\* no such ask is left.
Posed(i) == \E q \in Ids("human_question") : log[q].ref = i
AsksArePosed ==
    []<>(app = "down" \/ ~Room \/ \A i \in Ids("ask_human") : i > since => Posed(i))
=============================================================================
