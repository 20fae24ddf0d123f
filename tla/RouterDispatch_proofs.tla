------------------------ MODULE RouterDispatch_proofs ------------------------
(***************************************************************************)
(* Proofs about RouterDispatch, for any roster and any bounds.             *)
(***************************************************************************)
EXTENDS RouterDispatch, TLAPS

\* Who writes what: only runners ask, only the router writes cards, and each for
\* an earlier ask; a response names an earlier card or none.
LogInv ==
    \A i \in DOMAIN log :
        /\ log[i].kind = "ask_human" => log[i].from \in Handles
        /\ log[i].kind = "human_question" => /\ log[i].ref \in Ids("ask_human")
                                             /\ log[i].ref < i
        /\ log[i].kind = "human_response" => /\ log[i].ref \in Ids("human_question") \union {0}
                                             /\ log[i].ref < i

\* A handler runs for the event before the cursor, which is past the mark.
HandlerInv ==
    /\ app # "up" => handler = Resting
    /\ handler.at # "rest" => /\ handler.event = cursor - 1
                              /\ handler.event > highWater
    /\ handler.at = "rest" => handler = Resting
    /\ handler.at = "record" => /\ log[handler.event].kind = "ask_human"
                                /\ handler.question \in Ids("human_question")
                                /\ handler.question >= cursor
                                /\ log[handler.question].ref = handler.event

\* What was handed over is behind the cursor or behind the mark.
HandedInv ==
    /\ app # "down" => boots > 0
    /\ boots = 0 => handed = <<>>
    /\ app # "down" => \A i \in DOMAIN handed : \/ handed[i][1] < cursor
                                                \/ handed[i][1] <= highWater
    /\ handler.at = "hand" => \A h \in handler.todo :
                                \A i \in DOMAIN handed : handed[i] # <<handler.event, h>>

\* A pending question has not been answered by anything handed over, nor has the
\* question whose answer is about to be handed over.
Settled(q) == \E i \in Answered : QuestionOf(i) = q
Answering == handler.at = "hand" /\ log[handler.event].kind = "human_response"
PendingInv ==
    /\ \A q \in DOMAIN pending : pending[q] = Asker(q) /\ ~Settled(q)
    /\ \A i \in Answered : QuestionOf(i) \in Ids("human_question")
    /\ Answering => \E q \in Ids("human_question") :
                      /\ log[handler.event].ref = q /\ q \notin DOMAIN pending
                      /\ handler.todo \subseteq {Asker(q)}
                      /\ handler.todo # {} => ~Settled(q)

\* The pending asks are the open ones; a card being recorded will be one.
AgreeInv ==
    /\ boots = 0 => Ids("human_question") = {}
    /\ app # "down" /\ handler.at # "record" => DOMAIN pending = StillOpen
    /\ app # "down" /\ handler.at = "record" =>
          /\ handler.question \notin DOMAIN pending
          /\ DOMAIN pending \union {handler.question} = StillOpen

DispatchInv ==
    /\ TypeOK /\ LogInv /\ HandlerInv /\ HandedInv /\ PendingInv /\ AgreeInv
    /\ HandedInLogOrder /\ AnswersGoToTheAsker

-----------------------------------------------------------------------------
(* The log only grows, by events that are well-formed where they stand.     *)

NewEvent(e) ==
    /\ e \in Events
    /\ e.kind = "ask_human" => e.from \in Handles
    /\ e.kind = "human_question" => e.ref \in Ids("ask_human")
    /\ e.kind = "human_response" => e.ref \in Ids("human_question") \union {0}

Grows == \/ log' = log
         \/ Room /\ \E e : NewEvent(e) /\ log' = Append(log, e)

\* What was written stays where it is.
Stable ==
    /\ log' \in Seq(Events) /\ Len(log') \in Len(log) .. Len(log) + 1 /\ Len(log') <= MaxLog
    /\ \A i \in 1 .. Len(log) : log'[i] = log[i]

\* A log that only grows keeps what was said of its events.
LEMMA GrowthIsStable ==
    ASSUME DispatchAssumption, TypeOK, LogInv, Grows
    PROVE  Stable /\ LogInv'
<1>1. log \in Seq(Events) /\ Len(log) \in Nat /\ Len(log) <= MaxLog /\ MaxLog \in Nat
      /\ DOMAIN log = 1 .. Len(log)
  BY DEF TypeOK, DispatchAssumption
<1>2. CASE log' = log
  <2>1. Stable
    BY <1>1, <1>2 DEF Stable
  <2>2. LogInv'
    BY <1>2 DEF LogInv, Ids
  <2> QED BY <2>1, <2>2
<1>3. CASE Room /\ \E e : NewEvent(e) /\ log' = Append(log, e)
  <2>1. PICK e : NewEvent(e) /\ log' = Append(log, e)
    BY <1>3
  <2>2. /\ log' \in Seq(Events) /\ Len(log') = Len(log) + 1
        /\ \A i \in 1 .. Len(log) : log'[i] = log[i]
        /\ log'[Len(log) + 1] = e
        /\ DOMAIN log' = 1 .. Len(log) + 1
    BY <1>1, <2>1 DEF NewEvent
  <2>3. Stable
    BY <1>1, <1>3, <2>2 DEF Stable, Room
  <2>4. ASSUME NEW i \in DOMAIN log'
        PROVE  /\ log'[i].kind = "ask_human" => log'[i].from \in Handles
               /\ log'[i].kind = "human_question" =>
                     log'[i].ref \in Ids("ask_human") /\ log'[i].ref < i
               /\ log'[i].kind = "human_response" =>
                     log'[i].ref \in Ids("human_question") \union {0} /\ log'[i].ref < i
    <3>1. CASE i \in DOMAIN log
      BY <1>1, <2>2, <3>1 DEF LogInv
    <3>2. CASE i = Len(log) + 1
      BY <1>1, <2>1, <2>2, <3>2 DEF NewEvent, Ids
    <3> QED BY <1>1, <2>2, <3>1, <3>2
  <2>5. Ids("ask_human") \subseteq Ids("ask_human")' /\ Ids("human_question") \subseteq Ids("human_question")'
    BY <1>1, <2>2 DEF Ids
  <2> QED BY <2>3, <2>4, <2>5 DEF LogInv
<1> QED BY <1>2, <1>3 DEF Grows

\* The fields of an event that the router or the human writes.
LEMMA EventsOfTheRouter ==
    ASSUME DispatchAssumption, NEW k \in Kinds, NEW f \in Handles \union {Router, Human}, NEW r \in Nat
    PROVE  /\ Event(k, f, Everyone, r) \in Events
           /\ Event(k, f, Everyone, r).kind = k
           /\ Event(k, f, Everyone, r).from = f
           /\ Event(k, f, Everyone, r).ref = r
  BY DEF Event, Events

\* Every step appends at most one event.
LEMMA StepsGrow ==
    ASSUME DispatchAssumption, TypeOK, LogInv, [Next]_vars
    PROVE  Grows
<1>1. CASE Post
  <2>1. PICK e \in Posts : Write(e)
    BY <1>1 DEF Post
  <2>2. NewEvent(e)
    BY <2>1 DEF NewEvent, Events, DispatchAssumption
  <2> QED BY <2>1, <2>2 DEF Grows, Write
<1>2. CASE AskHuman
  <2>1. PICK h \in Handles : Write(Event("ask_human", h, Everyone, 0))
    BY <1>2 DEF AskHuman
  <2>2. NewEvent(Event("ask_human", h, Everyone, 0))
    BY EventsOfTheRouter DEF NewEvent, Kinds
  <2> QED BY <2>1, <2>2 DEF Grows, Write
<1>3. CASE Answer
  <2>1. PICK q \in Ids("human_question") \union {0} : Write(Event("human_response", Human, Everyone, q))
    BY <1>3 DEF Answer
  <2>2. q \in Nat
    BY DEF Ids, TypeOK
  <2>3. NewEvent(Event("human_response", Human, Everyone, q))
    BY <2>2, EventsOfTheRouter DEF NewEvent, Kinds
  <2> QED BY <2>1, <2>3 DEF Grows, Write
<1>4. ASSUME Warn PROVE Grows
  <2>1. NewEvent(Event("mission_warning", Router, Everyone, 0))
    BY EventsOfTheRouter DEF NewEvent, Kinds
  <2> QED BY <1>4, <2>1 DEF Warn, Grows
<1>5. CASE DispatchAsk
  <2>1. CASE log' = log
    BY <2>1 DEF Grows
  <2>2. CASE Room /\ log' = Append(log, Event("human_question", Router, Everyone, cursor))
    <3>1. cursor \in Ids("ask_human") /\ cursor \in Nat
      BY <1>5 DEF DispatchAsk, Arrives, NextEvent, Ids, TypeOK
    <3>2. NewEvent(Event("human_question", Router, Everyone, cursor))
      BY <3>1, EventsOfTheRouter DEF NewEvent, Kinds
    <3> QED BY <2>2, <3>2 DEF Grows
  <2> QED BY <1>5, <2>1, <2>2 DEF DispatchAsk
<1>6. CASE DispatchResponse
  BY <1>4, <1>6 DEF DispatchResponse, Grows
<1>7. CASE HandOver
  BY <1>4, <1>7 DEF HandOver, Grows
<1>8. CASE \/ MountFresh \/ ReconstructFromLog \/ MountBus \/ AppEnds \/ Ignore
           \/ DispatchRelay \/ RecordPendingAsk \/ HandlerReturns \/ UNCHANGED vars
  BY <1>8 DEF Grows, MountFresh, ReconstructFromLog, MountBus, AppEnds, Ignore,
              DispatchRelay, RecordPendingAsk, HandlerReturns, vars
<1> QED BY <1>1, <1>2, <1>3, <1>5, <1>6, <1>7, <1>8 DEF Next

\* So every step keeps what was said of the log.
LEMMA StepsAreStable ==
    ASSUME DispatchAssumption, TypeOK, LogInv, [Next]_vars
    PROVE  Stable /\ LogInv'
  BY StepsGrow, GrowthIsStable

-----------------------------------------------------------------------------
(* Types, and where the handler stands.                                     *)

\* The steps that only write to the log.
Writes == Post \/ AskHuman \/ Answer

\* A writer touches the log alone.
LEMMA WritesOnlyGrow ==
    Writes => UNCHANGED <<app, boots, pending, highWater, cursor, handler, since, handed>>
  BY DEF Writes, Post, AskHuman, Answer, Write

\* The ids of a kind stay the ids of that kind.
LEMMA StableIds ==
    ASSUME TypeOK, Stable, NEW k
    PROVE  /\ Ids(k) \subseteq Ids(k)' /\ Ids(k) \subseteq 1 .. Len(log)
           /\ \A i \in 1 .. Len(log) : i \in Ids(k)' <=> i \in Ids(k)
           /\ DOMAIN log = 1 .. Len(log) /\ DOMAIN log' = 1 .. Len(log')
           /\ Len(log) \in Nat /\ Len(log') \in Nat /\ Len(log') >= Len(log)
<1>1. log \in Seq(Events) /\ DOMAIN log = 1 .. Len(log) /\ Len(log) \in Nat
  BY DEF TypeOK
<1>2. log' \in Seq(Events) /\ DOMAIN log' = 1 .. Len(log') /\ Len(log') \in Nat /\ Len(log') >= Len(log)
  BY <1>1 DEF Stable
<1> QED BY <1>1, <1>2 DEF Ids, Stable

\* Every step keeps the types.
LEMMA TypeStep ==
    ASSUME DispatchAssumption, TypeOK, LogInv, HandlerInv, [Next]_vars
    PROVE  TypeOK'
<1>1. Stable /\ LogInv'
  BY StepsAreStable
<1>2. /\ Ids("human_question") \subseteq Ids("human_question")'
      /\ Len(log) \in Nat /\ Len(log') \in Nat /\ Len(log') >= Len(log)
      /\ DOMAIN log = 1 .. Len(log)
  BY <1>1, StableIds
<1>3. log' \in Seq(Events) /\ Len(log') <= MaxLog
  BY <1>1 DEF Stable
<1>4. handed \in Seq((1 .. Len(log')) \X Handles)
  <2>1. (1 .. Len(log)) \X Handles \subseteq (1 .. Len(log')) \X Handles
    BY <1>2
  <2>2. \A S, T : S \subseteq T => Seq(S) \subseteq Seq(T)
    OBVIOUS
  <2> QED BY <2>1, <2>2 DEF TypeOK
<1>5. (app' \in {"down", "folded", "up"} /\ boots' \in 0 .. MaxBoots)
  BY DEF TypeOK, DispatchAssumption, Next, vars, Writes, Post, AskHuman, Answer, Write, MountFresh,
         ReconstructFromLog, MountBus, AppEnds, Ignore, DispatchRelay, DispatchAsk,
         DispatchResponse, RecordPendingAsk, HandOver, HandlerReturns, Arrives
<1>6. highWater' \in 0 .. Len(log') /\ since' \in 0 .. Len(log') /\ cursor' \in 1 .. Len(log') + 1
  <2>1. CASE Arrives /\ UNCHANGED <<boots, highWater, since>>
    BY <1>2, <2>1 DEF TypeOK, Arrives
  <2>2. CASE UNCHANGED <<highWater, since, cursor>>
    BY <1>2, <2>2 DEF TypeOK
  <2>3. CASE log' = log /\ cursor' = 1 /\ highWater' \in {0, Len(log)} /\ since' \in {since, Len(log)}
    BY <1>2, <2>3 DEF TypeOK
  <2>4. \/ Arrives /\ UNCHANGED <<boots, highWater, since>>
        \/ UNCHANGED <<highWater, since, cursor>>
        \/ log' = log /\ cursor' = 1 /\ highWater' \in {0, Len(log)} /\ since' \in {since, Len(log)}
    BY DEF Next, vars, Post, AskHuman, Answer, Write, MountFresh, ReconstructFromLog, MountBus,
           AppEnds, Ignore, DispatchRelay, DispatchAsk, DispatchResponse, RecordPendingAsk,
           HandOver, HandlerReturns, Arrives
  <2> QED BY <2>1, <2>2, <2>3, <2>4
<1>7. handler' \in [at : {"rest", "hand", "record"}, event : 0 .. Len(log'),
                    todo : SUBSET Targets, question : 0 .. Len(log')]
  <2>1. handler \in [at : {"rest", "hand", "record"}, event : 0 .. Len(log'),
                     todo : SUBSET Targets, question : 0 .. Len(log')]
    BY <1>2 DEF TypeOK
  <2>2. Resting \in [at : {"rest", "hand", "record"}, event : 0 .. Len(log'),
                     todo : SUBSET Targets, question : 0 .. Len(log')]
    BY <1>2 DEF Resting
  <2>3. ASSUME cursor \in DOMAIN log, NEW S \in SUBSET Targets
        PROVE  Hands(S) \in [at : {"rest", "hand", "record"}, event : 0 .. Len(log'),
                     todo : SUBSET Targets, question : 0 .. Len(log')]
    BY <1>2, <2>3 DEF Hands
  <2>4. CASE DispatchRelay
    <3>1. NextEvent \in Events /\ NextEvent.kind \in {"message", "ask_lead", "human_said"}
      BY <2>4 DEF DispatchRelay, Arrives, NextEvent, TypeOK
    <3>2. NextEvent \in Posts
      BY <3>1 DEF Events, Kinds
    <3>3. Recipients(NextEvent) \in SUBSET Targets
      BY <3>1, <3>2 DEF Recipients, Targets, DispatchAssumption
    <3> QED BY <2>3, <2>4, <3>3 DEF DispatchRelay, Arrives
  <2>5. CASE DispatchAsk
    <3>1. CASE ~Room /\ UNCHANGED <<log, handler>>
      BY <2>1, <3>1
    <3>2. CASE /\ log' = Append(log, Event("human_question", Router, Everyone, cursor))
               /\ handler' = [at |-> "record", event |-> cursor, todo |-> {},
                              question |-> Len(log) + 1]
      <4>1. Len(log') = Len(log) + 1
        BY <3>2 DEF TypeOK
      <4>2. cursor \in DOMAIN log
        BY <2>5 DEF DispatchAsk, Arrives
      <4> QED BY <1>2, <3>2, <4>1, <4>2
    <3> QED BY <2>5, <3>1, <3>2 DEF DispatchAsk
  <2>6. CASE DispatchResponse
    <3>1. CASE NextEvent.ref \in DOMAIN pending
      <4>1. {pending[NextEvent.ref]} \in SUBSET Targets
        BY <3>1 DEF TypeOK, Targets
      <4> QED BY <2>3, <2>6, <3>1, <4>1 DEF DispatchResponse, Arrives
    <3>2. CASE NextEvent.ref \notin DOMAIN pending
      BY <2>1, <2>6, <3>2 DEF DispatchResponse
    <3> QED BY <3>1, <3>2
  <2>7. CASE HandOver
    BY <2>1, <2>7 DEF HandOver
  <2>8. CASE Writes \/ UNCHANGED vars
    BY <2>1, <2>8, WritesOnlyGrow DEF vars
  <2>9. CASE MountFresh \/ ReconstructFromLog \/ AppEnds \/ RecordPendingAsk \/ HandlerReturns
    BY <2>2, <2>9 DEF MountFresh, ReconstructFromLog, AppEnds, RecordPendingAsk, HandlerReturns
  <2>10. CASE MountBus \/ Ignore
    BY <2>1, <2>10 DEF MountBus, Ignore
  <2> QED BY <2>4, <2>5, <2>6, <2>7, <2>8, <2>9, <2>10 DEF Next, Writes
<1>8. handed' \in Seq((1 .. Len(log')) \X Handles)
  <2>1. CASE HandOver
    <3>1. PICK h \in handler.todo :
            \/ h \in Handles /\ handed' = Append(handed, <<handler.event, h>>)
            \/ UNCHANGED handed
      BY <2>1 DEF HandOver
    <3>2. handler.event \in 1 .. Len(log')
      BY <1>2, <2>1 DEF HandOver, HandlerInv, TypeOK
    <3>3. CASE h \in Handles /\ handed' = Append(handed, <<handler.event, h>>)
      <4>1. <<handler.event, h>> \in (1 .. Len(log')) \X Handles
        BY <3>2, <3>3
      <4>2. \A S : \A s \in Seq(S) : \A x \in S : Append(s, x) \in Seq(S)
        OBVIOUS
      <4> QED BY <1>4, <3>3, <4>1, <4>2
    <3> QED BY <1>4, <3>1, <3>3
  <2>2. CASE ~HandOver
    <3>1. UNCHANGED handed
      BY <2>2, WritesOnlyGrow DEF Next, vars, Writes, MountFresh, ReconstructFromLog, MountBus,
           AppEnds, Ignore, DispatchRelay, DispatchAsk, DispatchResponse, RecordPendingAsk,
           HandlerReturns, Arrives
    <3> QED BY <1>4, <3>1
  <2> QED BY <2>1, <2>2
<1>9. /\ DOMAIN pending' \subseteq Ids("human_question")'
      /\ \A q \in DOMAIN pending' : pending'[q] \in Handles
  <2>1. CASE UNCHANGED pending
    BY <1>2, <2>1 DEF TypeOK
  <2>2. CASE pending' = NoPending
    BY <2>2 DEF NoPending
  <2>3. CASE ReconstructFromLog
    <3>1. pending' = Reconstructed /\ log' = log
      BY <2>3 DEF ReconstructFromLog
    <3>2. Unanswered \subseteq Ids("human_question")
      BY DEF Unanswered
    <3>3. \A q \in Unanswered : Asker(q) \in Handles
      BY DEF Asker, Unanswered, LogInv, Ids
    <3> QED BY <1>2, <3>1, <3>2, <3>3 DEF Reconstructed
  <2>4. CASE RecordPendingAsk
    <3>1. /\ handler.question \in Ids("human_question")
          /\ log[handler.event].kind = "ask_human" /\ handler.event \in DOMAIN log
      BY <1>2, <2>4 DEF RecordPendingAsk, HandlerInv, TypeOK
    <3>2. log[handler.event].from \in Handles
      BY <3>1 DEF LogInv
    <3> QED BY <1>2, <2>4, <3>1, <3>2 DEF RecordPendingAsk, TypeOK
  <2>5. CASE DispatchResponse
    BY <1>2, <2>1, <2>5 DEF DispatchResponse, TypeOK
  <2>6. \/ UNCHANGED pending \/ pending' = NoPending
        \/ ReconstructFromLog \/ RecordPendingAsk \/ DispatchResponse
    BY WritesOnlyGrow DEF Next, vars, Writes, MountFresh, MountBus,
           AppEnds, Ignore, DispatchRelay, DispatchAsk, HandOver, HandlerReturns
  <2> QED BY <2>1, <2>2, <2>3, <2>4, <2>5, <2>6
<1> QED BY <1>3, <1>5, <1>6, <1>7, <1>8, <1>9 DEF TypeOK

\* Every step keeps the handler on an event of the log.
LEMMA HandlerStep ==
    ASSUME DispatchAssumption, TypeOK, LogInv, HandlerInv, [Next]_vars
    PROVE  HandlerInv'
<1>1. /\ Stable
      /\ Ids("human_question") \subseteq Ids("human_question")'
      /\ Len(log) \in Nat /\ Len(log') \in Nat /\ Len(log') >= Len(log)
      /\ DOMAIN log = 1 .. Len(log)
  BY StepsAreStable, StableIds
<1>2. /\ cursor \in 1 .. Len(log) + 1 /\ highWater \in 0 .. Len(log)
      /\ handler.event \in 0 .. Len(log) /\ handler.question \in 0 .. Len(log)
  BY DEF TypeOK
<1>3. CASE UNCHANGED <<app, cursor, highWater, handler>>
  <2>1. handler.at = "record" => handler.event \in 1 .. Len(log) /\ handler.question \in 1 .. Len(log)
    BY <1>1, <1>2 DEF HandlerInv, Ids
  <2> QED BY <1>1, <1>3, <2>1 DEF HandlerInv, Stable
<1>4. CASE handler' = Resting
  BY <1>4 DEF HandlerInv, Resting
<1>5. CASE /\ UNCHANGED <<app, highWater>> /\ app = "up" /\ Live /\ cursor' = cursor + 1
           /\ \E S : handler' = Hands(S)
  BY <1>2, <1>5 DEF HandlerInv, Hands, Live
<1>6. CASE DispatchAsk /\ handler' # handler
  <2>1. /\ log' = Append(log, Event("human_question", Router, Everyone, cursor))
        /\ handler' = [at |-> "record", event |-> cursor, todo |-> {}, question |-> Len(log) + 1]
        /\ app = "up" /\ UNCHANGED <<app, highWater>> /\ cursor' = cursor + 1
        /\ cursor \in DOMAIN log /\ log[cursor].kind = "ask_human" /\ cursor > highWater
    BY <1>6 DEF DispatchAsk, Arrives, Live, NextEvent
  <2>2. /\ log'[Len(log) + 1] = Event("human_question", Router, Everyone, cursor)
        /\ DOMAIN log' = 1 .. Len(log) + 1
        /\ log'[cursor] = log[cursor]
    BY <1>1, <2>1 DEF TypeOK
  <2>3. Len(log) + 1 \in Ids("human_question")' /\ log'[Len(log) + 1].ref = cursor
    BY <1>1, <2>2 DEF Ids, Event
  <2> QED BY <1>1, <1>2, <2>1, <2>2, <2>3 DEF HandlerInv
<1>7. CASE HandOver
  <2>1. /\ UNCHANGED <<app, cursor, highWater>> /\ handler.at = "hand"
        /\ \E h : handler' = [handler EXCEPT !.todo = @ \ {h}]
    BY <1>7 DEF HandOver
  <2>2. handler'.at = "hand" /\ handler'.event = handler.event
    BY <2>1 DEF TypeOK
  <2>3. app = "up"
    BY <2>1 DEF HandlerInv, Resting
  <2> QED BY <2>1, <2>2, <2>3 DEF HandlerInv
<1>8. CASE MountBus
  BY <1>8 DEF MountBus, HandlerInv, Resting
<1>9. CASE Ignore \/ DispatchAsk \/ DispatchResponse
  <2>1. handler = Resting
    BY <1>9 DEF Ignore, DispatchAsk, DispatchResponse, Arrives
  <2> QED BY <1>4, <1>5, <1>6, <1>9, <2>1 DEF Ignore, DispatchAsk, DispatchResponse, Arrives
<1>10. CASE Writes \/ UNCHANGED vars
  BY <1>3, <1>10, WritesOnlyGrow DEF vars
<1>11. CASE DispatchRelay
  BY <1>5, <1>11 DEF DispatchRelay, Arrives
<1>12. CASE MountFresh \/ ReconstructFromLog \/ AppEnds \/ RecordPendingAsk \/ HandlerReturns
  BY <1>4, <1>12 DEF MountFresh, ReconstructFromLog, AppEnds, RecordPendingAsk, HandlerReturns
<1> QED BY <1>7, <1>8, <1>9, <1>10, <1>11, <1>12 DEF Next, Writes

-----------------------------------------------------------------------------
(* Nothing is handed over twice, or out of order.                           *)

\* Only HandOver hands over, and it hands over for the running handler.
LEMMA WhoHandsOver ==
    [Next]_vars => UNCHANGED handed \/ HandOver
  BY WritesOnlyGrow DEF Next, vars, Writes, MountFresh, ReconstructFromLog, MountBus,
         AppEnds, Ignore, DispatchRelay, DispatchAsk, DispatchResponse, RecordPendingAsk,
         HandlerReturns, Arrives

\* A hand-over adds one recipient of the event in hand, or none.
LEMMA OneMoreHanded ==
    ASSUME TypeOK, HandlerInv, HandOver
    PROVE  \/ UNCHANGED handed
           \/ \E h \in handler.todo \intersect Handles :
                /\ handler' = [handler EXCEPT !.todo = @ \ {h}]
                /\ Len(handed) \in Nat
                /\ DOMAIN handed = 1 .. Len(handed)
                /\ DOMAIN handed' = 1 .. Len(handed) + 1
                /\ handed'[Len(handed) + 1] = <<handler.event, h>>
                /\ \A i \in DOMAIN handed : handed'[i] = handed[i]
<1>1. PICK h \in handler.todo :
        /\ \/ h \in Handles /\ handed' = Append(handed, <<handler.event, h>>)
           \/ UNCHANGED handed
        /\ handler' = [handler EXCEPT !.todo = @ \ {h}]
  BY DEF HandOver
<1>2. handed \in Seq((1 .. Len(log)) \X Handles)
  BY DEF TypeOK
<1>3. CASE h \in Handles /\ handed' = Append(handed, <<handler.event, h>>)
  <2>1. /\ Len(handed) \in Nat
        /\ DOMAIN handed = 1 .. Len(handed)
        /\ DOMAIN handed' = 1 .. Len(handed) + 1
        /\ handed'[Len(handed) + 1] = <<handler.event, h>>
        /\ \A i \in DOMAIN handed : handed'[i] = handed[i]
    BY <1>2, <1>3
  <2> QED BY <1>1, <1>3, <2>1
<1> QED BY <1>1, <1>3

\* Every step keeps what was handed in the order of the log.
LEMMA HandedStep ==
    ASSUME DispatchAssumption, TypeOK, LogInv, HandlerInv, HandedInv, HandedInLogOrder, [Next]_vars
    PROVE  HandedInv' /\ HandedInLogOrder'
<1>1. /\ cursor \in Nat \ {0} /\ highWater \in 0 .. Len(log) /\ Len(log) \in Nat
      /\ boots \in Nat
      /\ \A i \in DOMAIN handed : handed[i][1] \in 1 .. Len(log)
  BY DEF TypeOK
<1>2. CASE HandOver /\ ~UNCHANGED handed
  <2>1. PICK h \in handler.todo \intersect Handles :
             /\ handler' = [handler EXCEPT !.todo = @ \ {h}]
             /\ Len(handed) \in Nat
             /\ DOMAIN handed = 1 .. Len(handed)
             /\ DOMAIN handed' = 1 .. Len(handed) + 1
             /\ handed'[Len(handed) + 1] = <<handler.event, h>>
             /\ \A i \in DOMAIN handed : handed'[i] = handed[i]
    BY <1>2, OneMoreHanded
  <2>2. /\ handler.at = "hand" /\ app = "up" /\ UNCHANGED <<app, boots, cursor, highWater>>
        /\ handler.event = cursor - 1 /\ handler.event > highWater
    BY <1>2 DEF HandOver, HandlerInv, Resting
  <2>3. /\ handler'.at = "hand" /\ handler'.event = handler.event
        /\ handler'.todo = handler.todo \ {h}
    BY <2>1, <2>2 DEF TypeOK
  <2>4. \A i \in DOMAIN handed : handed[i][1] <= handler.event /\ handed[i] # <<handler.event, h>>
    BY <1>1, <2>1, <2>2 DEF HandedInv
  <2>5. HandedInLogOrder'
    BY <1>1, <2>1, <2>2, <2>4 DEF HandedInLogOrder
  <2>6. HandedInv'
    <3>1. boots' > 0
      BY <2>2 DEF HandedInv
    <3>2. \A i \in DOMAIN handed' : handed'[i][1] < cursor' \/ handed'[i][1] <= highWater'
      BY <1>1, <2>1, <2>2 DEF HandedInv
    <3>3. \A g \in handler'.todo : \A i \in DOMAIN handed' : handed'[i] # <<handler'.event, g>>
      BY <2>1, <2>2, <2>3 DEF HandedInv
    <3> QED BY <1>1, <2>2, <3>1, <3>2, <3>3 DEF HandedInv
  <2> QED BY <2>5, <2>6
<1>3. CASE UNCHANGED handed
  <2>1. HandedInLogOrder'
    BY <1>3 DEF HandedInLogOrder
  <2>2. CASE HandOver
    <3>1. UNCHANGED <<app, boots, cursor, highWater>> /\ \E h : handler' = [handler EXCEPT !.todo = @ \ {h}]
      BY <2>2 DEF HandOver
    <3>2. handler'.at = handler.at /\ handler'.event = handler.event /\ handler'.todo \subseteq handler.todo
      BY <3>1 DEF TypeOK
    <3> QED BY <1>3, <2>1, <3>1, <3>2 DEF HandedInv
  <2>3. CASE Arrives /\ (handler' = Resting \/ handler'.at = "record")
    BY <1>1, <1>3, <2>1, <2>3 DEF HandedInv, Arrives, Resting
  <2>4. CASE Arrives /\ Live /\ \E S : handler' = Hands(S)
    <3>1. \A i \in DOMAIN handed : handed[i][1] < cursor
      BY <1>1, <2>4 DEF HandedInv, Arrives, Live
    <3>2. handler'.event = cursor
      BY <2>4 DEF Hands
    <3>3. \A i \in DOMAIN handed : handed[i] # <<handler'.event, handed[i][2]>>
      BY <1>1, <3>1, <3>2
    <3>4. \A h \in handler'.todo : \A i \in DOMAIN handed : handed[i] # <<handler'.event, h>>
      BY <1>1, <3>1, <3>2
    <3> QED BY <1>1, <1>3, <2>1, <2>4, <3>1, <3>4 DEF HandedInv, Arrives
  <2>5. CASE handler' = Resting /\ UNCHANGED <<app, boots, cursor, highWater>>
    BY <1>3, <2>1, <2>5 DEF HandedInv, Resting
  <2>6. CASE MountFresh
    BY <1>1, <1>3, <2>1, <2>6 DEF HandedInv, Resting, MountFresh
  <2>7. CASE ReconstructFromLog
    BY <1>1, <1>3, <2>1, <2>7 DEF HandedInv, Resting, ReconstructFromLog
  <2>8. CASE AppEnds
    BY <1>1, <1>3, <2>1, <2>8 DEF HandedInv, Resting, AppEnds
  <2>9. CASE UNCHANGED <<boots, cursor, highWater, handler>> /\ (app' = "down" <=> app = "down")
    BY <1>3, <2>1, <2>9 DEF HandedInv
  <2>10. CASE Ignore \/ DispatchRelay \/ DispatchAsk \/ DispatchResponse
    <3>1. Arrives /\ handler = Resting
      BY <2>10 DEF Ignore, DispatchRelay, DispatchAsk, DispatchResponse, Arrives
    <3>2. \/ handler' = handler
          \/ handler'.at = "record"
          \/ Live /\ \E S : handler' = Hands(S)
      BY <2>10 DEF Ignore, DispatchRelay, DispatchAsk, DispatchResponse
    <3> QED BY <2>3, <2>4, <3>1, <3>2
  <2>11. CASE RecordPendingAsk \/ HandlerReturns
    BY <2>5, <2>11 DEF RecordPendingAsk, HandlerReturns
  <2>12. CASE Writes \/ MountBus \/ UNCHANGED vars
    BY <2>9, <2>12, WritesOnlyGrow DEF MountBus, vars
  <2> QED BY <2>1, <2>2, <2>6, <2>7, <2>8, <2>10, <2>11, <2>12 DEF Next, Writes
<1> QED BY <1>2, <1>3, WhoHandsOver

-----------------------------------------------------------------------------
(* Answers.                                                                 *)

\* What was handed over, and who asked, is not changed by a growing log.
LEMMA HistoryIsStable ==
    ASSUME DispatchAssumption, TypeOK, LogInv, Stable
    PROVE  /\ \A i \in DOMAIN handed : log'[handed[i][1]] = log[handed[i][1]]
           /\ \A q \in Ids("human_question") : Asker(q)' = Asker(q)
           /\ UNCHANGED handed =>
                 /\ Answered' = Answered
                 /\ \A i \in DOMAIN handed : QuestionOf(i)' = QuestionOf(i)
                 /\ \A q : Settled(q)' <=> Settled(q)
<1>1. /\ DOMAIN log = 1 .. Len(log) /\ Len(log) \in Nat
      /\ \A i \in 1 .. Len(log) : log'[i] = log[i]
  BY StableIds DEF Stable
<1>2. \A i \in DOMAIN handed : handed[i][1] \in 1 .. Len(log)
  BY DEF TypeOK
<1>3. \A i \in DOMAIN handed : log'[handed[i][1]] = log[handed[i][1]]
  BY <1>1, <1>2
<1>4. ASSUME NEW q \in Ids("human_question") PROVE Asker(q)' = Asker(q)
  <2>1. q \in 1 .. Len(log) /\ log[q].ref \in 1 .. Len(log)
    BY <1>1 DEF Ids, LogInv
  <2> QED BY <1>1, <2>1 DEF Asker
<1>5. ASSUME UNCHANGED handed
      PROVE  /\ Answered' = Answered
             /\ \A i \in DOMAIN handed : QuestionOf(i)' = QuestionOf(i)
  BY <1>3, <1>5 DEF Answered, QuestionOf
<1>6. ASSUME UNCHANGED handed, NEW q PROVE Settled(q)' <=> Settled(q)
  BY <1>5, <1>6 DEF Settled, Answered
<1> QED BY <1>3, <1>4, <1>5, <1>6

\* A question that was handed an answer has a response in the log, after it.
LEMMA SettledHasResponse ==
    ASSUME TypeOK, LogInv, NEW q \in Ids("human_question"), Settled(q)
    PROVE  \E i \in DOMAIN handed : /\ handed[i][1] \in Ids("human_response")
                                    /\ log[handed[i][1]].ref = q
                                    /\ q < handed[i][1]
<1>1. PICK i \in Answered : QuestionOf(i) = q
  BY DEF Settled
<1>2. handed[i][1] \in 1 .. Len(log) /\ DOMAIN log = 1 .. Len(log)
  BY <1>1 DEF TypeOK, Answered
<1> QED BY <1>1, <1>2 DEF Answered, QuestionOf, LogInv, Ids

\* Steps that hand nothing over and add nothing to the pending asks.
LEMMA PendingShrinks ==
    ASSUME DispatchAssumption, TypeOK, LogInv, HandlerInv, PendingInv, AnswersGoToTheAsker, Stable,
           UNCHANGED handed,
           \A q \in DOMAIN pending' : q \in DOMAIN pending /\ pending'[q] = pending[q],
           \/ ~Answering'
           \/ /\ handler'.at = handler.at /\ handler'.event = handler.event
              /\ handler'.todo \subseteq handler.todo
    PROVE  PendingInv' /\ AnswersGoToTheAsker'
<1>1. /\ \A q \in Ids("human_question") : Asker(q)' = Asker(q)
      /\ Answered' = Answered
      /\ \A i \in DOMAIN handed : QuestionOf(i)' = QuestionOf(i)
      /\ \A q : Settled(q)' <=> Settled(q)
  BY HistoryIsStable
<1>2. /\ Ids("human_question") \subseteq Ids("human_question")'
      /\ DOMAIN log = 1 .. Len(log)
      /\ \A i \in 1 .. Len(log) : log'[i] = log[i]
  BY StableIds DEF Stable
<1>3. \A q \in DOMAIN pending' : pending'[q] = Asker(q)' /\ ~Settled(q)'
  BY <1>1 DEF PendingInv, TypeOK
<1>4. /\ Answered \subseteq DOMAIN handed
      /\ \A i \in Answered : QuestionOf(i) \in Ids("human_question")
  BY DEF Answered, PendingInv
<1>5. AnswersGoToTheAsker'
  BY <1>1, <1>4 DEF AnswersGoToTheAsker
<1>6. PendingInv'
  <2>1. \A i \in Answered' : QuestionOf(i)' \in Ids("human_question")'
    BY <1>1, <1>2, <1>4
  <2>2. CASE /\ Answering'
             /\ handler'.at = handler.at /\ handler'.event = handler.event
             /\ handler'.todo \subseteq handler.todo
    <3>1. handler.at = "hand" /\ handler.event \in 1 .. Len(log)
      BY <2>2 DEF Answering, HandlerInv, TypeOK
    <3>2. Answering /\ log'[handler.event] = log[handler.event]
      BY <1>2, <2>2, <3>1 DEF Answering
    <3>3. PICK q \in Ids("human_question") :
            /\ log[handler.event].ref = q /\ q \notin DOMAIN pending
            /\ handler.todo \subseteq {Asker(q)}
            /\ handler.todo # {} => ~Settled(q)
      BY <3>2 DEF PendingInv
    <3>4. /\ q \in Ids("human_question")' /\ q \notin DOMAIN pending'
          /\ handler'.todo \subseteq {Asker(q)'}
          /\ handler'.todo # {} => ~Settled(q)'
          /\ log'[handler'.event].ref = q
      BY <1>1, <1>2, <2>2, <3>2, <3>3
    <3> QED BY <1>3, <2>1, <3>4 DEF PendingInv
  <2>3. CASE ~Answering'
    BY <1>3, <2>1, <2>3 DEF PendingInv
  <2> QED BY <2>2, <2>3
<1> QED BY <1>5, <1>6

\* Every step keeps answers with their askers.
LEMMA PendingStep ==
    ASSUME DispatchAssumption, TypeOK, LogInv, HandlerInv, HandedInv, PendingInv,
           AnswersGoToTheAsker, [Next]_vars
    PROVE  PendingInv' /\ AnswersGoToTheAsker'
<1>1. Stable /\ LogInv'
  BY StepsAreStable
<1>2. /\ \A q \in Ids("human_question") : Asker(q)' = Asker(q)
      /\ \A i \in DOMAIN handed : log'[handed[i][1]] = log[handed[i][1]]
      /\ UNCHANGED handed => /\ Answered' = Answered
                             /\ \A i \in DOMAIN handed : QuestionOf(i)' = QuestionOf(i)
                             /\ \A q : Settled(q)' <=> Settled(q)
  BY <1>1, HistoryIsStable
<1>3. /\ Ids("human_question") \subseteq Ids("human_question")'
      /\ DOMAIN log = 1 .. Len(log) /\ Len(log) \in Nat
      /\ \A i \in 1 .. Len(log) : log'[i] = log[i]
  BY <1>1, StableIds DEF Stable
<1>4. CASE Writes \/ MountBus \/ UNCHANGED vars
  <2>1. UNCHANGED <<handed, pending, handler>>
    BY <1>4, WritesOnlyGrow DEF MountBus, vars
  <2> QED BY <1>1, <2>1, PendingShrinks
<1>5. CASE MountFresh \/ AppEnds
  <2>1. UNCHANGED handed /\ pending' = NoPending /\ handler' = Resting
    BY <1>5 DEF MountFresh, AppEnds
  <2> QED BY <1>1, <2>1, PendingShrinks DEF NoPending, Resting, Answering
<1>6. CASE Ignore \/ HandlerReturns
  <2>1. UNCHANGED <<handed, pending>> /\ (handler' = handler \/ handler' = Resting)
    BY <1>6 DEF Ignore, HandlerReturns, Arrives
  <2> QED BY <1>1, <2>1, PendingShrinks DEF Resting, Answering
<1>7. CASE DispatchRelay
  <2>1. /\ UNCHANGED <<handed, pending, log>>
        /\ handler' = Hands(Recipients(NextEvent))
        /\ log[cursor].kind \in {"message", "ask_lead", "human_said"}
    BY <1>7 DEF DispatchRelay, Arrives, NextEvent
  <2>2. ~Answering'
    BY <2>1 DEF Answering, Hands
  <2> QED BY <1>1, <2>1, <2>2, PendingShrinks
<1>8. CASE DispatchAsk
  <2>1. UNCHANGED <<handed, pending>> /\ (handler' = handler \/ handler'.at = "record")
    BY <1>8 DEF DispatchAsk, Arrives
  <2> QED BY <1>1, <2>1, PendingShrinks DEF Answering
<1>9. CASE ReconstructFromLog
  <2>1. /\ UNCHANGED <<log, handed>> /\ pending' = Reconstructed /\ handler' = Resting
    BY <1>9 DEF ReconstructFromLog
  <2>2. ASSUME NEW q \in Unanswered PROVE ~Settled(q)
    BY SettledHasResponse DEF Unanswered
  <2>3. \A q \in DOMAIN pending' : pending'[q] = Asker(q)' /\ ~Settled(q)'
    BY <1>2, <2>1, <2>2 DEF Reconstructed, Unanswered
  <2>5. PendingInv'
    <3>1. ~Answering'
      BY <2>1 DEF Resting, Answering
    <3>2. \A i \in Answered' : QuestionOf(i)' \in Ids("human_question")'
      BY <2>1 DEF PendingInv, Answered, QuestionOf, Ids
    <3> QED BY <2>3, <3>1, <3>2 DEF PendingInv
  <2>4. AnswersGoToTheAsker'
    BY <2>1 DEF AnswersGoToTheAsker, Answered, QuestionOf, Asker
  <2> QED BY <2>4, <2>5
<1>10. CASE RecordPendingAsk
  <2>1. PICK q : q = handler.question
    OBVIOUS
  <2>2. /\ UNCHANGED <<log, handed>> /\ handler' = Resting
        /\ DOMAIN pending' = DOMAIN pending \union {q}
        /\ pending'[q] = log[handler.event].from
        /\ \A p \in DOMAIN pending : p # q => pending'[p] = pending[p]
    BY <1>10, <2>1 DEF RecordPendingAsk
  <2>3. /\ handler.event = cursor - 1 /\ handler.event > highWater
        /\ q \in Ids("human_question") /\ q >= cursor /\ log[q].ref = handler.event
        /\ app = "up"
    BY <1>10, <2>1 DEF RecordPendingAsk, HandlerInv, Resting
  <2>4. ~Settled(q)
    <3>1. SUFFICES ASSUME Settled(q) PROVE FALSE
      OBVIOUS
    <3>2. PICK i \in DOMAIN handed : q < handed[i][1]
      BY <2>3, <3>1, SettledHasResponse
    <3>3. handed[i][1] < cursor \/ handed[i][1] <= highWater
      BY <2>3 DEF HandedInv
    <3> QED BY <1>3, <2>3, <3>2, <3>3 DEF TypeOK, Ids
  <2>5. \A p \in DOMAIN pending' : pending'[p] = Asker(p)' /\ ~Settled(p)'
    BY <1>2, <2>2, <2>3, <2>4 DEF PendingInv, TypeOK, Asker
  <2>6. PendingInv'
    <3>1. ~Answering'
      BY <2>2 DEF Resting, Answering
    <3>2. \A i \in Answered' : QuestionOf(i)' \in Ids("human_question")'
      BY <2>2 DEF PendingInv, Answered, QuestionOf, Ids
    <3> QED BY <2>5, <3>1, <3>2 DEF PendingInv
  <2>7. AnswersGoToTheAsker'
    BY <2>2 DEF AnswersGoToTheAsker, Answered, QuestionOf, Asker
  <2> QED BY <2>6, <2>7
<1>11. CASE DispatchResponse
  <2>1. CASE NextEvent.ref \notin DOMAIN pending
    <3>1. UNCHANGED <<handed, pending, handler>>
      BY <1>11, <2>1 DEF DispatchResponse, Arrives
    <3> QED BY <1>1, <3>1, PendingShrinks
  <2>2. CASE NextEvent.ref \in DOMAIN pending
    <3>1. PICK q \in DOMAIN pending : q = log[cursor].ref
      BY <2>2 DEF NextEvent
    <3>2. /\ UNCHANGED <<log, handed>>
          /\ pending' = [p \in DOMAIN pending \ {q} |-> pending[p]]
          /\ handler' = Hands({pending[q]})
      BY <1>11, <2>2, <3>1 DEF DispatchResponse, NextEvent, Arrives
    <3>3. q \in Ids("human_question") /\ pending[q] = Asker(q) /\ ~Settled(q)
      BY DEF PendingInv, TypeOK
    <3>4. \A p \in DOMAIN pending' : pending'[p] = Asker(p)' /\ ~Settled(p)'
      BY <1>2, <3>2 DEF PendingInv, TypeOK
    <3>5. \A i \in Answered' : QuestionOf(i)' \in Ids("human_question")'
      BY <3>2 DEF PendingInv, Answered, QuestionOf, Ids
    <3>6. /\ q \in Ids("human_question")' /\ q \notin DOMAIN pending'
          /\ log'[handler'.event].ref = q
          /\ handler'.todo \subseteq {Asker(q)'} /\ ~Settled(q)'
      BY <1>2, <1>3, <3>1, <3>2, <3>3 DEF Hands
    <3>7. PendingInv'
      BY <3>4, <3>5, <3>6 DEF PendingInv
    <3>8. AnswersGoToTheAsker'
      BY <3>2 DEF AnswersGoToTheAsker, Answered, QuestionOf, Asker
    <3> QED BY <3>7, <3>8
  <2> QED BY <2>1, <2>2
<1>12. CASE HandOver
  <2>1. CASE UNCHANGED handed
    <3>1. UNCHANGED pending /\ \E h : handler' = [handler EXCEPT !.todo = @ \ {h}]
      BY <1>12 DEF HandOver
    <3>2. /\ handler'.at = handler.at /\ handler'.event = handler.event
          /\ handler'.todo \subseteq handler.todo
      BY <3>1 DEF TypeOK
    <3> QED BY <1>1, <2>1, <3>1, <3>2, PendingShrinks
  <2>2. CASE ~UNCHANGED handed
    <3>1. PICK h \in handler.todo \intersect Handles :
               /\ handler' = [handler EXCEPT !.todo = @ \ {h}]
               /\ Len(handed) \in Nat
               /\ DOMAIN handed = 1 .. Len(handed)
               /\ DOMAIN handed' = 1 .. Len(handed) + 1
               /\ handed'[Len(handed) + 1] = <<handler.event, h>>
               /\ \A i \in DOMAIN handed : handed'[i] = handed[i]
      BY <1>12, <2>2, OneMoreHanded
    <3>2. PICK n : n = Len(handed) + 1
      OBVIOUS
    <3>3. /\ UNCHANGED pending /\ handler.at = "hand" /\ handler.event \in 1 .. Len(log)
          /\ handler'.at = "hand" /\ handler'.event = handler.event
          /\ handler'.todo = handler.todo \ {h}
      BY <1>12, <3>1 DEF HandOver, HandlerInv, TypeOK
    <3>4. /\ DOMAIN handed' = DOMAIN handed \union {n} /\ n \notin DOMAIN handed
          /\ handed'[n] = <<handler.event, h>>
      BY <3>1, <3>2
    <3>5. /\ log'[handler.event] = log[handler.event]
          /\ Answering' <=> Answering
      BY <1>3, <3>3 DEF Answering
    <3>6. /\ Answered' = Answered \union (IF Answering THEN {n} ELSE {})
          /\ \A i \in Answered : /\ i # n /\ QuestionOf(i)' = QuestionOf(i)
                                /\ handed'[i] = handed[i]
          /\ QuestionOf(n)' = log[handler.event].ref
      BY <1>2, <3>1, <3>3, <3>4, <3>5 DEF Answered, QuestionOf, Answering
    <3>7. CASE ~Answering
      <4>1. \A q \in DOMAIN pending' : pending'[q] = Asker(q)' /\ ~Settled(q)'
        BY <1>2, <3>3, <3>6, <3>7 DEF PendingInv, TypeOK, Settled
      <4>2. \A i \in Answered' : QuestionOf(i)' \in Ids("human_question")'
        BY <1>3, <3>6, <3>7 DEF PendingInv
      <4>3. AnswersGoToTheAsker'
        BY <1>2, <3>6, <3>7 DEF AnswersGoToTheAsker, PendingInv
      <4> QED BY <3>5, <3>7, <4>1, <4>2, <4>3 DEF PendingInv
    <3>8. CASE Answering
      <4>1. PICK q \in Ids("human_question") :
              /\ log[handler.event].ref = q /\ q \notin DOMAIN pending
              /\ handler.todo \subseteq {Asker(q)}
              /\ handler.todo # {} => ~Settled(q)
        BY <3>8 DEF PendingInv
      <4>2. handler'.todo = {} /\ h = Asker(q) /\ ~Settled(q)
        BY <3>1, <3>3, <4>1
      <4>3. \A i \in Answered : QuestionOf(i)' # q
        BY <3>6, <4>2 DEF Settled
      <4>4. AnswersGoToTheAsker'
        BY <1>2, <3>4, <3>6, <3>8, <4>1, <4>2, <4>3 DEF AnswersGoToTheAsker, PendingInv
      <4>5. \A p \in DOMAIN pending' : pending'[p] = Asker(p)' /\ ~Settled(p)'
        BY <1>2, <3>3, <3>6, <3>8, <4>1 DEF PendingInv, TypeOK, Settled
      <4>6. \A i \in Answered' : QuestionOf(i)' \in Ids("human_question")'
        BY <1>3, <3>6, <3>8, <4>1 DEF PendingInv
      <4>7. PendingInv'
        BY <1>2, <1>3, <3>3, <3>5, <4>1, <4>2, <4>5, <4>6 DEF PendingInv
      <4> QED BY <4>4, <4>7
    <3> QED BY <3>7, <3>8
  <2> QED BY <2>1, <2>2
<1> QED BY <1>4, <1>5, <1>6, <1>7, <1>8, <1>9, <1>10, <1>11, <1>12 DEF Next, Writes

-----------------------------------------------------------------------------
(* The pending asks and the log.                                            *)

\* A step that adds no card and dispatches no response keeps what is open.
LEMMA StaysOpen ==
    ASSUME TypeOK, LogInv, Stable,
           Ids("human_question")' = Ids("human_question"),
           \/ UNCHANGED <<cursor, highWater>>
           \/ /\ cursor \in DOMAIN log /\ cursor' = cursor + 1 /\ UNCHANGED highWater
              /\ log[cursor].kind # "human_response" \/ ~Live
    PROVE  StillOpen' = StillOpen
<1>1. /\ \A i \in 1 .. Len(log) : i \in Ids("human_response")' <=> i \in Ids("human_response")
      /\ DOMAIN log = 1 .. Len(log) /\ DOMAIN log' = 1 .. Len(log')
      /\ Len(log) \in Nat /\ Len(log') \in Nat /\ Len(log') >= Len(log)
      /\ \A i \in 1 .. Len(log) : log'[i] = log[i]
  BY StableIds DEF Stable
<1>2. cursor \in 1 .. Len(log) + 1 /\ highWater \in 0 .. Len(log)
  BY DEF TypeOK
<1>3. ASSUME NEW r
      PROVE  r \in (Ids("human_response") \intersect Dispatched)'
                <=> r \in Ids("human_response") \intersect Dispatched
  BY <1>1, <1>2 DEF Dispatched, Live, Ids
<1>4. \A r \in Ids("human_response") \intersect Dispatched : log'[r] = log[r]
  BY <1>1 DEF Ids
<1> QED BY <1>3, <1>4 DEF StillOpen

\* Every step keeps the pending asks in agreement with the log.
LEMMA AgreeStep ==
    ASSUME DispatchAssumption, TypeOK, LogInv, HandlerInv, HandedInv, AgreeInv, [Next]_vars
    PROVE  AgreeInv'
<1>1. Stable /\ LogInv'
  BY StepsAreStable
<1>2. /\ DOMAIN log = 1 .. Len(log) /\ DOMAIN log' = 1 .. Len(log')
      /\ Len(log) \in Nat /\ Len(log') \in Nat /\ Len(log') >= Len(log)
      /\ \A i \in 1 .. Len(log) : log'[i] = log[i]
      /\ cursor \in 1 .. Len(log) + 1 /\ highWater \in 0 .. Len(log) /\ boots \in Nat
  BY <1>1, StableIds DEF Stable, TypeOK
<1>3. ASSUME \/ log' = log
             \/ \E e : log' = Append(log, e) /\ e.kind # "human_question"
      PROVE  Ids("human_question")' = Ids("human_question")
  <2>1. CASE log' = log
    BY <2>1 DEF Ids
  <2>2. CASE \E e : log' = Append(log, e) /\ e.kind # "human_question"
    <3>1. PICK e : log' = Append(log, e) /\ e.kind # "human_question"
      BY <2>2
    <3>2. log'[Len(log) + 1] = e /\ Len(log') = Len(log) + 1
      BY <3>1 DEF TypeOK
    <3> QED BY <1>2, <3>1, <3>2 DEF Ids
  <2> QED BY <1>3, <2>1, <2>2
<1>4. ASSUME Warn PROVE Ids("human_question")' = Ids("human_question")
  BY <1>3, <1>4 DEF Warn, Event
<1>5. CASE Writes
  <2>1. \E e : log' = Append(log, e) /\ e.kind # "human_question"
    <3>1. CASE Post
      <4>1. PICK e \in Posts : log' = Append(log, e)
        BY <3>1 DEF Post, Write
      <4>2. e.kind # "human_question"
        BY <4>1 DEF DispatchAssumption
      <4> QED BY <4>1, <4>2
    <3>2. CASE AskHuman
      <4>1. PICK h \in Handles : log' = Append(log, Event("ask_human", h, Everyone, 0))
        BY <3>2 DEF AskHuman, Write
      <4>2. Event("ask_human", h, Everyone, 0).kind # "human_question"
        BY DEF Event
      <4> QED BY <4>1, <4>2
    <3>3. CASE Answer
      <4>1. PICK q : log' = Append(log, Event("human_response", Human, Everyone, q))
        BY <3>3 DEF Answer, Write
      <4>2. Event("human_response", Human, Everyone, q).kind # "human_question"
        BY DEF Event
      <4> QED BY <4>1, <4>2
    <3> QED BY <1>5, <3>1, <3>2, <3>3 DEF Writes
  <2>2. StillOpen' = StillOpen
    BY <1>1, <1>3, <1>5, <2>1, StaysOpen, WritesOnlyGrow
  <2> QED BY <1>3, <1>5, <2>1, <2>2, WritesOnlyGrow DEF AgreeInv
<1>6. CASE MountFresh
  <2>1. Ids("human_question")' = {}
    BY <1>3, <1>6 DEF MountFresh, AgreeInv
  <2> QED BY <1>6, <2>1 DEF MountFresh, AgreeInv, StillOpen, NoPending, Resting
<1>7. CASE ReconstructFromLog
  <2>1. Dispatched' = DOMAIN log
    BY <1>2, <1>7 DEF ReconstructFromLog, Dispatched
  <2>2. StillOpen' = Unanswered
    BY <1>2, <1>7, <2>1 DEF ReconstructFromLog, StillOpen, Unanswered, Ids, LogInv
  <2> QED BY <1>2, <1>7, <2>2 DEF ReconstructFromLog, AgreeInv, Reconstructed, Resting
<1>8. CASE MountBus
  <2>1. StillOpen' = StillOpen /\ Ids("human_question")' = Ids("human_question")
    BY <1>1, <1>3, <1>8, StaysOpen DEF MountBus
  <2> QED BY <1>8, <2>1 DEF MountBus, AgreeInv
<1>9. CASE AppEnds
  BY <1>3, <1>9 DEF AppEnds, AgreeInv
<1>10. CASE Ignore \/ DispatchRelay
  <2>1. /\ log' = log /\ UNCHANGED <<app, boots, pending, highWater>> /\ cursor' = cursor + 1
        /\ cursor \in DOMAIN log
        /\ log[cursor].kind # "human_response" \/ ~Live
        /\ handler = Resting /\ handler'.at # "record"
    BY <1>10 DEF Ignore, DispatchRelay, Arrives, NextEvent, Hands, Resting
  <2>2. Ids("human_question")' = Ids("human_question")
    BY <1>3, <2>1
  <2>3. StillOpen' = StillOpen
    BY <1>1, <2>1, <2>2, StaysOpen
  <2> QED BY <2>1, <2>2, <2>3 DEF AgreeInv, Resting
<1>11. CASE DispatchAsk
  <2>1. /\ UNCHANGED <<app, boots, pending, highWater>> /\ cursor' = cursor + 1
        /\ cursor \in DOMAIN log /\ log[cursor].kind = "ask_human"
        /\ app = "up" /\ handler = Resting
    BY <1>11 DEF DispatchAsk, Arrives, NextEvent
  <2>2. DOMAIN pending = StillOpen /\ boots > 0
    BY <2>1 DEF AgreeInv, HandedInv, Resting
  <2>3. CASE ~Room /\ UNCHANGED <<log, handler>>
    <3>1. Ids("human_question")' = Ids("human_question")
      BY <1>3, <2>3
    <3>2. StillOpen' = StillOpen
      BY <1>1, <2>1, <3>1, StaysOpen
    <3> QED BY <2>1, <2>2, <2>3, <3>2 DEF AgreeInv, Resting
  <2>4. CASE /\ log' = Append(log, Event("human_question", Router, Everyone, cursor))
             /\ handler' = [at |-> "record", event |-> cursor, todo |-> {},
                            question |-> Len(log) + 1]
    <3>1. PICK n : n = Len(log) + 1
      OBVIOUS
    <3>2. log'[n].kind = "human_question" /\ DOMAIN log' = 1 .. n /\ n \notin DOMAIN log
          /\ DOMAIN log' = DOMAIN log \union {n} /\ n \in Nat
      BY <1>2, <2>4, <3>1 DEF Event, TypeOK
    <3>3. Ids("human_question")' = Ids("human_question") \union {n}
      BY <1>2, <3>2 DEF Ids
    <3>4. \A r : r \in (Ids("human_response") \intersect Dispatched)'
                   <=> r \in Ids("human_response") \intersect Dispatched
      BY <1>2, <2>1, <3>1, <3>2 DEF Ids, Dispatched
    <3>5. \A r \in Ids("human_response") \intersect Dispatched : log'[r] = log[r] /\ log[r].ref # n
      BY <1>2, <3>2 DEF Ids, LogInv
    <3>6. StillOpen' = StillOpen \union {n}
      BY <3>3, <3>4, <3>5 DEF StillOpen
    <3>7. n \notin DOMAIN pending
      BY <2>2, <3>2 DEF StillOpen, Ids
    <3>8. handler'.at = "record" /\ handler'.question = n
      BY <2>4, <3>1
    <3> QED BY <2>1, <2>2, <3>6, <3>7, <3>8 DEF AgreeInv
  <2> QED BY <1>11, <2>3, <2>4 DEF DispatchAsk
<1>12. CASE DispatchResponse
  <2>1. /\ UNCHANGED <<app, boots, highWater>> /\ cursor' = cursor + 1
        /\ cursor \in DOMAIN log /\ log[cursor].kind = "human_response"
        /\ app = "up" /\ handler = Resting
    BY <1>12 DEF DispatchResponse, Arrives, NextEvent
  <2>2. DOMAIN pending = StillOpen /\ boots > 0
    BY <2>1 DEF AgreeInv, HandedInv, Resting
  <2>3. PICK q : q = log[cursor].ref
    OBVIOUS
  <2>4. Ids("human_question")' = Ids("human_question")
    BY <1>3, <1>4, <1>12 DEF DispatchResponse
  <2>5. DOMAIN pending' = DOMAIN pending \ {q} /\ handler'.at # "record"
    BY <1>12, <2>1, <2>3 DEF DispatchResponse, NextEvent, Hands, Resting
  <2>6. Dispatched' \intersect DOMAIN log = (Dispatched \intersect DOMAIN log) \union {cursor}
    BY <1>2, <2>1 DEF Dispatched
  <2>7. Dispatched \subseteq DOMAIN log /\ Dispatched' \subseteq DOMAIN log
    BY <1>2, <2>1 DEF Dispatched
  <2>8. (Ids("human_response") \intersect Dispatched)'
          = (Ids("human_response") \intersect Dispatched) \union {cursor}
    BY <1>2, <2>1, <2>6, <2>7 DEF Ids
  <2>9. \A r \in Ids("human_response") \union {cursor} : log'[r] = log[r]
    BY <1>2, <2>1 DEF Ids
  <2>10. StillOpen' = StillOpen \ {q}
    BY <2>3, <2>4, <2>8, <2>9 DEF StillOpen
  <2> QED BY <2>1, <2>2, <2>5, <2>10 DEF AgreeInv
<1>13. CASE RecordPendingAsk
  <2>1. UNCHANGED <<log, cursor, highWater>>
    BY <1>13 DEF RecordPendingAsk
  <2>2. Ids("human_question")' = Ids("human_question")
    BY <1>3, <2>1
  <2>3. StillOpen' = StillOpen
    BY <1>1, <2>1, <2>2, StaysOpen
  <2> QED BY <1>13, <2>2, <2>3 DEF RecordPendingAsk, AgreeInv, Resting
<1>14. CASE HandOver \/ HandlerReturns
  <2>1. Ids("human_question")' = Ids("human_question")
    BY <1>3, <1>4, <1>14 DEF HandOver, HandlerReturns
  <2>2. StillOpen' = StillOpen
    BY <1>1, <1>14, <2>1, StaysOpen DEF HandOver, HandlerReturns
  <2>3. /\ UNCHANGED <<app, boots, pending>> /\ handler.at # "record" /\ handler'.at # "record"
    BY <1>14 DEF HandOver, HandlerReturns, Resting, TypeOK
  <2> QED BY <2>1, <2>2, <2>3 DEF AgreeInv
<1>15. CASE UNCHANGED vars
  <2>1. UNCHANGED <<log, app, boots, pending, highWater, cursor, handler>>
    BY <1>15 DEF vars
  <2>2. Ids("human_question")' = Ids("human_question")
    BY <1>3, <2>1
  <2>3. StillOpen' = StillOpen
    BY <1>1, <2>1, <2>2, StaysOpen
  <2> QED BY <2>1, <2>2, <2>3 DEF AgreeInv
<1> QED BY <1>5, <1>6, <1>7, <1>8, <1>9, <1>10, <1>11, <1>12, <1>13, <1>14, <1>15 DEF Next, Writes

-----------------------------------------------------------------------------
(* The theorems.                                                            *)

\* The invariant holds of an empty log.
LEMMA InvInit ==
    ASSUME DispatchAssumption, Init
    PROVE  DispatchInv
<1>1. /\ log = <<>> /\ handed = <<>> /\ DOMAIN log = {} /\ DOMAIN handed = {} /\ Len(log) = 0
      /\ app = "down" /\ boots = 0 /\ since = 0 /\ highWater = 0 /\ cursor = 1
      /\ DOMAIN pending = {} /\ handler = Resting
  BY DEF Init, NoPending
<1>2. TypeOK
  BY <1>1 DEF TypeOK, DispatchAssumption, Resting, Ids
<1>3. LogInv /\ HandlerInv /\ HandedInv /\ AgreeInv
  BY <1>1 DEF LogInv, HandlerInv, HandedInv, AgreeInv, Resting, Ids
<1>4. PendingInv /\ HandedInLogOrder /\ AnswersGoToTheAsker
  BY <1>1 DEF PendingInv, HandedInLogOrder, AnswersGoToTheAsker, Answered, Answering, Resting
<1> QED BY <1>2, <1>3, <1>4 DEF DispatchInv

\* The log, the mark, the cursor, the pending asks and the running handler fit
\* together as DispatchInv says, however writers, the bus thread, crashes and
\* reopens interleave.
THEOREM DispatchInvariant == Spec => []DispatchInv
<1>1. Init => DispatchInv
  BY DispatchAssumption, InvInit
<1>2. DispatchInv /\ [Next]_vars => DispatchInv'
  <2>1. SUFFICES ASSUME DispatchInv, [Next]_vars PROVE DispatchInv'
    OBVIOUS
  <2>2. /\ TypeOK /\ LogInv /\ HandlerInv /\ HandedInv /\ PendingInv /\ AgreeInv
        /\ HandedInLogOrder /\ AnswersGoToTheAsker
    BY <2>1 DEF DispatchInv
  <2>3. TypeOK' /\ LogInv' /\ HandlerInv'
    BY DispatchAssumption, <2>1, <2>2, TypeStep, StepsAreStable, HandlerStep
  <2>4. HandedInv' /\ HandedInLogOrder'
    BY DispatchAssumption, <2>1, <2>2, HandedStep
  <2>5. PendingInv' /\ AnswersGoToTheAsker'
    BY DispatchAssumption, <2>1, <2>2, PendingStep
  <2>6. AgreeInv'
    BY DispatchAssumption, <2>1, <2>2, AgreeStep
  <2> QED BY <2>3, <2>4, <2>5, <2>6 DEF DispatchInv
<1> QED BY <1>1, <1>2, PTL DEF Spec

\* A pending ask is always a question of the log with a runner to answer to.
THEOREM DispatchTyped == Spec => []TypeOK
<1>1. DispatchInv => TypeOK
  BY DEF DispatchInv
<1> QED BY <1>1, DispatchInvariant, PTL

\* Deliveries are handed over in file order and none twice, across reopens.
THEOREM NothingTwice == Spec => []HandedInLogOrder
<1>1. DispatchInv => HandedInLogOrder
  BY DEF DispatchInv
<1> QED BY <1>1, DispatchInvariant, PTL

\* An answer reaches the one who asked, at most once for each question.
THEOREM AnswerReachesAsker == Spec => []AnswersGoToTheAsker
<1>1. DispatchInv => AnswersGoToTheAsker
  BY DEF DispatchInv
<1> QED BY <1>1, DispatchInvariant, PTL

\* The live registry and the fold of the log agree on what is pending.
THEOREM PendingIsWhatReopenReads == Spec => []PendingAgreesWithLog
<1>1. DispatchInv => PendingAgreesWithLog
  BY DEF DispatchInv, PendingAgreesWithLog, AgreeInv, PendingInv
<1> QED BY <1>1, DispatchInvariant, PTL

\* Once the bus has caught up, the live registry and the missions list count the
\* same pending asks: the open questions are then those no response names.
THEOREM BadgeIsTheFiles == Spec => []BadgeAgreesWithFile
<1>1. ASSUME DispatchInv PROVE BadgeAgreesWithFile
  <2>1. SUFFICES ASSUME app = "up", handler = Resting, cursor > Len(log)
                 PROVE Cardinality(DOMAIN pending) = CountPendingAsksFromLog
    BY DEF BadgeAgreesWithFile
  <2>2. log \in Seq(Events) /\ cursor \in 1 .. Len(log) + 1
    BY <1>1 DEF DispatchInv, TypeOK
  <2>3. \A r \in Ids("human_response") : r \in Dispatched
    BY <2>1, <2>2 DEF Ids, Dispatched
  <2>4. DOMAIN pending = StillOpen
    <3>1. PendingAgreesWithLog
      BY <1>1 DEF DispatchInv, PendingAgreesWithLog, AgreeInv, PendingInv
    <3> QED BY <2>1, <3>1 DEF PendingAgreesWithLog, Resting
  <2>5. StillOpen = {q \in Ids("human_question") :
                       \A r \in Ids("human_response") : log[r].ref # q}
    BY <2>3 DEF StillOpen
  <2> QED BY <2>4, <2>5, Zenon DEF CountPendingAsksFromLog
<1> QED BY <1>1, DispatchInvariant, PTL
=============================================================================
