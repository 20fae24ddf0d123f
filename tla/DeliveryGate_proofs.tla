------------------------- MODULE DeliveryGate_proofs -------------------------
(***************************************************************************)
(* Proofs about DeliveryGate, for any sets of threads and any bounds.      *)
(*                                                                         *)
(* GateInv is inductive.  Its parts need each other: a typed gate has a    *)
(* next ticket to serve only because the tickets are accounted for; one    *)
(* thread holds the gate only because no token is of a generation to come; *)
(* and the body stays the last write only because one thread holds it.     *)
(***************************************************************************)
EXTENDS DeliveryGate, FiniteSetTheorems, WellFoundedInduction, TLAPS

GateStates == [generation : Nat, in_flight : BOOLEAN, next_ticket : Nat,
               next_served : Nat, cancelled : SUBSET Nat]

-----------------------------------------------------------------------------
(* Skipping cancelled tickets.                                             *)

\* A non-empty set of naturals has a least element.
LEMMA LeastNatural ==
  ASSUME NEW T \in SUBSET Nat, T # {}
  PROVE  \E m \in T : \A k \in T : m <= k
  <1>1. \E m \in T : \A k \in T : ~ (<<k, m>> \in OpToRel(<, Nat))
    BY NatLessThanWellFounded, WFMin
  <1>2. PICK m \in T : \A k \in T : ~ (<<k, m>> \in OpToRel(<, Nat))
    BY <1>1
  <1>3. ASSUME NEW k \in T PROVE m <= k
    <2>1. ~ (<<k, m>> \in OpToRel(<, Nat))
      BY <1>2
    <2>2. ~ (k < m)
      BY <2>1 DEF OpToRel
    <2> QED BY <2>2
  <1> QED BY <1>3

\* skip_cancelled_tickets stops at the first ticket that was not cancelled, at
\* the latest at the one not handed out yet.
LEMMA SkipStops ==
  ASSUME NEW g \in GateStates, NEW n \in Nat,
         n <= g.next_ticket, g.next_ticket \notin g.cancelled
  PROVE  /\ FirstUncancelled(g, n) \in n .. g.next_ticket
         /\ FirstUncancelled(g, n) \notin g.cancelled
         /\ \A k \in n .. (FirstUncancelled(g, n) - 1) : k \in g.cancelled
  <1> DEFINE T == {m \in n .. g.next_ticket : m \notin g.cancelled}
  <1>1. g.next_ticket \in T /\ T \in SUBSET Nat
    BY DEF GateStates
  <1>2. PICK m \in T : \A k \in T : m <= k
    BY <1>1, LeastNatural
  <1>3. \A k \in n .. (m - 1) : k \in g.cancelled
    BY <1>2 DEF GateStates
  <1> QED BY <1>2, <1>3 DEF FirstUncancelled

\* What serving a ticket leaves of the gate.
LEMMA ServedGate ==
  ASSUME NEW g \in GateStates, NEW n \in Nat,
         n <= g.next_ticket, g.next_ticket \notin g.cancelled
  PROVE  /\ Served(g, n) \in GateStates
         /\ Served(g, n).generation = g.generation
         /\ Served(g, n).in_flight = g.in_flight
         /\ Served(g, n).next_ticket = g.next_ticket
         /\ Served(g, n).next_served = FirstUncancelled(g, n)
         /\ Served(g, n).cancelled = g.cancelled \ (n .. (FirstUncancelled(g, n) - 1))
  <1> DEFINE m == FirstUncancelled(g, n)
             c == g.cancelled \ (n .. (m - 1))
  <1>1. m \in Nat
    BY SkipStops DEF GateStates
  <1>2. c \in SUBSET Nat
    BY DEF GateStates
  <1>3. Served(g, n) = [g EXCEPT !.next_served = m, !.cancelled = c]
    BY DEF Served
  <1> HIDE DEF m, c
  <1> DEFINE h == [g EXCEPT !.next_served = m, !.cancelled = c]
  <1>4. h \in GateStates
    BY <1>1, <1>2 DEF GateStates
  <1>5. /\ h.generation = g.generation
        /\ h.in_flight = g.in_flight
        /\ h.next_ticket = g.next_ticket
    BY <1>1, <1>2 DEF GateStates
  <1>6. h.next_served = m /\ h.cancelled = c
    BY <1>1, <1>2 DEF GateStates
  <1> QED BY <1>3, <1>4, <1>5, <1>6 DEF m, c

-----------------------------------------------------------------------------
(* Types.                                                                  *)

SessionStates == [handle : BOOLEAN, pending : BOOLEAN, observed : InputStates \cup {None},
                  submit_recent : BOOLEAN, input_recent : BOOLEAN]
TyperStates   == [pc : {"idle", "waiting"}, ticket : Nat, generation : Nat,
                  class : InputClasses]
RouterStates  == [pc : {"idle", "body", "enter", "finish"}, token : Nat]
Writes        == [by : Typers, part : {"local"}]
                 \cup [by : Routers, part : {"body", "enter"}] \cup {NoWrite}

\* TypeOK in terms of the sets the lemmas below are stated with.
LEMMA Typed ==
  TypeOK <=> /\ gate \in GateStates
             /\ session \in SessionStates
             /\ typer \in [Typers -> TyperStates]
             /\ router \in [Routers -> RouterStates]
             /\ last \in Writes
  BY DEF TypeOK, GateStates, SessionStates, TyperStates, RouterStates, Writes

\* Every step keeps the types.
LEMMA TypedNext ==
  TypeOK' <=> /\ gate' \in GateStates
              /\ session' \in SessionStates
              /\ typer' \in [Typers -> TyperStates]
              /\ router' \in [Routers -> RouterStates]
              /\ last' \in Writes
  BY DEF TypeOK, GateStates, SessionStates, TyperStates, RouterStates, Writes

\* The initial and the reset values of the threads are typed.
LEMMA IdleTyped == IdleTyper \in TyperStates /\ IdleRouter \in RouterStates /\ NoWrite \in Writes
  BY DEF IdleTyper, IdleRouter, NoWrite, TyperStates, RouterStates, Writes, InputClasses

\* A local write touches the draft flags and the last write, if it succeeds.
LEMMA LocalWriteTyped ==
  ASSUME session \in SessionStates, last \in Writes,
         NEW t \in Typers, NEW class \in InputClasses, LocalWrite(t, class)
  PROVE  /\ session' \in SessionStates
         /\ last' \in Writes
         /\ last' = last \/ last' = [by |-> t, part |-> "local"]
  <1>1. CASE session.handle /\ session' = AfterInput(session, class)
               /\ last' = [by |-> t, part |-> "local"]
    <2>1. AfterInput(session, class) \in SessionStates
      <3>1. CASE class = "set"
        BY <3>1 DEF AfterInput, SessionStates
      <3>2. CASE class = "clear"
        BY <3>2 DEF AfterInput, SessionStates
      <3>3. CASE class = "activity"
        BY <3>3 DEF AfterInput, SessionStates
      <3> QED BY <3>1, <3>2, <3>3 DEF InputClasses
    <2>2. [by |-> t, part |-> "local"] \in Writes
      BY DEF Writes
    <2> QED BY <1>1, <2>1, <2>2
  <1>2. CASE UNCHANGED <<session, last>>
    BY <1>2
  <1> QED BY <1>1, <1>2 DEF LocalWrite

\* A granted reservation means a child, a free gate and nobody waiting.
LEMMA ReadyMeansFree ==
  ASSUME session \in SessionStates, gate \in GateStates, Reservation = "ready"
  PROVE  session.handle /\ ~gate.in_flight /\ gate.next_ticket = gate.next_served
  BY DEF Reservation, SessionStates, GateStates

\* The initial state satisfies the invariant.
LEMMA InitInv == Init => GateInv
  <1> SUFFICES ASSUME Init PROVE GateInv
    OBVIOUS
  <1>1. TypeOK
    <2>1. gate \in GateStates /\ session \in SessionStates
      BY DEF Init, GateStates, SessionStates
    <2> QED BY <2>1, IdleTyped, Typed DEF Init
  <1>2. OneHolder
    BY DEF Init, OneHolder, IdleRouter
  <1>3. TicketsAccounted
    BY DEF Init, TicketsAccounted, IdleTyper
  <1>4. TokensArePast /\ BodyInComposer
    BY DEF Init, TokensArePast, BodyInComposer, IdleTyper, IdleRouter
  <1> QED BY <1>1, <1>2, <1>3, <1>4 DEF GateInv

-----------------------------------------------------------------------------
(* The steps of a delivery thread keep the invariant.                      *)

\* Whoever may still write to the child is the one holder of the gate.
LEMMA HolderIsUnique ==
  ASSUME OneHolder, NEW r \in Routers, NEW q \in Routers,
         router[r].pc # "idle", router[r].token = gate.generation,
         router[q].pc # "idle", router[q].token = gate.generation
  PROVE  q = r
  BY DEF OneHolder

\* A delivery reserves the composer.
LEMMA ReserveKeepsInv ==
  ASSUME GateInv, NEW r \in Routers, Reserve(r)
  PROVE  GateInv'
  <1> USE DEF GateInv
  <1>1. /\ gate \in GateStates /\ session \in SessionStates /\ last \in Writes
        /\ typer \in [Typers -> TyperStates] /\ router \in [Routers -> RouterStates]
    BY Typed
  <1>2. session.handle /\ ~gate.in_flight
    BY <1>1, ReadyMeansFree DEF Reserve
  <1>3. /\ gate' \in GateStates
        /\ gate'.in_flight
        /\ gate'.generation = gate.generation
        /\ gate'.next_ticket = gate.next_ticket
        /\ gate'.next_served = gate.next_served
        /\ gate'.cancelled = gate.cancelled
    BY <1>1 DEF Reserve, GateStates
  <1>4. /\ router' = [router EXCEPT ![r] = [pc |-> "body", token |-> gate.generation]]
        /\ router[r].pc = "idle"
        /\ UNCHANGED <<session, typer, last>>
    BY DEF Reserve
  <1>5. router' \in [Routers -> RouterStates]
    BY <1>1, <1>4 DEF RouterStates, GateStates
  <1>6. \A q \in Routers : q # r => router'[q] = router[q]
    BY <1>1, <1>4
  <1>7. router'[r] = [pc |-> "body", token |-> gate.generation]
    BY <1>1, <1>4
  <1>8. TypeOK'
    BY <1>1, <1>3, <1>4, <1>5, TypedNext
  <1>9. OneHolder'
    BY <1>2, <1>3, <1>6, <1>7 DEF OneHolder
  <1>10. TicketsAccounted'
    BY <1>3, <1>4 DEF TicketsAccounted
  <1>11. TokensArePast'
    BY <1>1, <1>3, <1>4, <1>6, <1>7 DEF TokensArePast, GateStates
  <1>12. BodyInComposer'
    BY <1>3, <1>4, <1>6, <1>7 DEF BodyInComposer
  <1> QED BY <1>8, <1>9, <1>10, <1>11, <1>12

\* A delivery writes its body.
LEMMA WriteBodyKeepsInv ==
  ASSUME GateInv, NEW r \in Routers, WriteBody(r)
  PROVE  GateInv'
  <1> USE DEF GateInv
  <1>1. /\ gate \in GateStates /\ session \in SessionStates /\ last \in Writes
        /\ typer \in [Typers -> TyperStates] /\ router \in [Routers -> RouterStates]
    BY Typed
  <1>2. router[r].pc = "body" /\ UNCHANGED <<gate, session, typer>>
    BY DEF WriteBody
  <1>3. \/ /\ Holds(r)
           /\ last' = [by |-> r, part |-> "body"]
           /\ router' = [router EXCEPT ![r].pc = "enter"]
        \/ /\ router' = [router EXCEPT ![r].pc = "finish"]
           /\ UNCHANGED last
    BY DEF WriteBody
  <1>4. /\ router' \in [Routers -> RouterStates]
        /\ last' \in Writes
    BY <1>1, <1>3 DEF RouterStates, Writes
  <1>5. \A q \in Routers : /\ router'[q].token = router[q].token
                           /\ router'[q].pc = "idle" <=> router[q].pc = "idle"
    BY <1>1, <1>2, <1>3 DEF RouterStates
  <1>6. TypeOK'
    BY <1>1, <1>2, <1>4, TypedNext
  <1>7. OneHolder'
    BY <1>2, <1>5 DEF OneHolder
  <1>8. TicketsAccounted'
    BY <1>2 DEF TicketsAccounted
  <1>9. TokensArePast'
    BY <1>2, <1>5 DEF TokensArePast
  <1>10. BodyInComposer'
    <2> SUFFICES ASSUME NEW q \in Routers, router'[q].pc = "enter"
                 PROVE  router'[q].token = gate'.generation
                          <=> last' = [by |-> q, part |-> "body"]
      BY DEF BodyInComposer
    <2>1. CASE q = r
      <3>1. Holds(r) /\ last' = [by |-> r, part |-> "body"]
        BY <1>1, <1>3, <2>1 DEF RouterStates
      <3> QED BY <1>2, <1>5, <2>1, <3>1 DEF Holds
    <2>2. CASE q # r
      <3>1. router'[q] = router[q]
        BY <1>1, <1>3, <2>2
      <3>2. CASE Holds(r) /\ last' = [by |-> r, part |-> "body"]
        <4>1. router[q].token # gate.generation
          BY <1>2, <2>2, <3>1, <3>2, HolderIsUnique DEF Holds
        <4> QED BY <1>2, <2>2, <3>1, <3>2, <4>1
      <3>3. CASE UNCHANGED last
        BY <1>2, <3>1, <3>3 DEF BodyInComposer
      <3> QED BY <1>3, <3>2, <3>3
    <2> QED BY <2>1, <2>2
  <1> QED BY <1>6, <1>7, <1>8, <1>9, <1>10

\* A delivery writes its Enter.
LEMMA WriteEnterKeepsInv ==
  ASSUME GateInv, NEW r \in Routers, WriteEnter(r)
  PROVE  GateInv'
  <1> USE DEF GateInv
  <1>1. /\ gate \in GateStates /\ session \in SessionStates /\ last \in Writes
        /\ typer \in [Typers -> TyperStates] /\ router \in [Routers -> RouterStates]
    BY Typed
  <1>2. /\ router[r].pc = "enter" /\ UNCHANGED <<gate, session, typer>>
        /\ router' = [router EXCEPT ![r].pc = "finish"]
    BY DEF WriteEnter
  <1>3. \/ Holds(r) /\ last' = [by |-> r, part |-> "enter"]
        \/ UNCHANGED last
    BY DEF WriteEnter
  <1>4. router' \in [Routers -> RouterStates] /\ last' \in Writes
    BY <1>1, <1>2, <1>3 DEF RouterStates, Writes
  <1>5. \A q \in Routers : /\ router'[q].token = router[q].token
                           /\ router'[q].pc = "idle" <=> router[q].pc = "idle"
    BY <1>1, <1>2 DEF RouterStates
  <1>6. TypeOK'
    BY <1>1, <1>2, <1>4, TypedNext
  <1>7. OneHolder'
    BY <1>2, <1>5 DEF OneHolder
  <1>8. TicketsAccounted'
    BY <1>2 DEF TicketsAccounted
  <1>9. TokensArePast'
    BY <1>2, <1>5 DEF TokensArePast
  <1>10. BodyInComposer'
    <2> SUFFICES ASSUME NEW q \in Routers, router'[q].pc = "enter"
                 PROVE  router'[q].token = gate'.generation
                          <=> last' = [by |-> q, part |-> "body"]
      BY DEF BodyInComposer
    <2>1. q # r /\ router'[q] = router[q]
      BY <1>1, <1>2 DEF RouterStates
    <2>2. CASE Holds(r) /\ last' = [by |-> r, part |-> "enter"]
      <3>1. router[q].token # gate.generation
        BY <1>2, <2>1, <2>2, HolderIsUnique DEF Holds
      <3> QED BY <1>2, <2>1, <2>2, <3>1
    <2>3. CASE UNCHANGED last
      BY <1>2, <2>1, <2>3 DEF BodyInComposer
    <2> QED BY <1>3, <2>2, <2>3
  <1> QED BY <1>6, <1>7, <1>8, <1>9, <1>10

\* A delivery finishes and gives the composer back.
LEMMA FinishDeliveryKeepsInv ==
  ASSUME GateInv, NEW r \in Routers, FinishDelivery(r)
  PROVE  GateInv'
  <1> USE DEF GateInv
  <1>1. /\ gate \in GateStates /\ session \in SessionStates /\ last \in Writes
        /\ typer \in [Typers -> TyperStates] /\ router \in [Routers -> RouterStates]
    BY Typed
  <1>2. /\ router[r].pc = "finish" /\ UNCHANGED <<session, typer, last>>
        /\ router' = [router EXCEPT ![r] = IdleRouter]
    BY DEF FinishDelivery
  <1>3. /\ gate' \in GateStates
        /\ gate'.generation = gate.generation
        /\ gate'.next_ticket = gate.next_ticket
        /\ gate'.next_served = gate.next_served
        /\ gate'.cancelled = gate.cancelled
        /\ gate'.in_flight <=> gate.in_flight /\ router[r].token # gate.generation
    BY <1>1 DEF FinishDelivery, GateStates
  <1>4. router' \in [Routers -> RouterStates]
    BY <1>1, <1>2, IdleTyped
  <1>5. router'[r].pc = "idle" /\ \A q \in Routers : q # r => router'[q] = router[q]
    BY <1>1, <1>2 DEF IdleRouter
  <1>6. TypeOK'
    BY <1>1, <1>2, <1>3, <1>4, TypedNext
  <1>7. OneHolder'
    BY <1>2, <1>3, <1>5 DEF OneHolder
  <1>8. TicketsAccounted'
    BY <1>2, <1>3 DEF TicketsAccounted
  <1>9. TokensArePast'
    BY <1>2, <1>3, <1>5 DEF TokensArePast
  <1>10. BodyInComposer'
    BY <1>2, <1>3, <1>5 DEF BodyInComposer
  <1> QED BY <1>6, <1>7, <1>8, <1>9, <1>10

-----------------------------------------------------------------------------
(* The steps of an input thread keep the invariant.                        *)

\* Threads that wait in the current generation.
Queued(t) == typer[t].pc = "waiting" /\ typer[t].generation = gate.generation

\* A local write is made only while nobody holds the gate, so no sender waits
\* with its body in the composer.
LEMMA LocalWriteKeepsBodies ==
  ASSUME GateInv, NEW t \in Typers, NEW class \in InputClasses, LocalWrite(t, class),
         ~gate.in_flight, gate'.generation = gate.generation, UNCHANGED router
  PROVE  BodyInComposer'
  <1> USE DEF GateInv
  <1>1. \A r \in Routers : router[r].pc = "enter" => router[r].token # gate.generation
    BY DEF OneHolder
  <1>2. last' = last \/ last' = [by |-> t, part |-> "local"]
    BY Typed, LocalWriteTyped
  <1> QED BY <1>1, <1>2 DEF BodyInComposer

\* Input that finds the gate open.
LEMMA InputAtOnceKeepsInv ==
  ASSUME GateInv, NEW t \in Typers, NEW class \in InputClasses, InputAtOnce(t, class)
  PROVE  GateInv'
  <1> USE DEF GateInv
  <1> DEFINE g == [gate EXCEPT !.next_ticket = @ + 1]
             n == gate.next_served + 1
  <1>1. /\ gate \in GateStates /\ session \in SessionStates /\ last \in Writes
        /\ typer \in [Typers -> TyperStates] /\ router \in [Routers -> RouterStates]
    BY Typed
  <1>2. /\ typer[t].pc = "idle" /\ ~gate.in_flight
        /\ gate.next_served = gate.next_ticket
        /\ gate' = Served(g, n) /\ LocalWrite(t, class) /\ UNCHANGED <<typer, router>>
    BY DEF InputAtOnce
  <1>3. /\ g \in GateStates /\ n \in Nat
        /\ g.generation = gate.generation /\ g.in_flight = gate.in_flight
        /\ g.next_ticket = gate.next_ticket + 1 /\ g.cancelled = gate.cancelled
    BY <1>1 DEF GateStates
  <1>4. gate.cancelled = {}
    BY <1>1, <1>2 DEF TicketsAccounted, GateStates
  <1>5. n <= g.next_ticket /\ g.next_ticket \notin g.cancelled
    BY <1>1, <1>2, <1>3, <1>4 DEF GateStates
  <1> HIDE DEF g, n
  <1>6. /\ gate' \in GateStates
        /\ gate'.generation = gate.generation /\ gate'.in_flight = gate.in_flight
        /\ gate'.next_ticket = gate.next_ticket + 1
        /\ gate'.next_served = FirstUncancelled(g, n)
        /\ gate'.cancelled \subseteq gate.cancelled
    BY <1>2, <1>3, <1>5, ServedGate
  <1>7. gate'.next_served = gate'.next_ticket
    <2>1. FirstUncancelled(g, n) \in n .. g.next_ticket
      BY <1>3, <1>5, SkipStops
    <2> QED BY <1>1, <1>2, <1>3, <1>6, <2>1 DEF GateStates, n
  <1>8. TypeOK'
    BY <1>1, <1>2, <1>6, LocalWriteTyped, TypedNext
  <1>9. OneHolder'
    BY <1>2, <1>6 DEF OneHolder
  <1>10. TicketsAccounted'
    <2>1. \A u \in Typers : ~ Queued(u)
      BY <1>1, <1>2 DEF TicketsAccounted, Queued, GateStates
    <2>2. \A u \in Typers : ~ (typer'[u].pc = "waiting" /\ typer'[u].generation = gate'.generation)
      BY <1>2, <1>6, <2>1 DEF Queued
    <2> QED BY <1>4, <1>6, <1>7, <2>2 DEF TicketsAccounted, GateStates
  <1>11. TokensArePast'
    BY <1>2, <1>6 DEF TokensArePast
  <1>12. BodyInComposer'
    BY <1>2, <1>6, LocalWriteKeepsBodies
  <1> QED BY <1>8, <1>9, <1>10, <1>11, <1>12

\* Input that has to queue.
LEMMA InputQueuesKeepsInv ==
  ASSUME GateInv, NEW t \in Typers, NEW class \in InputClasses, InputQueues(t, class)
  PROVE  GateInv'
  <1> USE DEF GateInv
  <1>1. /\ gate \in GateStates /\ session \in SessionStates /\ last \in Writes
        /\ typer \in [Typers -> TyperStates] /\ router \in [Routers -> RouterStates]
    BY Typed
  <1> DEFINE new == [pc |-> "waiting", ticket |-> gate.next_ticket,
                     generation |-> gate.generation, class |-> class]
  <1>2. /\ typer[t].pc = "idle" /\ UNCHANGED <<session, router, last>>
        /\ typer' = [typer EXCEPT ![t] = new]
        /\ gate' = [gate EXCEPT !.next_ticket = @ + 1]
        /\ gate.in_flight \/ gate.next_served # gate.next_ticket
    BY DEF InputQueues
  <1>3. /\ gate' \in GateStates
        /\ gate'.generation = gate.generation /\ gate'.in_flight = gate.in_flight
        /\ gate'.next_ticket = gate.next_ticket + 1
        /\ gate'.next_served = gate.next_served /\ gate'.cancelled = gate.cancelled
    BY <1>1, <1>2 DEF GateStates
  <1>4. new \in TyperStates
    BY <1>1 DEF TyperStates, GateStates
  <1>5. /\ typer' \in [Typers -> TyperStates] /\ typer'[t] = new
        /\ \A u \in Typers : u # t => typer'[u] = typer[u]
    BY <1>1, <1>2, <1>4
  <1>6. TypeOK'
    BY <1>1, <1>2, <1>3, <1>5, TypedNext
  <1>7. OneHolder'
    BY <1>2, <1>3 DEF OneHolder
  <1>8. TicketsAccounted'
    <2>1. /\ ~ Queued(t)
          /\ Queued(t)' /\ typer'[t].ticket = gate.next_ticket
          /\ \A u \in Typers : u # t => /\ Queued(u)' <=> Queued(u)
                                        /\ typer'[u].ticket = typer[u].ticket
      BY <1>2, <1>3, <1>5 DEF Queued
    <2>2. \A u \in Typers : Queued(u) =>
             typer[u].ticket \in gate.next_served .. (gate.next_ticket - 1)
      BY DEF TicketsAccounted, Queued
    <2>3. /\ gate'.next_served <= gate'.next_ticket
          /\ gate'.cancelled \subseteq gate'.next_served .. (gate'.next_ticket - 1)
          /\ gate'.next_served \notin gate'.cancelled
      BY <1>1, <1>3 DEF TicketsAccounted, GateStates
    <2>4. ASSUME NEW k \in gate'.next_served .. (gate'.next_ticket - 1)
          PROVE  (k \notin gate'.cancelled)
                   <=> \E u \in Typers : Queued(u)' /\ typer'[u].ticket = k
      <3>1. CASE k = gate.next_ticket
        <4>1. k \notin gate'.cancelled
          BY <1>1, <1>3, <3>1 DEF TicketsAccounted, GateStates
        <4> QED BY <2>1, <3>1, <4>1
      <3>2. CASE k # gate.next_ticket
        <4>1. k \in gate.next_served .. (gate.next_ticket - 1)
          BY <1>1, <1>3, <3>2 DEF GateStates
        <4>2. (k \notin gate.cancelled) <=> \E u \in Typers : Queued(u) /\ typer[u].ticket = k
          BY <4>1 DEF TicketsAccounted, Queued
        <4> QED BY <1>3, <2>1, <3>2, <4>2
      <3> QED BY <3>1, <3>2
    <2>5. \A u \in Typers : Queued(u)' =>
             typer'[u].ticket \in gate'.next_served .. (gate'.next_ticket - 1)
      BY <1>1, <1>3, <2>1, <2>2, <2>3 DEF GateStates, TicketsAccounted
    <2>6. \A u, v \in Typers :
             Queued(u)' /\ Queued(v)' /\ typer'[u].ticket = typer'[v].ticket => u = v
      <3>1. \A u \in Typers : Queued(u) => typer[u].ticket # gate.next_ticket
        BY <1>1, <2>2 DEF GateStates
      <3>2. \A u, v \in Typers :
               Queued(u) /\ Queued(v) /\ typer[u].ticket = typer[v].ticket => u = v
        BY DEF TicketsAccounted, Queued
      <3> QED BY <2>1, <3>1, <3>2
    <2> QED BY <2>3, <2>4, <2>5, <2>6 DEF TicketsAccounted, Queued
  <1>9. TokensArePast'
    BY <1>1, <1>2, <1>3, <1>5 DEF TokensArePast, GateStates
  <1>10. BodyInComposer'
    BY <1>2, <1>3 DEF BodyInComposer
  <1> QED BY <1>6, <1>7, <1>8, <1>9, <1>10

\* A thread leaves the queue and the gate goes on to the first ticket m that
\* still has a thread: what is left is accounted for as before.  `gone` is the
\* ticket of the thread that leaves.
LEMMA LeavingKeepsTickets ==
  ASSUME TypeOK, TicketsAccounted, NEW t \in Typers, Queued(t),
         NEW g \in GateStates, NEW n \in Nat,
         g.generation = gate.generation, g.next_ticket = gate.next_ticket,
         \/ g.cancelled = gate.cancelled /\ n = gate.next_served + 1
                                         /\ typer[t].ticket = gate.next_served
         \/ g.cancelled = gate.cancelled \cup {typer[t].ticket} /\ n = gate.next_served,
         gate' = Served(g, n), typer' = [typer EXCEPT ![t] = IdleTyper]
  PROVE  /\ TicketsAccounted'
         /\ gate' \in GateStates
         /\ gate'.generation = gate.generation /\ gate'.in_flight = g.in_flight
         /\ typer' \in [Typers -> TyperStates]
         /\ typer'[t].pc = "idle" /\ \A u \in Typers : u # t => typer'[u] = typer[u]
  <1> DEFINE m == FirstUncancelled(g, n)
             ticket == typer[t].ticket
  <1>1. /\ gate \in GateStates /\ typer \in [Typers -> TyperStates]
        /\ ticket \in Nat
    BY Typed DEF TyperStates
  <1>2. /\ gate.next_served <= gate.next_ticket
        /\ gate.cancelled \subseteq gate.next_served .. (gate.next_ticket - 1)
        /\ gate.next_served \notin gate.cancelled
        /\ ticket \in gate.next_served .. (gate.next_ticket - 1)
    BY DEF TicketsAccounted, Queued
  <1>3. n <= g.next_ticket /\ g.next_ticket \notin g.cancelled
    BY <1>1, <1>2 DEF GateStates
  <1>4. /\ m \in n .. gate.next_ticket /\ m \notin g.cancelled
        /\ \A k \in n .. (m - 1) : k \in g.cancelled
    BY <1>3, SkipStops
  <1>5. /\ gate' \in GateStates
        /\ gate'.generation = gate.generation /\ gate'.in_flight = g.in_flight
        /\ gate'.next_ticket = gate.next_ticket /\ gate'.next_served = m
        /\ gate'.cancelled = g.cancelled \ (n .. (m - 1))
    BY <1>3, ServedGate
  <1>6. /\ typer' \in [Typers -> TyperStates] /\ typer'[t].pc = "idle"
        /\ \A u \in Typers : u # t => typer'[u] = typer[u]
    BY <1>1, IdleTyped DEF IdleTyper
  <1>7. TicketsAccounted'
    <2> HIDE DEF m
    <2>1. /\ ~ Queued(t)'
          /\ \A u \in Typers : u # t => /\ Queued(u)' <=> Queued(u)
                                        /\ typer'[u].ticket = typer[u].ticket
      BY <1>5, <1>6 DEF Queued
    <2>2. \A u \in Typers : Queued(u) /\ u # t =>
             /\ typer[u].ticket # ticket
             /\ typer[u].ticket \in gate.next_served .. (gate.next_ticket - 1)
             /\ typer[u].ticket \notin gate.cancelled
      BY DEF TicketsAccounted, Queued
    <2>3. /\ gate'.next_served <= gate'.next_ticket
          /\ gate'.cancelled \subseteq gate'.next_served .. (gate'.next_ticket - 1)
          /\ gate'.next_served \notin gate'.cancelled
      BY <1>1, <1>2, <1>4, <1>5 DEF GateStates
    <2>4. \A u \in Typers : Queued(u)' =>
             typer'[u].ticket \in gate'.next_served .. (gate'.next_ticket - 1)
      BY <1>1, <1>2, <1>4, <1>5, <2>1, <2>2 DEF GateStates
    <2>5. ASSUME NEW k \in gate'.next_served .. (gate'.next_ticket - 1)
          PROVE  (k \notin gate'.cancelled)
                   <=> \E u \in Typers : Queued(u)' /\ typer'[u].ticket = k
      <3>1. /\ k \in gate.next_served .. (gate.next_ticket - 1)
            /\ k \in gate'.cancelled <=> k \in g.cancelled
        BY <1>1, <1>4, <1>5 DEF GateStates
      <3>2. (k \notin gate.cancelled) <=> \E u \in Typers : Queued(u) /\ typer[u].ticket = k
        BY <3>1 DEF TicketsAccounted, Queued
      <3>3. CASE k = ticket
        <4>1. k \in gate'.cancelled
          BY <1>1, <1>4, <1>5, <3>1, <3>3 DEF GateStates
        <4> QED BY <2>1, <2>2, <3>3, <4>1
      <3>4. CASE k # ticket
        BY <2>1, <3>1, <3>2, <3>4
      <3> QED BY <3>3, <3>4
    <2>6. \A u, v \in Typers :
             Queued(u)' /\ Queued(v)' /\ typer'[u].ticket = typer'[v].ticket => u = v
      <3>1. \A u, v \in Typers :
               Queued(u) /\ Queued(v) /\ typer[u].ticket = typer[v].ticket => u = v
        BY DEF TicketsAccounted, Queued
      <3> QED BY <2>1, <3>1
    <2> QED BY <2>3, <2>4, <2>5, <2>6 DEF TicketsAccounted, Queued
  <1> QED BY <1>5, <1>6, <1>7

\* Queued input that is served.
LEMMA InputServedKeepsInv ==
  ASSUME GateInv, NEW t \in Typers, InputServed(t)
  PROVE  GateInv'
  <1> USE DEF GateInv
  <1>1. /\ gate \in GateStates /\ session \in SessionStates /\ last \in Writes
        /\ typer \in [Typers -> TyperStates] /\ router \in [Routers -> RouterStates]
    BY Typed
  <1>2. /\ Queued(t) /\ ~gate.in_flight /\ gate.next_served = typer[t].ticket
        /\ gate' = Served(gate, gate.next_served + 1)
        /\ LocalWrite(t, typer[t].class)
        /\ typer' = [typer EXCEPT ![t] = IdleTyper] /\ UNCHANGED router
    BY DEF InputServed, MayServe, Queued
  <1>3. typer[t].class \in InputClasses /\ gate.next_served + 1 \in Nat
    BY <1>1 DEF TyperStates, GateStates
  <1>4. /\ TicketsAccounted' /\ gate' \in GateStates
        /\ gate'.generation = gate.generation /\ gate'.in_flight = gate.in_flight
        /\ typer' \in [Typers -> TyperStates] /\ typer'[t].pc = "idle"
        /\ \A u \in Typers : u # t => typer'[u] = typer[u]
    BY <1>1, <1>2, <1>3, LeavingKeepsTickets
  <1>5. TypeOK'
    BY <1>1, <1>2, <1>3, <1>4, LocalWriteTyped, TypedNext
  <1>6. OneHolder'
    BY <1>2, <1>4 DEF OneHolder
  <1>7. TokensArePast'
    BY <1>2, <1>4 DEF TokensArePast
  <1>8. BodyInComposer'
    BY <1>2, <1>3, <1>4, LocalWriteKeepsBodies
  <1> QED BY <1>4, <1>5, <1>6, <1>7, <1>8

\* Queued input that waited too long.
LEMMA InputTimesOutKeepsInv ==
  ASSUME GateInv, NEW t \in Typers, InputTimesOut(t)
  PROVE  GateInv'
  <1> USE DEF GateInv
  <1> DEFINE g == [gate EXCEPT !.cancelled = @ \cup {typer[t].ticket}]
  <1>1. /\ gate \in GateStates /\ session \in SessionStates /\ last \in Writes
        /\ typer \in [Typers -> TyperStates] /\ router \in [Routers -> RouterStates]
    BY Typed
  <1>2. /\ Queued(t) /\ gate' = Served(g, gate.next_served)
        /\ typer' = [typer EXCEPT ![t] = IdleTyper] /\ UNCHANGED <<session, router, last>>
    BY DEF InputTimesOut, Queued
  <1>3. /\ g \in GateStates /\ gate.next_served \in Nat
        /\ g.generation = gate.generation /\ g.in_flight = gate.in_flight
        /\ g.next_ticket = gate.next_ticket
        /\ g.cancelled = gate.cancelled \cup {typer[t].ticket}
    BY <1>1 DEF TyperStates, GateStates
  <1> HIDE DEF g
  <1>4. /\ TicketsAccounted' /\ gate' \in GateStates
        /\ gate'.generation = gate.generation /\ gate'.in_flight = g.in_flight
        /\ typer' \in [Typers -> TyperStates] /\ typer'[t].pc = "idle"
        /\ \A u \in Typers : u # t => typer'[u] = typer[u]
    BY <1>1, <1>2, <1>3, LeavingKeepsTickets
  <1>5. TypeOK'
    BY <1>1, <1>2, <1>4, TypedNext
  <1>6. OneHolder'
    BY <1>2, <1>3, <1>4 DEF OneHolder
  <1>7. TokensArePast'
    BY <1>2, <1>4 DEF TokensArePast
  <1>8. BodyInComposer'
    BY <1>2, <1>4 DEF BodyInComposer
  <1> QED BY <1>4, <1>5, <1>6, <1>7, <1>8

\* Queued input whose child was replaced.
LEMMA InputAbandonedKeepsInv ==
  ASSUME GateInv, NEW t \in Typers, InputAbandoned(t)
  PROVE  GateInv'
  <1> USE DEF GateInv
  <1>1. /\ gate \in GateStates /\ session \in SessionStates /\ last \in Writes
        /\ typer \in [Typers -> TyperStates] /\ router \in [Routers -> RouterStates]
    BY Typed
  <1>2. /\ ~ Queued(t) /\ typer' = [typer EXCEPT ![t] = IdleTyper]
        /\ UNCHANGED <<gate, session, router, last>>
    BY DEF InputAbandoned, Queued
  <1>3. /\ typer' \in [Typers -> TyperStates] /\ typer'[t].pc = "idle"
        /\ \A u \in Typers : u # t => typer'[u] = typer[u]
    BY <1>1, <1>2, IdleTyped DEF IdleTyper
  <1>4. TypeOK'
    BY <1>1, <1>2, <1>3, TypedNext
  <1>5. OneHolder'
    BY <1>2 DEF OneHolder
  <1>6. TicketsAccounted'
    <2>1. \A u \in Typers : /\ Queued(u)' <=> Queued(u)
                            /\ Queued(u) => typer'[u].ticket = typer[u].ticket
      BY <1>2, <1>3 DEF Queued
    <2> QED BY <1>2, <2>1 DEF TicketsAccounted, Queued
  <1>7. TokensArePast'
    BY <1>2, <1>3 DEF TokensArePast
  <1>8. BodyInComposer'
    BY <1>2 DEF BodyInComposer
  <1> QED BY <1>4, <1>5, <1>6, <1>7, <1>8

-----------------------------------------------------------------------------
(* The terminal, the clock and the child keep the invariant.               *)

\* The session alone changes, within its type.
LEMMA SessionChangeKeepsInv ==
  ASSUME GateInv, session' \in SessionStates, UNCHANGED <<gate, typer, router, last>>
  PROVE  GateInv'
  <1> USE DEF GateInv
  <1>1. TypeOK'
    BY Typed, TypedNext
  <1>2. OneHolder' /\ TicketsAccounted' /\ TokensArePast' /\ BodyInComposer'
    BY DEF OneHolder, TicketsAccounted, TokensArePast, BodyInComposer
  <1> QED BY <1>1, <1>2

\* Output that shows the composer.
LEMMA ObserveKeepsInv ==
  ASSUME GateInv, Observe
  PROVE  GateInv'
  <1>1. PICK state \in InputStates, fresh \in BOOLEAN : ReportInputState(state, fresh)
    BY DEF Observe
  <1>2. session \in SessionStates
    BY Typed DEF GateInv
  <1>3. session' \in SessionStates
    BY <1>1, <1>2 DEF ReportInputState, SessionStates
  <1> QED BY <1>1, <1>3, SessionChangeKeepsInv DEF ReportInputState

\* Time that passes.
LEMMA ElapseKeepsInv ==
  ASSUME GateInv, Elapse
  PROVE  GateInv'
  <1>1. session \in SessionStates
    BY Typed DEF GateInv
  <1>2. session' \in SessionStates
    BY <1>1 DEF Elapse, SessionStates
  <1> QED BY <1>2, SessionChangeKeepsInv DEF Elapse

\* A new generation: every thread's token is of the past, and nobody holds the
\* gate or queues at it.
LEMMA NewGenerationKeepsInv ==
  ASSUME GateInv, gate' = Regenerated(gate), session' \in SessionStates,
         last' = NoWrite, UNCHANGED <<typer, router>>
  PROVE  GateInv'
  <1> USE DEF GateInv
  <1>1. /\ gate \in GateStates /\ session \in SessionStates /\ last \in Writes
        /\ typer \in [Typers -> TyperStates] /\ router \in [Routers -> RouterStates]
    BY Typed
  <1>2. /\ gate' \in GateStates /\ gate'.generation = gate.generation + 1
        /\ gate'.in_flight = FALSE /\ gate'.next_ticket = 0
        /\ gate'.next_served = 0 /\ gate'.cancelled = {}
    BY <1>1 DEF Regenerated, GateStates
  <1>3. \A r \in Routers : router[r].pc # "idle" => router[r].token # gate'.generation
    BY <1>1, <1>2 DEF TokensArePast, RouterStates, GateStates
  <1>4. \A t \in Typers : ~ Queued(t)'
    BY <1>1, <1>2 DEF TokensArePast, TyperStates, GateStates, Queued
  <1>5. TypeOK'
    BY <1>1, <1>2, IdleTyped, TypedNext
  <1>6. OneHolder'
    BY <1>2, <1>3 DEF OneHolder
  <1>7. TicketsAccounted'
    BY <1>2, <1>4 DEF TicketsAccounted, Queued
  <1>8. TokensArePast'
    BY <1>1, <1>2 DEF TokensArePast, TyperStates, RouterStates, GateStates
  <1>9. BodyInComposer'
    BY <1>3 DEF BodyInComposer, NoWrite
  <1> QED BY <1>5, <1>6, <1>7, <1>8, <1>9

\* A child that starts or ends.
LEMMA ChildKeepsInv ==
  ASSUME GateInv, InstallHandle \/ DropHandle
  PROVE  GateInv'
  <1>1. session' \in SessionStates
    <2>1. CASE InstallHandle
      BY <2>1 DEF InstallHandle, SessionStates
    <2>2. CASE DropHandle
      BY <2>2 DEF DropHandle, SessionStates
    <2> QED BY <2>1, <2>2
  <1> QED BY <1>1, NewGenerationKeepsInv DEF InstallHandle, DropHandle

-----------------------------------------------------------------------------
(* The theorems.                                                           *)

\* One step of the system, or a stutter, keeps the invariant.
LEMMA NextInv == GateInv /\ [Next]_vars => GateInv'
  <1> SUFFICES ASSUME GateInv, [Next]_vars PROVE GateInv'
    OBVIOUS
  <1>1. ASSUME NEW t \in Typers, TyperStep(t) PROVE GateInv'
    <2>1. ASSUME NEW class \in InputClasses, InputAtOnce(t, class) PROVE GateInv'
      BY <2>1, InputAtOnceKeepsInv
    <2>2. ASSUME NEW class \in InputClasses, InputQueues(t, class) PROVE GateInv'
      BY <2>2, InputQueuesKeepsInv
    <2>3. CASE InputServed(t)
      BY <2>3, InputServedKeepsInv
    <2>4. CASE InputTimesOut(t)
      BY <2>4, InputTimesOutKeepsInv
    <2>5. CASE InputAbandoned(t)
      BY <2>5, InputAbandonedKeepsInv
    <2> QED BY <1>1, <2>1, <2>2, <2>3, <2>4, <2>5 DEF TyperStep
  <1>2. ASSUME NEW r \in Routers, RouterStep(r) PROVE GateInv'
    BY <1>2, ReserveKeepsInv, WriteBodyKeepsInv, WriteEnterKeepsInv,
       FinishDeliveryKeepsInv DEF RouterStep
  <1>3. CASE Observe
    BY <1>3, ObserveKeepsInv
  <1>4. CASE Elapse
    BY <1>4, ElapseKeepsInv
  <1>5. CASE InstallHandle \/ DropHandle
    BY <1>5, ChildKeepsInv
  <1>6. CASE UNCHANGED vars
    <2>1. session \in SessionStates
      BY Typed DEF GateInv
    <2> QED BY <1>6, <2>1, SessionChangeKeepsInv DEF vars
  <1> QED BY <1>1, <1>2, <1>3, <1>4, <1>5, <1>6 DEF Next

\* The gate keeps its inductive invariant, however many threads of however many
\* children race for it.
THEOREM GateInvariant == Spec => []GateInv
  BY InitInv, NextInv, PTL DEF Spec

\* The state of the gate, the session and the threads is typed.
THEOREM GateTyped == Spec => []TypeOK
  <1>1. GateInv => TypeOK
    BY DEF GateInv
  <1> QED BY <1>1, GateInvariant, PTL

\* in_flight is up exactly when one thread of the current child holds the gate.
THEOREM AtMostOneHolder == Spec => []OneHolder
  <1>1. GateInv => OneHolder
    BY DEF GateInv
  <1> QED BY <1>1, GateInvariant, PTL

\* The queue of direct input never stops at a ticket that no thread will return.
THEOREM NoTicketIsLost == Spec => []TicketsAccounted
  <1>1. GateInv => TicketsAccounted
    BY DEF GateInv
  <1> QED BY <1>1, GateInvariant, PTL

\* No thread holds a generation number the gate has yet to reach.
THEOREM TokensStayPast == Spec => []TokensArePast
  <1>1. GateInv => TokensArePast
    BY DEF GateInv
  <1> QED BY <1>1, GateInvariant, PTL

\* While a sender sleeps, its body is the last write of the child it reserved.
THEOREM SendersBodyStays == Spec => []BodyInComposer
  <1>1. GateInv => BodyInComposer
    BY DEF GateInv
  <1> QED BY <1>1, GateInvariant, PTL

\* Only the holder of the gate, or an input thread while nobody holds it, makes
\* the last write of a child that stays.
LEMMA WhoWrites ==
  ASSUME GateInv, Next, last' # last
  PROVE  \/ last' = NoWrite /\ gate'.generation # gate.generation
         \/ \E t \in Typers : last' = [by |-> t, part |-> "local"] /\ ~gate.in_flight
         \/ \E r \in Routers : /\ Holds(r) /\ gate'.generation = gate.generation
                               /\ \/ WriteBody(r) /\ last' = [by |-> r, part |-> "body"]
                                  \/ WriteEnter(r) /\ last' = [by |-> r, part |-> "enter"]
  <1> USE DEF GateInv
  <1>1. gate \in GateStates /\ typer \in [Typers -> TyperStates]
    BY Typed
  <1>2. ASSUME NEW t \in Typers, TyperStep(t)
        PROVE  last' = [by |-> t, part |-> "local"] /\ ~gate.in_flight
    <2>1. ASSUME NEW class \in InputClasses, InputAtOnce(t, class)
          PROVE  last' = [by |-> t, part |-> "local"] /\ ~gate.in_flight
      BY <2>1 DEF InputAtOnce, LocalWrite
    <2>2. CASE InputServed(t)
      BY <2>2 DEF InputServed, MayServe, LocalWrite
    <2>3. \A class \in InputClasses : ~InputQueues(t, class)
      BY DEF InputQueues
    <2>4. ~InputTimesOut(t) /\ ~InputAbandoned(t)
      BY DEF InputTimesOut, InputAbandoned
    <2> QED BY <1>2, <2>1, <2>2, <2>3, <2>4 DEF TyperStep
  <1>3. ASSUME NEW r \in Routers, RouterStep(r)
        PROVE  /\ Holds(r) /\ gate'.generation = gate.generation
               /\ \/ WriteBody(r) /\ last' = [by |-> r, part |-> "body"]
                  \/ WriteEnter(r) /\ last' = [by |-> r, part |-> "enter"]
    <2>1. ~Reserve(r) /\ ~FinishDelivery(r)
      BY DEF Reserve, FinishDelivery
    <2>2. CASE WriteBody(r)
      BY <2>2 DEF WriteBody
    <2>3. CASE WriteEnter(r)
      BY <2>3 DEF WriteEnter
    <2> QED BY <1>3, <2>1, <2>2, <2>3 DEF RouterStep
  <1>4. ~Observe /\ ~Elapse
    BY DEF Observe, ReportInputState, Elapse
  <1>5. InstallHandle \/ DropHandle
           => last' = NoWrite /\ gate'.generation # gate.generation
    BY <1>1 DEF InstallHandle, DropHandle, Regenerated, GateStates
  <1> QED BY <1>2, <1>3, <1>4, <1>5 DEF Next

\* The body a sender wrote is still what the child received last when the next
\* write reaches it: its own Enter, unless the child is replaced.
THEOREM BodyThenEnter == Spec => BodyIsFollowedByItsEnter
  <1> DEFINE A == /\ last.part = "body" /\ router[last.by].pc = "enter" /\ last' # last
                  => \/ last' = [by |-> last.by, part |-> "enter"]
                     \/ gate'.generation # gate.generation
  <1>1. GateInv /\ [Next]_vars => [A]_vars
    <2> SUFFICES ASSUME GateInv, Next, last' # last,
                        last.part = "body", router[last.by].pc = "enter",
                        gate'.generation = gate.generation
                 PROVE  last' = [by |-> last.by, part |-> "enter"]
      OBVIOUS
    <2> USE DEF GateInv
    <2>1. PICK q \in Routers : last = [by |-> q, part |-> "body"]
      BY Typed DEF Writes, NoWrite
    <2>2. router[q].pc = "enter" /\ router[q].token = gate.generation
      BY <2>1 DEF BodyInComposer
    <2>3. gate.in_flight
      BY <2>2 DEF OneHolder
    <2>4. PICK r \in Routers :
             /\ Holds(r)
             /\ \/ WriteBody(r) /\ last' = [by |-> r, part |-> "body"]
                \/ WriteEnter(r) /\ last' = [by |-> r, part |-> "enter"]
      BY <2>3, WhoWrites
    <2>5. router[r].pc \in {"body", "enter"} /\ router[r].token = gate.generation
      BY <2>4 DEF WriteBody, WriteEnter, Holds
    <2>6. r = q
      BY <2>2, <2>5, HolderIsUnique
    <2> QED BY <2>1, <2>2, <2>4, <2>6 DEF WriteBody
  <1> QED BY <1>1, GateInvariant, PTL DEF Spec, BodyIsFollowedByItsEnter

\* An Enter of the router submits nothing but the body its thread wrote.
THEOREM EnterFollowsBody == Spec => EnterSubmitsOwnBody
  <1> DEFINE A == last' # last /\ last'.part = "enter"
                  => last = [by |-> last'.by, part |-> "body"]
  <1>1. GateInv /\ [Next]_vars => [A]_vars
    <2> SUFFICES ASSUME GateInv, Next, last' # last, last'.part = "enter"
                 PROVE  last = [by |-> last'.by, part |-> "body"]
      OBVIOUS
    <2> USE DEF GateInv
    <2>1. PICK r \in Routers : Holds(r) /\ WriteEnter(r) /\ last' = [by |-> r, part |-> "enter"]
      BY WhoWrites DEF NoWrite
    <2>2. router[r].pc = "enter" /\ router[r].token = gate.generation
      BY <2>1 DEF WriteEnter, Holds
    <2>3. last = [by |-> r, part |-> "body"]
      BY <2>2 DEF BodyInComposer
    <2> QED BY <2>1, <2>3
  <1> QED BY <1>1, GateInvariant, PTL DEF Spec, EnterSubmitsOwnBody

\* A thread that carries the token of an earlier child leaves the gate, the
\* session and the composer of the present one alone, whatever it does.
THEOREM StaleAreInert == Spec => StaleThreadsAreInert
  <1> DEFINE StaleRouter(r) == /\ router'[r] # router[r] /\ router[r].pc # "idle"
                               /\ router[r].token # gate.generation
             StaleTyper(t) == /\ typer'[t] # typer[t] /\ typer[t].pc = "waiting"
                              /\ typer[t].generation # gate.generation
             A == /\ \A r \in Routers :
                        router'[r] # router[r] /\ router[r].pc # "idle"
                           /\ router[r].token # gate.generation
                        => UNCHANGED <<gate, session, last>>
                  /\ \A t \in Typers :
                        typer'[t] # typer[t] /\ typer[t].pc = "waiting"
                           /\ typer[t].generation # gate.generation
                        => UNCHANGED <<gate, session, last>>
  <1>1. GateInv /\ [Next]_vars => [A]_vars
    <2> SUFFICES ASSUME GateInv, Next PROVE A
      OBVIOUS
    <2>1. /\ gate \in GateStates /\ typer \in [Typers -> TyperStates]
          /\ router \in [Routers -> RouterStates]
      BY Typed DEF GateInv
    <2>2. ASSUME NEW r \in Routers, StaleRouter(r)
          PROVE  UNCHANGED <<gate, session, last>>
      <3>1. \E q \in Routers : RouterStep(q)
        <4>1. ASSUME NEW t \in Typers, TyperStep(t) PROVE router' = router
          BY <4>1 DEF TyperStep, InputAtOnce, InputQueues, InputServed, InputTimesOut,
                      InputAbandoned
        <4>2. Observe \/ Elapse \/ InstallHandle \/ DropHandle => router' = router
          BY DEF Observe, ReportInputState, Elapse, InstallHandle, DropHandle
        <4> QED BY <2>2, <4>1, <4>2 DEF Next
      <3>2. PICK q \in Routers : RouterStep(q)
        BY <3>1
      <3>3. q = r
        BY <2>1, <2>2, <3>2 DEF RouterStep, Reserve, WriteBody, WriteEnter, FinishDelivery
      <3>4. ~Reserve(r)
        BY <2>2 DEF Reserve
      <3>5. WriteBody(r) \/ WriteEnter(r) => UNCHANGED <<gate, session, last>>
        BY <2>2 DEF WriteBody, WriteEnter, Holds
      <3>6. FinishDelivery(r) => UNCHANGED <<gate, session, last>>
        BY <2>2 DEF FinishDelivery
      <3> QED BY <3>2, <3>3, <3>4, <3>5, <3>6 DEF RouterStep
    <2>3. ASSUME NEW t \in Typers, StaleTyper(t)
          PROVE  UNCHANGED <<gate, session, last>>
      <3>1. \E u \in Typers : TyperStep(u)
        <4>1. ASSUME NEW r \in Routers, RouterStep(r) PROVE typer' = typer
          BY <4>1 DEF RouterStep, Reserve, WriteBody, WriteEnter, FinishDelivery
        <4>2. Observe \/ Elapse \/ InstallHandle \/ DropHandle => typer' = typer
          BY DEF Observe, ReportInputState, Elapse, InstallHandle, DropHandle
        <4> QED BY <2>3, <4>1, <4>2 DEF Next
      <3>2. PICK u \in Typers : TyperStep(u)
        BY <3>1
      <3>3. ASSUME NEW class \in InputClasses PROVE ~InputAtOnce(u, class)
        BY <2>3 DEF InputAtOnce
      <3>4. u = t
        BY <2>1, <2>3, <3>2, <3>3 DEF TyperStep, InputQueues, InputServed, InputTimesOut,
                                      InputAbandoned
      <3>5. ASSUME NEW class \in InputClasses PROVE ~InputQueues(t, class)
        BY <2>3 DEF InputQueues
      <3>6. ~InputServed(t) /\ ~InputTimesOut(t)
        BY <2>3 DEF InputServed, MayServe, InputTimesOut
      <3>7. InputAbandoned(t) => UNCHANGED <<gate, session, last>>
        BY DEF InputAbandoned
      <3> QED BY <3>2, <3>3, <3>4, <3>5, <3>6, <3>7 DEF TyperStep
    <2> QED BY <2>2, <2>3
  <1> QED BY <1>1, GateInvariant, PTL DEF Spec, StaleThreadsAreInert

-----------------------------------------------------------------------------
(* The gate implements ComposerLock.                                       *)

\* The threads that the lock counts.
Waiters == {t \in Typers : Queued(t)}

\* The lock as the gate shows it.
LockNow == [epoch |-> gate.generation, held |-> gate.in_flight, waiting |-> Cardinality(Waiters)]

\* The lock's actions, said of LockNow.
LEMMA LockActions ==
  /\ Lock!LockReserve <=>
        Lock!Reservation = "ready" /\ LockNow' = [LockNow EXCEPT !.held = TRUE] /\ session' = session
  /\ \A token : Lock!LockRelease(token) <=>
        /\ LockNow' = IF LockNow.held /\ LockNow.epoch = token
                      THEN [LockNow EXCEPT !.held = FALSE] ELSE LockNow
        /\ session' = session
  /\ \A class, written : Lock!LockInputAtOnce(class, written) <=>
        /\ ~LockNow.held /\ LockNow.waiting = 0 /\ (written => session.handle)
        /\ session' = IF written THEN Lock!AfterInput(class) ELSE session
        /\ LockNow' = LockNow
  /\ Lock!LockInputWaits <=>
        /\ LockNow.held \/ LockNow.waiting # 0
        /\ LockNow.waiting < Cardinality(Typers)
        /\ LockNow' = [LockNow EXCEPT !.waiting = @ + 1] /\ session' = session
  /\ \A class, written : Lock!LockInputServed(class, written) <=>
        /\ ~LockNow.held /\ LockNow.waiting > 0 /\ (written => session.handle)
        /\ LockNow' = [LockNow EXCEPT !.waiting = @ - 1]
        /\ session' = IF written THEN Lock!AfterInput(class) ELSE session
  /\ Lock!LockInputGivesUp <=>
        /\ LockNow.waiting > 0 /\ (LockNow.held \/ LockNow.waiting > 1)
        /\ LockNow' = [LockNow EXCEPT !.waiting = @ - 1] /\ session' = session
  /\ \A present : Lock!LockChild(present) <=>
        /\ (present \/ session.handle) /\ LockNow.epoch < MaxGeneration
        /\ LockNow' = [epoch |-> LockNow.epoch + 1, held |-> FALSE, waiting |-> 0]
        /\ session' = Lock!Blank(present)
  BY DEF Lock!LockReserve, Lock!LockRelease, Lock!LockInputAtOnce, Lock!LockInputWaits,
         Lock!LockInputServed, Lock!LockInputGivesUp, Lock!LockChild, LockNow, Waiters, Queued

\* Somebody waits exactly when tickets are out.
LEMMA WaitersCount ==
  ASSUME GateInv, IsFiniteSet(Typers)
  PROVE  /\ IsFiniteSet(Waiters) /\ Cardinality(Waiters) \in Nat
         /\ Cardinality(Waiters) = 0 <=> gate.next_ticket = gate.next_served
         /\ \A t \in Waiters : Cardinality(Waiters \ {t}) = Cardinality(Waiters) - 1
  <1>1. gate \in GateStates /\ TicketsAccounted
    BY Typed DEF GateInv
  <1>2. IsFiniteSet(Waiters) /\ Cardinality(Waiters) \in Nat
    <2>1. Waiters \in SUBSET Typers
      BY DEF Waiters
    <2> QED BY <2>1, FS_Subset, FS_CardinalityType
  <1>3. Cardinality(Waiters) = 0 <=> Waiters = {}
    BY <1>2, FS_EmptySet
  <1>4. gate.next_ticket = gate.next_served => Waiters = {}
    BY <1>1 DEF TicketsAccounted, GateStates, Waiters, Queued
  <1>5. ASSUME gate.next_ticket # gate.next_served PROVE Waiters # {}
    <2>1. gate.next_served \in gate.next_served .. (gate.next_ticket - 1)
      BY <1>1, <1>5 DEF TicketsAccounted, GateStates
    <2>2. PICK t \in Typers : Queued(t)
      BY <1>1, <2>1 DEF TicketsAccounted, Queued
    <2> QED BY <2>2 DEF Waiters
  <1>6. \A t \in Waiters : Cardinality(Waiters \ {t}) = Cardinality(Waiters) - 1
    BY <1>2, FS_RemoveElement
  <1> QED BY <1>2, <1>3, <1>4, <1>5, <1>6

\* A step that leaves generation, flag, threads and session alone is a stutter of
\* the lock.
LEMMA LockStutters ==
  ASSUME UNCHANGED session, gate'.generation = gate.generation,
         gate'.in_flight = gate.in_flight, Waiters' = Waiters
  PROVE  UNCHANGED Lock!lvars
  <1>1. LockNow' = LockNow
    BY DEF LockNow
  <1> QED BY <1>1 DEF Lock!lvars, LockNow, Waiters, Queued

\* What is observed and how time passes is the same for both.
LEMMA SessionMaps ==
  ASSUME gate \in GateStates, Observe \/ Elapse
  PROVE  Lock!LockNext
  <1>1. LockNow' = LockNow
    BY DEF Observe, ReportInputState, Elapse, LockNow, Waiters, Queued
  <1>2. ASSUME NEW state \in InputStates, NEW fresh \in BOOLEAN, ReportInputState(state, fresh)
        PROVE  Lock!LockObserve(state, fresh)
    BY <1>1, <1>2 DEF ReportInputState, Lock!LockObserve, LockNow, Waiters, Queued
  <1>3. CASE Elapse
    BY <1>1, <1>3 DEF Elapse, Lock!LockElapse, Lock!LockNext, LockNow, Waiters, Queued
  <1>4. InputStates = Lock!InputStates
    BY DEF InputStates, Lock!InputStates
  <1> QED BY <1>2, <1>3, <1>4 DEF Observe, Lock!LockNext

\* A reservation is granted, or refused for the same reason, by both.
LEMMA SameAnswers ==
  ASSUME GateInv, IsFiniteSet(Typers)
  PROVE  Lock!Reservation = Reservation
  <1>1. LockNow.held = gate.in_flight /\ LockNow.waiting = Cardinality(Waiters)
    BY DEF LockNow
  <1>2. Lock!Reservation =
          CASE ~session.handle                                         -> "unavailable"
            [] session.handle /\ (LockNow.held \/ LockNow.waiting # 0) -> "in_flight"
            [] OTHER ->
               IF session.observed = "drafting" \/ (session.observed = None /\ session.pending)
               THEN "pending_input"
               ELSE IF (session.observed = "submitted" /\ session.submit_recent)
                       \/ session.input_recent
                    THEN "recently_typing"
                    ELSE "ready"
    BY DEF Lock!Reservation, LockNow, Waiters, Queued
  <1>3. LockNow.waiting # 0 <=> gate.next_ticket # gate.next_served
    BY <1>1, WaitersCount
  <1> QED BY <1>1, <1>2, <1>3 DEF Reservation

\* A local write, made or refused, is what the lock's input does to the session.
LEMMA SameInput ==
  ASSUME NEW t, NEW class, LocalWrite(t, class), session.handle \in BOOLEAN
  PROVE  \E written \in BOOLEAN :
            /\ written => session.handle
            /\ session' = IF written THEN Lock!AfterInput(class) ELSE session
  <1>1. CASE session.handle /\ session' = AfterInput(session, class)
    <2>1. Lock!AfterInput(class) = AfterInput(session, class)
      BY DEF Lock!AfterInput, AfterInput
    <2> QED BY <1>1, <2>1
  <1>2. CASE UNCHANGED session
    BY <1>2
  <1> QED BY <1>1, <1>2 DEF LocalWrite

\* A delivery thread takes and releases the lock, and otherwise leaves it alone.
LEMMA DeliveryMaps ==
  ASSUME GateInv, IsFiniteSet(Typers), NEW r \in Routers, RouterStep(r)
  PROVE  Lock!LockNext \/ UNCHANGED Lock!lvars
  <1>1. /\ gate \in GateStates /\ router \in [Routers -> RouterStates] /\ TokensArePast
    BY Typed DEF GateInv
  <1>2. CASE Reserve(r)
    <2>1. /\ gate' = [gate EXCEPT !.in_flight = TRUE] /\ UNCHANGED <<session, typer>>
          /\ Lock!Reservation = "ready"
      BY <1>2, SameAnswers DEF Reserve
    <2>2. gate'.in_flight = TRUE /\ gate'.generation = gate.generation
      BY <1>1, <2>1 DEF GateStates
    <2>3. Waiters' = Waiters
      BY <2>1, <2>2 DEF Waiters, Queued
    <2>4. LockNow' = [LockNow EXCEPT !.held = TRUE]
      <3>1. LockNow' = [epoch |-> gate.generation, held |-> gate'.in_flight,
                        waiting |-> Cardinality(Waiters)]
        BY <2>2, <2>3, Zenon DEF LockNow
      <3>2. \A held : [LockNow EXCEPT !.held = held]
                        = [epoch |-> gate.generation, held |-> held,
                           waiting |-> Cardinality(Waiters)]
        BY DEF LockNow
      <3>3. LockNow' = [LockNow EXCEPT !.held = gate'.in_flight]
        BY <3>1, <3>2, Zenon
      <3> QED BY <2>2, <3>3, Zenon
    <2> QED BY <2>1, <2>4, LockActions DEF Lock!LockNext
  <1>3. CASE WriteBody(r) \/ WriteEnter(r)
    <2>1. UNCHANGED <<gate, session, typer>>
      BY <1>3 DEF WriteBody, WriteEnter
    <2> QED BY <2>1, LockStutters DEF Waiters, Queued
  <1>4. CASE FinishDelivery(r)
    <2> DEFINE token == router[r].token
    <2>1. /\ router[r].pc = "finish" /\ UNCHANGED <<session, typer>>
          /\ gate' = IF gate.in_flight /\ gate.generation = token
                     THEN [gate EXCEPT !.in_flight = FALSE] ELSE gate
      BY <1>4 DEF FinishDelivery
    <2>2. gate'.generation = gate.generation
      BY <1>1, <2>1 DEF GateStates
    <2>3. gate'.in_flight = IF gate.in_flight /\ gate.generation = token THEN FALSE
                                                                        ELSE gate.in_flight
      BY <1>1, <2>1 DEF GateStates
    <2>4. Waiters' = Waiters
      BY <2>1, <2>2 DEF Waiters, Queued
    <2>5. LockNow' = IF LockNow.held /\ LockNow.epoch = token
                     THEN [LockNow EXCEPT !.held = FALSE] ELSE LockNow
      BY <2>2, <2>3, <2>4 DEF LockNow
    <2>6. token \in 0 .. gate.generation
      BY <1>1, <2>1 DEF TokensArePast, RouterStates, GateStates
    <2>7. Lock!LockRelease(token)
      BY <2>1, <2>5, LockActions
    <2> QED BY <2>6, <2>7 DEF Lock!LockNext
  <1> QED BY <1>2, <1>3, <1>4 DEF RouterStep

\* Input that is written, queued, answered or given up is the lock's.
LEMMA InputMaps ==
  ASSUME GateInv, IsFiniteSet(Typers), NEW t \in Typers, TyperStep(t)
  PROVE  Lock!LockNext \/ UNCHANGED Lock!lvars
  <1>1. /\ gate \in GateStates /\ typer \in [Typers -> TyperStates] /\ session.handle \in BOOLEAN
        /\ TicketsAccounted
    BY Typed DEF GateInv, SessionStates
  <1> DEFINE w == Cardinality(Waiters)
  <1>2. w \in Nat /\ (w = 0 <=> gate.next_ticket = gate.next_served)
    BY WaitersCount
  <1>3. LockNow.held = gate.in_flight /\ LockNow.epoch = gate.generation /\ LockNow.waiting = w
    BY DEF LockNow
  <1>4. InputClasses = Lock!InputClasses
    BY DEF InputClasses, Lock!InputClasses
  <1>5. ASSUME NEW class \in InputClasses, InputAtOnce(t, class) PROVE Lock!LockNext
    <2>1. /\ ~gate.in_flight /\ gate.next_served = gate.next_ticket
          /\ LocalWrite(t, class) /\ UNCHANGED typer
          /\ gate' = Served([gate EXCEPT !.next_ticket = @ + 1], gate.next_served + 1)
      BY <1>5 DEF InputAtOnce
    <2>2. gate'.generation = gate.generation /\ gate'.in_flight = gate.in_flight
      BY <1>1, <2>1 DEF Served, GateStates
    <2>3. LockNow' = LockNow
      BY <2>1, <2>2 DEF LockNow, Waiters, Queued
    <2>4. PICK written \in BOOLEAN :
            /\ written => session.handle
            /\ session' = IF written THEN Lock!AfterInput(class) ELSE session
      BY <1>1, <2>1, SameInput
    <2>5. Lock!LockInputAtOnce(class, written)
      BY <1>2, <1>3, <2>1, <2>3, <2>4, LockActions
    <2> QED BY <1>4, <2>5 DEF Lock!LockNext
  <1>6. ASSUME NEW class \in InputClasses, InputQueues(t, class) PROVE Lock!LockNext
    <2> DEFINE new == [pc |-> "waiting", ticket |-> gate.next_ticket,
                       generation |-> gate.generation, class |-> class]
    <2>1. /\ typer[t].pc = "idle" /\ typer' = [typer EXCEPT ![t] = new] /\ UNCHANGED session
          /\ gate.in_flight \/ gate.next_served # gate.next_ticket
          /\ gate' = [gate EXCEPT !.next_ticket = @ + 1]
      BY <1>6 DEF InputQueues
    <2>2. gate'.generation = gate.generation /\ gate'.in_flight = gate.in_flight
      BY <1>1, <2>1 DEF GateStates
    <2>3. /\ typer'[t].pc = "waiting" /\ typer'[t].generation = gate.generation
          /\ \A u \in Typers : u # t => typer'[u] = typer[u]
      BY <1>1, <2>1
    <2>4. Waiters' = Waiters \cup {t} /\ t \notin Waiters
      BY <2>1, <2>2, <2>3 DEF Waiters, Queued
    <2>5. Cardinality(Waiters)' = w + 1
      BY <2>4, WaitersCount, FS_AddElement
    <2>6. w < Cardinality(Typers)
      <3>1. Waiters' \in SUBSET Typers
        BY DEF Waiters
      <3>2. Cardinality(Waiters)' <= Cardinality(Typers) /\ Cardinality(Typers) \in Nat
        BY <3>1, FS_Subset, FS_CardinalityType
      <3> QED BY <1>2, <2>5, <3>2
    <2>7. LockNow' = [LockNow EXCEPT !.waiting = @ + 1]
      <3>1. LockNow' = [epoch |-> gate.generation, held |-> gate.in_flight, waiting |-> w + 1]
        BY <2>2, <2>5, Zenon DEF LockNow
      <3> QED BY <3>1 DEF LockNow
    <2>8. Lock!LockInputWaits
      BY <1>2, <1>3, <2>1, <2>6, <2>7, LockActions
    <2> QED BY <2>8 DEF Lock!LockNext
  <1>7. ASSUME Queued(t), typer' = [typer EXCEPT ![t] = IdleTyper],
               gate'.generation = gate.generation, gate'.in_flight = gate.in_flight
        PROVE  /\ w > 0 /\ t \in Waiters
               /\ LockNow' = [LockNow EXCEPT !.waiting = @ - 1]
    <2>1. t \in Waiters
      BY <1>7 DEF Waiters
    <2>2. \A u \in Typers : u # t => typer'[u] = typer[u]
      BY <1>1, <1>7
    <2>3. typer'[t].pc = "idle"
      BY <1>1, <1>7 DEF IdleTyper
    <2>4. Waiters' = Waiters \ {t}
      BY <1>7, <2>2, <2>3 DEF Waiters, Queued
    <2>5. Cardinality(Waiters)' = w - 1
      BY <2>1, <2>4, WaitersCount
    <2>6. w > 0
      <3>1. Waiters # {} /\ IsFiniteSet(Waiters)
        BY <2>1, WaitersCount
      <3> QED BY <1>2, <3>1, FS_EmptySet
    <2>7. LockNow' = [epoch |-> gate.generation, held |-> gate.in_flight, waiting |-> w - 1]
      BY <1>7, <2>5, Zenon DEF LockNow
    <2> QED BY <2>1, <2>6, <2>7 DEF LockNow
  <1>8. CASE InputServed(t)
    <2>1. /\ Queued(t) /\ ~gate.in_flight /\ typer' = [typer EXCEPT ![t] = IdleTyper]
          /\ gate' = Served(gate, gate.next_served + 1)
          /\ LocalWrite(t, typer[t].class)
      BY <1>8 DEF InputServed, MayServe, Queued
    <2>2. gate'.generation = gate.generation /\ gate'.in_flight = gate.in_flight
      BY <1>1, <2>1 DEF Served, GateStates
    <2>3. w > 0 /\ LockNow' = [LockNow EXCEPT !.waiting = @ - 1]
      BY <1>7, <2>1, <2>2
    <2>4. PICK written \in BOOLEAN :
            /\ written => session.handle
            /\ session' = IF written THEN Lock!AfterInput(typer[t].class) ELSE session
      BY <1>1, <2>1, SameInput
    <2>5. Lock!LockInputServed(typer[t].class, written)
      BY <1>3, <2>1, <2>3, <2>4, LockActions
    <2>6. typer[t].class \in InputClasses
      BY <1>1 DEF TyperStates
    <2> QED BY <1>4, <2>5, <2>6 DEF Lock!LockNext
  <1>9. CASE InputTimesOut(t)
    <2>1. /\ Queued(t) /\ typer' = [typer EXCEPT ![t] = IdleTyper] /\ UNCHANGED session
          /\ gate.in_flight \/ gate.next_served # typer[t].ticket
          /\ gate' = Served([gate EXCEPT !.cancelled = @ \cup {typer[t].ticket}],
                            gate.next_served)
      BY <1>9 DEF InputTimesOut, Queued
    <2>2. gate'.generation = gate.generation /\ gate'.in_flight = gate.in_flight
      BY <1>1, <2>1 DEF Served, GateStates
    <2>3. w > 0 /\ t \in Waiters /\ LockNow' = [LockNow EXCEPT !.waiting = @ - 1]
      BY <1>7, <2>1, <2>2
    <2>4. gate.next_served # typer[t].ticket => w > 1
      <3> SUFFICES ASSUME gate.next_served # typer[t].ticket PROVE w > 1
        OBVIOUS
      <3>1. gate.next_served \in gate.next_served .. (gate.next_ticket - 1)
        BY <1>1, <2>1 DEF TicketsAccounted, Queued, GateStates
      <3>2. PICK u \in Typers : Queued(u) /\ typer[u].ticket = gate.next_served
        BY <1>1, <3>1 DEF TicketsAccounted, Queued
      <3>3. u \in Waiters \ {t}
        BY <3>2 DEF Waiters
      <3>4. IsFiniteSet(Waiters \ {t}) /\ Waiters \ {t} # {}
        BY <3>3, WaitersCount, FS_RemoveElement
      <3>5. Cardinality(Waiters \ {t}) # 0 /\ Cardinality(Waiters \ {t}) \in Nat
        BY <3>4, FS_EmptySet, FS_CardinalityType
      <3>6. Cardinality(Waiters \ {t}) = w - 1
        BY <2>3, WaitersCount
      <3> QED BY <1>2, <3>5, <3>6
    <2>5. Lock!LockInputGivesUp
      BY <1>3, <2>1, <2>3, <2>4, LockActions
    <2> QED BY <2>5 DEF Lock!LockNext
  <1>10. CASE InputAbandoned(t)
    <2>1. ~Queued(t) /\ typer' = [typer EXCEPT ![t] = IdleTyper] /\ UNCHANGED <<gate, session>>
      BY <1>10 DEF InputAbandoned, Queued
    <2>2. typer'[t].pc = "idle" /\ \A u \in Typers : u # t => typer'[u] = typer[u]
      BY <1>1, <2>1 DEF IdleTyper
    <2>3. Waiters' = Waiters
      BY <2>1, <2>2 DEF Waiters, Queued
    <2> QED BY <2>1, <2>3, LockStutters
  <1> QED BY <1>5, <1>6, <1>8, <1>9, <1>10 DEF TyperStep

\* A child that comes or goes starts a new epoch in which nobody waits.
LEMMA ChildMaps ==
  ASSUME GateInv, IsFiniteSet(Typers), InstallHandle \/ DropHandle
  PROVE  Lock!LockNext
  <1>1. gate \in GateStates /\ typer \in [Typers -> TyperStates] /\ TokensArePast
    BY Typed DEF GateInv
  <1>2. gate' = Regenerated(gate) /\ UNCHANGED typer /\ gate.generation < MaxGeneration
    BY DEF InstallHandle, DropHandle
  <1>3. gate'.generation = gate.generation + 1 /\ gate'.in_flight = FALSE
    BY <1>2 DEF Regenerated
  <1>4. \A t \in Typers : typer[t].pc = "waiting" => typer[t].generation # gate.generation + 1
    BY <1>1 DEF TokensArePast, TyperStates, GateStates
  <1>5. Waiters' = {}
    BY <1>2, <1>3, <1>4 DEF Waiters, Queued
  <1>6. Cardinality(Waiters)' = 0
    BY <1>5, FS_EmptySet
  <1>7. LockNow' = [epoch |-> LockNow.epoch + 1, held |-> FALSE, waiting |-> 0]
    <2>1. LockNow.epoch = gate.generation
      BY DEF LockNow
    <2> QED BY <1>3, <1>6, <2>1, Zenon DEF LockNow
  <1>8. PICK present \in BOOLEAN :
          (present \/ session.handle) /\ session' = Lock!Blank(present)
    BY DEF InstallHandle, DropHandle, Lock!Blank
  <1>9. LockNow.epoch < MaxGeneration
    BY <1>2 DEF LockNow
  <1>10. Lock!LockChild(present)
    BY <1>7, <1>8, <1>9, LockActions
  <1> QED BY <1>10 DEF Lock!LockNext

\* Tickets, condition variable and cancelled set implement, for any finite number
\* of input threads, the lock with an epoch that the router is written against.
THEOREM GateImplementsLock ==
  ASSUME IsFiniteSet(Typers)
  PROVE  Spec => ImplementsComposerLock
  <1>1. Init => Lock!LockInit
    <2> SUFFICES ASSUME Init PROVE Lock!LockInit
      OBVIOUS
    <2>1. Waiters = {}
      BY DEF Init, IdleTyper, Waiters, Queued
    <2>2. Cardinality(Waiters) = 0
      BY <2>1, FS_EmptySet
    <2>3. LockNow = [epoch |-> 0, held |-> FALSE, waiting |-> 0]
      BY <2>2 DEF Init, LockNow
    <2> QED BY <2>3 DEF Init, Lock!LockInit, Lock!Blank, LockNow, Waiters, Queued
  <1>2. GateInv /\ [Next]_vars => [Lock!LockNext]_(Lock!lvars)
    <2> SUFFICES ASSUME GateInv, [Next]_vars PROVE Lock!LockNext \/ UNCHANGED Lock!lvars
      OBVIOUS
    <2>1. gate \in GateStates
      BY Typed DEF GateInv
    <2>2. CASE UNCHANGED vars
      BY <2>2, LockStutters DEF vars, Waiters, Queued
    <2>3. CASE Next
      BY <2>1, <2>3, InputMaps, DeliveryMaps, SessionMaps, ChildMaps DEF Next
    <2> QED BY <2>2, <2>3
  <1> QED BY <1>1, <1>2, GateInvariant, PTL DEF Spec, ImplementsComposerLock, Lock!LockSpec
=============================================================================
