------------------------ MODULE RouterOutbox_proofs ------------------------
(***************************************************************************)
(* Proofs about RouterOutbox, for any number of deliveries, keystrokes,    *)
(* reports, threads and children, whether or not threads are prompt.       *)
(*                                                                         *)
(* The invariant has five parts.  Shaped: types, the pill, and that a      *)
(* dropped outbox holds nothing.  OneHolder: the composer's epoch is with  *)
(* one thread at most.  Known: no delivery is anywhere before it was       *)
(* handed over.  Once: no delivery is in two places.  Ordered: relays      *)
(* wait, fly and land in the order of their dispatch; that a body is       *)
(* written before those that wait needs OneHolder.                         *)
(***************************************************************************)
EXTENDS RouterOutbox, SequenceTheorems, WellFoundedInduction, TLAPS

-----------------------------------------------------------------------------
(* The bag of threads.                                                     *)

\* What taking one copy of an element away makes of it.
LEMMA BagMinus ==
    ASSUME NEW B, IsABag(B), NEW x \in DOMAIN B
    PROVE  /\ IsABag(B (-) SetToBag({x}))
           /\ DOMAIN (B (-) SetToBag({x})) = {e \in DOMAIN B : e = x => B[x] > 1}
           /\ \A e \in DOMAIN (B (-) SetToBag({x})) :
                 (B (-) SetToBag({x}))[e] = IF e = x THEN B[e] - 1 ELSE B[e]
<1> DEFINE S == SetToBag({x})
           C == B (-) S
<1>1. DOMAIN S = {x} /\ S[x] = 1
  BY DEF SetToBag
<1>2. B \in [DOMAIN B -> {n \in Nat : n > 0}]
  BY DEF IsABag
<1> HIDE DEF S
<1>3. DOMAIN C = {e \in DOMAIN B : e = x => B[x] > 1}
  BY <1>1, <1>2 DEF (-)
<1>4. \A e \in DOMAIN C : C[e] = IF e = x THEN B[e] - 1 ELSE B[e]
  BY <1>1, <1>2, <1>3 DEF (-)
<1>5. IsABag(C)
  BY <1>1, <1>2 DEF (-), IsABag
<1> QED
  BY <1>3, <1>4, <1>5 DEF S

\* A thread that moves on: what is new is one of `next`, and the others keep their
\* copies.
LEMMA BecomesBag ==
    ASSUME IsABag(tasks), NEW task \in Running, NEW next, Becomes(task, next)
    PROVE  /\ IsABag(tasks')
           /\ Running' = {t \in Running : t = task => tasks[t] > 1} \cup next
           /\ \A t \in Running' \ next : tasks'[t] <= tasks[t]
           /\ \A t \in next \ Running : tasks'[t] = 1
<1> DEFINE rest == tasks (-) SetToBag({task})
<1>1. task \in DOMAIN tasks /\ tasks' = rest (+) SetToBag(next)
  BY DEF Becomes, Running, BagToSet
<1>2. /\ IsABag(rest)
      /\ DOMAIN rest = {e \in DOMAIN tasks : e = task => tasks[task] > 1}
      /\ \A e \in DOMAIN rest : rest[e] = IF e = task THEN tasks[e] - 1 ELSE tasks[e]
  BY <1>1, BagMinus
<1> HIDE DEF rest
<1>3. \A e \in DOMAIN tasks : tasks[e] \in Nat
  BY DEF IsABag
<1>4. /\ IsABag(tasks')
      /\ DOMAIN tasks' = DOMAIN rest \cup next
      /\ \A e \in DOMAIN tasks' : e \notin next => tasks'[e] = rest[e]
      /\ \A e \in next : e \notin DOMAIN rest => tasks'[e] = 1
  BY <1>1, <1>2 DEF IsABag, (+), SetToBag
<1> QED
  BY <1>2, <1>3, <1>4 DEF Running, BagToSet

\* New threads.
LEMMA SpawnsBag ==
    ASSUME IsABag(tasks), NEW next, Spawns(next)
    PROVE  /\ IsABag(tasks')
           /\ Running' = Running \cup next
           /\ \A t \in Running' \ next : tasks'[t] <= tasks[t]
           /\ \A t \in next \ Running : tasks'[t] = 1
  BY DEF Spawns, IsABag, (+), SetToBag, Running, BagToSet

\* Input that is written to the child changes the retries only.
LEMMA TouchedBag ==
    ASSUME IsABag(tasks), Running \subseteq Task
    PROVE  /\ IsABag(Touched)
           /\ DOMAIN Touched \subseteq Task
           /\ \A t \in DOMAIN Touched : t.at # "retry" => t \in Running /\ Touched[t] = tasks[t]
<1> DEFINE Touch(task) == IF task.at = "retry" THEN [task EXCEPT !.touched = TRUE] ELSE task
           Untouch(task) == [task EXCEPT !.touched = FALSE]
<1>1. tasks \in [Running -> {n \in Nat : n > 0}]
  BY DEF IsABag, Running, BagToSet
<1>2. \A task : Copies(task) \in Nat /\ (task \in Running => Copies(task) = tasks[task] /\ tasks[task] > 0)
  BY <1>1 DEF Copies, BagIn, Running
<1>3. ASSUME NEW old \in Running
      PROVE  /\ Touch(old) \in Task
             /\ old.at = "retry" => Touch(old).at = "retry" /\ old \in {Touch(old), Untouch(Touch(old))}
             /\ old.at # "retry" => Touch(old) = old
  <2>1. CASE old.at = "retry"
    <3>1. old \in [at : {"retry"}, gen : Nat, touched : BOOLEAN]
      BY <2>1 DEF Task
    <3>2. Touch(old) \in [at : {"retry"}, gen : Nat, touched : BOOLEAN]
      BY <2>1, <3>1
    <3>3. old.touched \in BOOLEAN /\ old.gen \in Nat /\ old = [at |-> "retry", gen |-> old.gen, touched |-> old.touched]
      BY <3>1
    <3>4. old \in {Touch(old), Untouch(Touch(old))}
      <4>1. ASSUME NEW b, old.touched = b
            PROVE  old = [old EXCEPT !.touched = b]
        BY <3>1, <4>1
      <4>2. ASSUME NEW b, NEW c, old.touched = b
            PROVE  old = [[old EXCEPT !.touched = c] EXCEPT !.touched = b]
        BY <3>1, <4>2
      <4>3. old.touched = TRUE \/ old.touched = FALSE
        BY <3>3
      <4>4. Touch(old) = [old EXCEPT !.touched = TRUE]
        BY <2>1, Zenon
      <4> QED
        BY <4>1, <4>2, <4>3, <4>4, Zenon
    <3> QED
      BY <2>1, <3>2, <3>4 DEF Task
  <2>2. CASE old.at # "retry"
    BY <2>2
  <2> QED
    BY <2>1, <2>2
<1>4. Touched = [task \in {Touch(old) : old \in Running} |->
                   Copies(task) + IF task.at = "retry" THEN Copies(Untouch(task)) ELSE 0]
  BY Zenon DEF Touched
<1> HIDE DEF Touch, Untouch
<1>5. DOMAIN Touched = {Touch(old) : old \in Running}
  BY <1>4
<1>6. ASSUME NEW task \in DOMAIN Touched
      PROVE  /\ Touched[task] \in Nat /\ Touched[task] > 0 /\ task \in Task
             /\ task.at # "retry" => task \in Running /\ Touched[task] = tasks[task]
  <2>1. Touched[task] = Copies(task) + IF task.at = "retry" THEN Copies(Untouch(task)) ELSE 0
    BY <1>4, <1>5
  <2>2. PICK old \in Running : task = Touch(old)
    BY <1>5
  <2>3. CASE old.at = "retry"
    BY <1>2, <1>3, <2>1, <2>2, <2>3
  <2>4. CASE old.at # "retry"
    BY <1>2, <1>3, <2>1, <2>2, <2>4
  <2> QED
    BY <2>3, <2>4
<1>7. Touched = [t \in DOMAIN Touched |-> Touched[t]]
  BY <1>4, <1>5, Zenon
<1>8. IsABag(Touched)
  BY <1>6, <1>7 DEF IsABag
<1> QED
  BY <1>6, <1>8

-----------------------------------------------------------------------------
(* The inductive invariant.                                                *)

\* A relay carries one delivery; a nudge may stand for several, one of the
\* reconciliation for none.
Singles == {item \in Item : item.kind = "relay" => \E d \in 1 .. MaxDeliveries : item.ids = {d}}

\* The outbox holds items of that kind, and so does a body about to be written.
OutboxType == [q : Seq(Singles), submit : BOOLEAN, blocked : BOOLEAN, retry : BOOLEAN, gen : Nat,
               open : BOOLEAN]
ThreadType == {task \in Task : task.at = "body" => task.item \in Singles}

\* The bag is one, and so is what its threads carry.
BagTyped == IsABag(tasks) /\ Running \subseteq ThreadType

\* An outbox that was dropped holds nothing; the pill is the one the outbox calls for.
OutboxShaped ==
    /\ outbox \in OutboxType
    /\ ~outbox.open => outbox.q = <<>>
    /\ unread \in 0 .. MaxUnread
    /\ PillIsCurrent

\* The types of everything else.
OthersTyped ==
    /\ LockTypeOK
    /\ phase \in {"pending", "live", "gone"}
    /\ idle \in BOOLEAN /\ backoff \in [on : BOOLEAN, nudges : 0 .. MaxRenudges]
    /\ sent \in 0 .. MaxDeliveries /\ inputs \in 0 .. MaxInputs /\ reports \in 0 .. MaxReports
    /\ written \in Seq(1 .. MaxDeliveries)
    /\ submitted \subseteq 1 .. MaxDeliveries /\ warned \subseteq 1 .. MaxDeliveries

Shaped == BagTyped /\ OutboxShaped /\ OthersTyped

\* Threads that were given an epoch of the composer, and still have it to give back.
HasToken(task) == task.at \in {"granted", "body", "cancel", "enter", "finish"}

\* The threads that hold a token.
Holders == {task \in Running : HasToken(task)}

\* The composer is held by one thread, that of its epoch; tokens of earlier epochs
\* are left over.
OneHolder ==
    /\ \A t \in Holders : t.token <= lock.epoch
    /\ \A t \in Holders : t.token = lock.epoch => lock.held /\ tasks[t] = 1
    /\ \A t, u \in Holders : t.token = lock.epoch /\ u.token = lock.epoch => t = u

\* No delivery is anywhere before it was handed over.
Known ==
    /\ \A i \in DOMAIN outbox.q : \A d \in outbox.q[i].ids : d <= sent
    /\ \A t \in InFlight : \A d \in t.item.ids : d <= sent
    /\ \A d \in submitted : d <= sent
    /\ \A n \in DOMAIN written : written[n] <= sent

\* DeliveredAtMostOnce, delivery by delivery.
Once ==
    /\ \A i, j \in DOMAIN outbox.q : i # j => \A d \in outbox.q[i].ids : d \notin outbox.q[j].ids
    /\ \A t, u \in InFlight : t # u => \A d \in t.item.ids : d \notin u.item.ids
    /\ \A t \in InFlight : t.item.ids # {} => tasks[t] = 1
    /\ \A i \in DOMAIN outbox.q : \A t \in InFlight : \A d \in outbox.q[i].ids : d \notin t.item.ids
    /\ \A i \in DOMAIN outbox.q : \A d \in outbox.q[i].ids : d \notin submitted
    /\ \A t \in InFlight : \A d \in t.item.ids : d \notin submitted

\* Delivery d was dispatched before every relay of the queue.
Before(d, q) == \A i \in DOMAIN q : q[i].kind = "relay" => \A e \in q[i].ids : d < e

\* Relays are queued in the order of their dispatch; the one whose body is about to
\* be written is before those, and whatever was written is before all.
Ordered ==
    /\ \A i, j \in DOMAIN outbox.q :
          i < j /\ outbox.q[i].kind = "relay" /\ outbox.q[j].kind = "relay" =>
             \A d \in outbox.q[i].ids, e \in outbox.q[j].ids : d < e
    /\ \A n \in DOMAIN written : Before(written[n], outbox.q)
    /\ \A t \in Holders : t.at = "body" /\ t.item.kind = "relay" /\ t.token = lock.epoch =>
          \A d \in t.item.ids : /\ \A n \in DOMAIN written : written[n] < d
                                /\ Before(d, outbox.q)
    /\ RelaysInOrder

OutboxInv == Shaped /\ OneHolder /\ Known /\ Once /\ Ordered

-----------------------------------------------------------------------------
(* Types.                                                                  *)

\* What the record of a thread holds, by where the thread stands.
LEMMA TaskFields ==
    ASSUME NEW task \in Task
    PROVE  /\ task.at \in {"notify", "retry", "flush", "cooldown", "check", "reserve", "recent", "prune",
                           "granted", "refused", "body", "cancel", "dispatch-recent", "enter", "finish", "jammed"}
           /\ task.at = "notify" => task.event \in Events
           /\ task.at \in {"retry", "flush", "cooldown"} => task.gen \in Nat
           /\ HasToken(task) => task.token \in Nat
           /\ task.at \in {"body", "cancel", "enter"} => task.item \in Item
           /\ task.at \in {"body", "cancel"} =>
                 /\ task.caller \in {"dispatch", "flush", "reconcile"}
                 /\ task \in [at : {"body", "cancel"}, item : Item, token : Nat,
                              caller : {"dispatch", "flush", "reconcile"}, tail : Tails]
           /\ task.at \in {"check", "reserve", "recent", "prune", "granted", "refused", "body", "cancel"} =>
                 task.tail \in Tails
  BY DEF Task, HasToken

\* The threads that the steps start are of the type of threads.
LEMMA NewTasksAreTasks ==
    /\ \A e \in Events : [at |-> "notify", event |-> e] \in Task
    /\ \A g \in Nat : [at |-> "retry", gen |-> g, touched |-> FALSE] \in Task
    /\ \A g \in Nat : [at |-> "flush", gen |-> g] \in Task
    /\ \A g \in Nat : [at |-> "cooldown", gen |-> g] \in Task
    /\ \A t \in Tails : [at |-> "check", tail |-> t] \in Task
    /\ \A t \in Tails : [at |-> "reserve", tail |-> t] \in Task
    /\ \A t \in Tails : [at |-> "recent", tail |-> t] \in Task
    /\ \A t \in Tails : [at |-> "prune", tail |-> t] \in Task
    /\ \A t \in Tails, n \in Nat : [at |-> "granted", token |-> n, tail |-> t] \in Task
    /\ \A t \in Tails, a \in {"unavailable", "in_flight", "pending_input", "recently_typing"} :
          [at |-> "refused", answer |-> a, tail |-> t] \in Task
    /\ \A i \in Item, n \in Nat, c \in {"dispatch", "flush", "reconcile"}, t \in Tails :
          [at |-> "body", item |-> i, token |-> n, caller |-> c, tail |-> t] \in Task
    /\ [at |-> "dispatch-recent"] \in Task
    /\ \A i \in Item, n \in Nat : [at |-> "enter", item |-> i, token |-> n] \in Task
    /\ \A n \in Nat : [at |-> "finish", token |-> n] \in Task
    /\ [at |-> "jammed"] \in Task
<1>1. \A e \in Events : [at |-> "notify", event |-> e] \in Task
  BY DEF Task
<1>2. \A g \in Nat : [at |-> "retry", gen |-> g, touched |-> FALSE] \in Task
  BY DEF Task
<1>3. \A g \in Nat : [at |-> "flush", gen |-> g] \in Task /\ [at |-> "cooldown", gen |-> g] \in Task
  BY DEF Task
<1>4. \A t \in Tails : /\ [at |-> "check", tail |-> t] \in Task /\ [at |-> "reserve", tail |-> t] \in Task
                       /\ [at |-> "recent", tail |-> t] \in Task /\ [at |-> "prune", tail |-> t] \in Task
  BY DEF Task
<1>5. \A t \in Tails, n \in Nat : [at |-> "granted", token |-> n, tail |-> t] \in Task
  BY DEF Task
<1>6. \A t \in Tails, a \in {"unavailable", "in_flight", "pending_input", "recently_typing"} :
          [at |-> "refused", answer |-> a, tail |-> t] \in Task
  BY DEF Task
<1>7. \A i \in Item, n \in Nat, c \in {"dispatch", "flush", "reconcile"}, t \in Tails :
          [at |-> "body", item |-> i, token |-> n, caller |-> c, tail |-> t] \in Task
  BY DEF Task
<1>8. [at |-> "dispatch-recent"] \in Task
  BY DEF Task
<1>9. \A i \in Item, n \in Nat : [at |-> "enter", item |-> i, token |-> n] \in Task
  BY DEF Task
<1>10. \A n \in Nat : [at |-> "finish", token |-> n] \in Task
  BY DEF Task
<1>11. [at |-> "jammed"] \in Task
  BY DEF Task
<1> QED
  BY <1>1, <1>2, <1>3, <1>4, <1>5, <1>6, <1>7, <1>8, <1>9, <1>10, <1>11

\* ... and those inside start_reserved_delivery carry an item of the queue.
LEMMA NewTasks ==
    /\ \A e \in Events : [at |-> "notify", event |-> e] \in ThreadType
    /\ \A g \in Nat : [at |-> "retry", gen |-> g, touched |-> FALSE] \in ThreadType
    /\ \A g \in Nat : [at |-> "flush", gen |-> g] \in ThreadType
    /\ \A g \in Nat : [at |-> "cooldown", gen |-> g] \in ThreadType
    /\ \A t \in Tails : [at |-> "check", tail |-> t] \in ThreadType
    /\ \A t \in Tails : [at |-> "reserve", tail |-> t] \in ThreadType
    /\ \A t \in Tails : [at |-> "recent", tail |-> t] \in ThreadType
    /\ \A t \in Tails : [at |-> "prune", tail |-> t] \in ThreadType
    /\ \A t \in Tails, n \in Nat : [at |-> "granted", token |-> n, tail |-> t] \in ThreadType
    /\ \A t \in Tails, a \in {"unavailable", "in_flight", "pending_input", "recently_typing"} :
          [at |-> "refused", answer |-> a, tail |-> t] \in ThreadType
    /\ \A i \in Singles, n \in Nat, c \in {"dispatch", "flush", "reconcile"}, t \in Tails :
          [at |-> "body", item |-> i, token |-> n, caller |-> c, tail |-> t] \in ThreadType
    /\ [at |-> "dispatch-recent"] \in ThreadType
    /\ \A i \in Item, n \in Nat : [at |-> "enter", item |-> i, token |-> n] \in ThreadType
    /\ \A n \in Nat : [at |-> "finish", token |-> n] \in ThreadType
    /\ [at |-> "jammed"] \in ThreadType
  BY NewTasksAreTasks DEF ThreadType, Singles

\* What is left of a cool-down after its flush is a prune, which holds no token.
LEMMA TailTyped == \A t : AfterTail(t) \subseteq ThreadType /\ \A u \in AfterTail(t) : ~HasToken(u)
  BY NewTasks DEF AfterTail, HasToken, Tails

\* A dropped outbox is an empty one.
LEMMA NoOutboxTyped == NoOutbox \in OutboxType /\ NoOutbox.q = <<>> /\ ~NoOutbox.open
  BY DEF NoOutbox, OutboxType

\* A non-empty set of naturals has a least member.
LEMMA LeastNatural ==
    ASSUME NEW T \in SUBSET Nat, T # {}
    PROVE  \E m \in T : \A k \in T : m <= k
<1>1. PICK m \in T : \A k \in T : ~(<<k, m>> \in OpToRel(<, Nat))
  BY NatLessThanWellFounded, WFMin
<1>2. ASSUME NEW k \in T PROVE m <= k
  <2>1. ~(k < m)
    BY <1>1 DEF OpToRel
  <2> QED
    BY <2>1
<1> QED
  BY <1>2

\* SessionOutbox::enqueue puts the item at the end, or joins a nudge to the one that
\* is queued.
LEMMA Enqueued ==
    ASSUME NEW box \in OutboxType, NEW item \in Singles
    PROVE  /\ Enqueue(box, item) \in OutboxType /\ Enqueue(box, item).open = box.open
           /\ \/ Enqueue(box, item).q = Append(box.q, item)
              \/ /\ item.kind = "nudge"
                 /\ \E n \in DOMAIN box.q :
                       /\ box.q[n].kind = "nudge"
                       /\ Enqueue(box, item).q =
                             [box.q EXCEPT ![n] = [box.q[n] EXCEPT !.ids = @ \cup item.ids]]
<1> DEFINE nudges == {i \in DOMAIN box.q : box.q[i].kind = "nudge"}
           first == CHOOSE n \in nudges : \A m \in nudges : n <= m
<1>1. box.q \in Seq(Singles)
  BY DEF OutboxType
<1>2. CASE item.kind = "nudge" /\ nudges # {}
  <2>1. first \in nudges
    <3>1. nudges \in SUBSET Nat
      BY <1>1
    <3>2. \E n \in nudges : \A m \in nudges : n <= m
      BY <1>2, <3>1, LeastNatural
    <3> QED
      BY <3>2
  <2>2. Enqueue(box, item) = [box EXCEPT !.q[first].ids = @ \cup item.ids]
    BY <1>2, Zenon DEF Enqueue
  <2> HIDE DEF first
  <2>3. box.q[first] \in Singles /\ box.q[first].kind = "nudge"
    BY <1>1, <2>1
  <2>4. [box.q[first] EXCEPT !.ids = @ \cup item.ids] \in Singles
    BY <2>3 DEF Item, Singles
  <2> DEFINE joined == [box.q EXCEPT ![first] = [box.q[first] EXCEPT !.ids = @ \cup item.ids]]
  <2>5. joined \in Seq(Singles)
    BY <1>1, <2>1, <2>4
  <2>6. Enqueue(box, item) = [box EXCEPT !.q = joined]
    BY <2>2, Zenon
  <2> HIDE DEF joined
  <2>7. Enqueue(box, item) \in OutboxType /\ Enqueue(box, item).open = box.open /\ Enqueue(box, item).q = joined
    BY <2>5, <2>6 DEF OutboxType
  <2> QED
    BY <1>2, <2>1, <2>7, Zenon DEF joined
<1>3. CASE ~(item.kind = "nudge" /\ nudges # {})
  <2>1. Enqueue(box, item) = [box EXCEPT !.q = Append(box.q, item)]
    BY <1>3, Zenon DEF Enqueue
  <2>2. Append(box.q, item) \in Seq(Singles)
    BY <1>1
  <2> QED
    BY <2>1, <2>2 DEF OutboxType
<1> QED
  BY <1>2, <1>3

\* The bag keeps its type when a thread moves on to threads of the type.
LEMMA BecomesTyped ==
    ASSUME BagTyped, NEW task \in Running, NEW next \in SUBSET ThreadType, Becomes(task, next)
    PROVE  BagTyped'
<1>1. IsABag(tasks') /\ Running' = {t \in Running : t = task => tasks[t] > 1} \cup next
  BY BecomesBag DEF BagTyped
<1> QED
  BY <1>1 DEF BagTyped

\* ... when threads are started.
LEMMA SpawnsTyped ==
    ASSUME BagTyped, NEW next \in SUBSET ThreadType, Spawns(next)
    PROVE  BagTyped'
<1>1. IsABag(tasks') /\ Running' = Running \cup next
  BY SpawnsBag DEF BagTyped
<1> QED
  BY <1>1 DEF BagTyped

\* ... when input touches the retries and sends a notification; no token appears.
LEMMA NotifiesTyped ==
    ASSUME BagTyped, NEW event \in Events, NotifiesInput(event)
    PROVE  /\ BagTyped'
           /\ \A t \in Running' : HasToken(t) => t \in Running /\ tasks'[t] <= tasks[t]
<1> DEFINE new == [at |-> "notify", event |-> event]
<1>1. /\ IsABag(Touched) /\ DOMAIN Touched \subseteq Task
      /\ \A t \in DOMAIN Touched : t.at # "retry" => t \in Running /\ Touched[t] = tasks[t]
  BY TouchedBag DEF BagTyped, ThreadType
<1>2. new \in ThreadType /\ ~HasToken(new)
  BY NewTasks DEF HasToken
<1>3. tasks' = Touched (+) SetToBag({new})
  BY DEF NotifiesInput
<1> HIDE DEF new
<1>4. /\ IsABag(tasks') /\ DOMAIN tasks' = DOMAIN Touched \cup {new}
      /\ \A t \in DOMAIN tasks' : t # new => tasks'[t] = Touched[t]
  BY <1>1, <1>3 DEF IsABag, (+), SetToBag
<1>5. \A t \in DOMAIN Touched : Touched[t] \in Nat
  BY <1>1 DEF IsABag
<1> QED
  BY <1>1, <1>2, <1>4, <1>5 DEF BagTyped, Running, BagToSet, HasToken, ThreadType

\* ... and when it only touches them.
LEMMA TouchedTyped ==
    ASSUME BagTyped, tasks' = Touched
    PROVE  /\ BagTyped'
           /\ \A t \in Running' : HasToken(t) => t \in Running /\ tasks'[t] <= tasks[t]
<1>1. /\ IsABag(Touched) /\ DOMAIN Touched \subseteq Task
      /\ \A t \in DOMAIN Touched : t.at # "retry" => t \in Running /\ Touched[t] = tasks[t]
  BY TouchedBag DEF BagTyped, ThreadType
<1>2. \A t \in DOMAIN Touched : Touched[t] \in Nat
  BY <1>1 DEF IsABag
<1> QED
  BY <1>1, <1>2 DEF BagTyped, Running, BagToSet, HasToken, ThreadType

\* Every step of the composer keeps its type.
LEMMA LockSteps ==
    ASSUME LockTypeOK,
           \/ LockReserve \/ \E token : LockRelease(token)
           \/ \E class \in InputClasses, ok \in BOOLEAN :
                 LockInputAtOnce(class, ok) \/ LockInputServed(class, ok)
           \/ LockInputWaits \/ LockInputGivesUp
           \/ \E state \in InputStates, fresh \in BOOLEAN : LockObserve(state, fresh)
           \/ LockElapse
           \/ \E present \in BOOLEAN : LockChild(present)
           \/ UNCHANGED lvars
    PROVE  LockTypeOK'
<1> DEFINE LockType == [epoch : Nat, held : BOOLEAN, waiting : Nat]
           SessionType == [handle : BOOLEAN, pending : BOOLEAN, observed : InputStates \cup {None},
                           submit_recent : BOOLEAN, input_recent : BOOLEAN]
<1>1. lock \in LockType /\ session \in SessionType
  BY DEF LockTypeOK
<1>2. \A class \in InputClasses : AfterInput(class) \in SessionType
  BY <1>1 DEF AfterInput, InputClasses
<1>3. \A present \in BOOLEAN : Blank(present) \in SessionType
  BY DEF Blank
<1>4. CASE LockReserve
  BY <1>1, <1>4 DEF LockReserve, LockTypeOK
<1>5. ASSUME NEW token, LockRelease(token) PROVE LockTypeOK'
  BY <1>1, <1>5 DEF LockRelease, LockTypeOK
<1>6. ASSUME NEW class \in InputClasses, NEW ok \in BOOLEAN,
             LockInputAtOnce(class, ok) \/ LockInputServed(class, ok)
      PROVE  LockTypeOK'
  <2>1. session' \in SessionType
    BY <1>1, <1>2, <1>6 DEF LockInputAtOnce, LockInputServed
  <2>2. lock' \in LockType
    BY <1>1, <1>6 DEF LockInputAtOnce, LockInputServed
  <2> QED
    BY <2>1, <2>2 DEF LockTypeOK
<1>7. CASE LockInputWaits \/ LockInputGivesUp
  BY <1>1, <1>7 DEF LockInputWaits, LockInputGivesUp, LockTypeOK
<1>8. ASSUME NEW state \in InputStates, NEW fresh \in BOOLEAN, LockObserve(state, fresh)
      PROVE  LockTypeOK'
  BY <1>1, <1>8 DEF LockObserve, LockTypeOK
<1>9. CASE LockElapse
  BY <1>1, <1>9 DEF LockElapse, LockTypeOK
<1>10. ASSUME NEW present \in BOOLEAN, LockChild(present) PROVE LockTypeOK'
  BY <1>1, <1>3, <1>10 DEF LockChild, LockTypeOK
<1>11. CASE UNCHANGED lvars
  BY <1>1, <1>11 DEF lvars, LockTypeOK
<1> QED
  BY <1>4, <1>5, <1>6, <1>7, <1>8, <1>9, <1>10, <1>11

\* reserve_delivery has five answers.
LEMMA AnswerTyped ==
    Reservation \in {"unavailable", "in_flight", "pending_input", "recently_typing", "ready"}
  BY DEF Reservation

\* The shape implies the type invariant.
LEMMA ShapedIsTyped == Shaped => TypeOK
<1> SUFFICES ASSUME Shaped PROVE TypeOK
  OBVIOUS
<1>1. pill \in 0 .. MaxUnread
  BY OutboxAssumption DEF Shaped, OutboxShaped, PillIsCurrent, PillOf
<1>2. outbox \in [q : Seq(Item), submit : BOOLEAN, blocked : BOOLEAN, retry : BOOLEAN, gen : Nat, open : BOOLEAN]
  <2>1. outbox.q \in Seq(Item)
    BY DEF Shaped, OutboxShaped, OutboxType, Singles
  <2> QED
    BY <2>1 DEF Shaped, OutboxShaped, OutboxType
<1>3. Running \subseteq Task
  BY DEF Shaped, BagTyped, ThreadType
<1> QED
  BY <1>1, <1>2, <1>3 DEF Shaped, OutboxShaped, OthersTyped, TypeOK

\* blocked_transition recomputes the pill from the outbox it is given.
LEMMA SetOutboxShapes ==
    ASSUME OutboxShaped, NEW box \in OutboxType, ~box.open => box.q = <<>>,
           SetOutbox(box), unread' = unread
    PROVE  OutboxShaped'
  BY DEF OutboxShaped, SetOutbox, PillIsCurrent

\* The pill depends on the queue, and on whether the human's draft holds it back.
LEMMA SameQueueShapes ==
    ASSUME OutboxShaped, outbox' \in OutboxType, outbox'.q = outbox.q, outbox'.blocked = outbox.blocked,
           outbox'.open = outbox.open, pill' = pill, unread' = unread
    PROVE  OutboxShaped'
  BY DEF OutboxShaped, PillIsCurrent, PillOf

\* Nothing is recomputed when neither the outbox nor the count changes.
LEMMA SameOutbox ==
    ASSUME OutboxShaped, outbox' = outbox, pill' = pill, unread' = unread
    PROVE  OutboxShaped'
  BY DEF OutboxShaped, PillIsCurrent

\* No thread moves.
LEMMA SameThreads == ASSUME BagTyped, UNCHANGED tasks PROVE BagTyped'
  BY DEF BagTyped, Running, BagToSet

\* The session manager's part changes and the rest stays.
LEMMA SameOthers ==
    ASSUME OthersTyped, LockTypeOK', phase' \in {"pending", "live", "gone"},
           UNCHANGED <<idle, backoff, sent, inputs, reports, hist>>
    PROVE  OthersTyped'
  BY DEF OthersTyped, hist

-----------------------------------------------------------------------------
(* Deliveries.                                                              *)

\* session_outboxes.entry(..).or_default(): the outbox that is there, or an empty one.
LEMMA OpenedTyped ==
    ASSUME outbox \in OutboxType
    PROVE  Opened \in OutboxType /\ Opened.open /\ (outbox.open => Opened = outbox)
           /\ (~outbox.open => Opened.q = <<>>)
<1>1. CASE outbox.open
  BY <1>1 DEF Opened
<1>2. CASE ~outbox.open
  <2>1. Opened = [NoOutbox EXCEPT !.open = TRUE]
    BY <1>2, Zenon DEF Opened
  <2> QED
    BY <1>2, <2>1, NoOutboxTyped DEF OutboxType
<1> QED
  BY <1>1, <1>2

\* A parked delivery leaves an outbox of the type, with the pill it calls for.
LEMMA ParkShapes ==
    ASSUME OutboxShaped, NEW item \in Singles, NEW blocked \in BOOLEAN, Park(item, blocked), unread' = unread
    PROVE  OutboxShaped'
<1> DEFINE box == [Opened EXCEPT !.blocked = blocked]
<1>1. box \in OutboxType /\ box.open
  BY OpenedTyped DEF OutboxShaped, OutboxType
<1> HIDE DEF box
<1>2. Enqueue(box, item) \in OutboxType /\ Enqueue(box, item).open
  BY <1>1, Enqueued
<1>3. SetOutbox(Enqueue(box, item))
  BY DEF Park, box
<1> QED
  BY <1>2, <1>3, SetOutboxShapes

\* So does one that takes off, with its thread.
LEMMA StartShapes ==
    ASSUME OutboxShaped, BagTyped, LockTypeOK, NEW item \in Singles,
           NEW caller \in {"dispatch", "flush", "reconcile"},
           Start(item, caller), unread' = unread
    PROVE  OutboxShaped' /\ BagTyped'
<1> DEFINE box == [Opened EXCEPT !.submit = TRUE, !.blocked = FALSE]
           new == [at |-> "body", item |-> item, token |-> lock.epoch, caller |-> caller, tail |-> "none"]
<1>1. box \in OutboxType /\ box.open
  BY OpenedTyped DEF OutboxShaped, OutboxType
<1>2. lock.epoch \in Nat
  BY DEF LockTypeOK
<1>3. new \in ThreadType
  BY <1>2, NewTasks DEF Tails
<1>4. SetOutbox(box) /\ Spawns({new})
  BY DEF Start
<1> HIDE DEF box, new
<1> QED
  BY <1>1, <1>3, <1>4, SetOutboxShapes, SpawnsTyped

\* inject_delivery_at.
LEMMA InjectShapes ==
    ASSUME Shaped, NEW item \in Singles, Inject(item), unread' = unread
    PROVE  OutboxShaped' /\ BagTyped' /\ LockTypeOK' /\ phase' \in {"pending", "live", "gone"}
<1>1. OutboxShaped /\ BagTyped /\ LockTypeOK /\ phase \in {"pending", "live", "gone"}
  BY DEF Shaped, OthersTyped
<1>2. CASE DeliveryPending /\ SetOutbox(Enqueue(outbox, item)) /\ UNCHANGED <<lock, session, phase, tasks>>
  <2>1. Enqueue(outbox, item) \in OutboxType /\ Enqueue(outbox, item).open
    BY <1>1, <1>2, Enqueued DEF OutboxShaped, DeliveryPending
  <2>2. OutboxShaped'
    BY <1>1, <1>2, <2>1, SetOutboxShapes
  <2> QED
    BY <1>1, <1>2, <2>2, SameThreads, LockSteps DEF lvars
<1>3. ASSUME NEW blocked \in BOOLEAN, Park(item, blocked), UNCHANGED <<lock, session, tasks>>, phase' \in {phase, "gone"}
      PROVE  OutboxShaped' /\ BagTyped' /\ LockTypeOK' /\ phase' \in {"pending", "live", "gone"}
  BY <1>1, <1>3, ParkShapes, SameThreads, LockSteps DEF lvars
<1>4. CASE LockReserve /\ Start(item, "dispatch") /\ UNCHANGED phase
  BY <1>1, <1>4, StartShapes, LockSteps
<1>5. CASE Park(item, FALSE) /\ Spawns({[at |-> "dispatch-recent"]}) /\ UNCHANGED <<lock, session, phase>>
  <2>1. {[at |-> "dispatch-recent"]} \in SUBSET ThreadType
    BY NewTasks
  <2>2. BagTyped'
    BY <1>1, <1>5, <2>1, SpawnsTyped
  <2> QED
    BY <1>1, <1>5, <2>2, ParkShapes, LockSteps DEF lvars
<1> QED
  BY <1>1, <1>2, <1>3, <1>4, <1>5 DEF Inject

\* A handler's delivery.
LEMMA DeliverShapes ==
    ASSUME Shaped, NEW kind \in Kinds, Deliver(kind)
    PROVE  Shaped'
<1> DEFINE item == [kind |-> kind, ids |-> {sent + 1}]
<1>1. sent \in 0 .. MaxDeliveries /\ sent < MaxDeliveries /\ sent' = sent + 1
  BY DEF Shaped, OthersTyped, Deliver
<1>2. sent + 1 \in 1 .. MaxDeliveries
  BY <1>1, OutboxAssumption
<1>3. item \in Singles
  BY <1>2 DEF Singles, Item, Kinds
<1> HIDE DEF item
<1>4. Inject(item) /\ unread' = unread /\ UNCHANGED <<idle, backoff, inputs, reports, hist>>
  BY DEF Deliver, item
<1>5. OutboxShaped' /\ BagTyped' /\ LockTypeOK' /\ phase' \in {"pending", "live", "gone"}
  BY <1>3, <1>4, InjectShapes
<1> QED
  BY <1>1, <1>2, <1>4, <1>5, OutboxAssumption DEF Shaped, OthersTyped, hist

\* A reconciliation nudge.
LEMMA ReconcileShapes == ASSUME Shaped, Reconcile PROVE Shaped'
<1> DEFINE item == [kind |-> "nudge", ids |-> {}]
<1>1. item \in Singles
  BY DEF Singles, Item, Kinds
<1> HIDE DEF item
<1>2. OutboxShaped /\ BagTyped /\ LockTypeOK
  BY DEF Shaped, OthersTyped
<1>3. Start(item, "reconcile") /\ unread' = unread /\ LockReserve
  BY DEF Reconcile, item
<1>4. OutboxShaped' /\ BagTyped' /\ LockTypeOK'
  BY <1>1, <1>2, <1>3, StartShapes, LockSteps
<1>5. backoff' \in [on : BOOLEAN, nudges : 0 .. MaxRenudges]
  BY OutboxAssumption DEF Shaped, OthersTyped, Reconcile
<1> QED
  BY <1>4, <1>5 DEF Shaped, OthersTyped, Reconcile, hist

-----------------------------------------------------------------------------
(* The threads keep the shape.                                             *)

\* The composer stays.
LEMMA SameLock == ASSUME LockTypeOK, UNCHANGED <<lock, session>> PROVE LockTypeOK'
  BY LockSteps DEF lvars

\* A running thread is of the type of threads.
LEMMA ReadTask ==
    ASSUME BagTyped, NEW task \in Running
    PROVE  task \in Task /\ (task.at = "body" => task.item \in Singles)
  BY DEF BagTyped, ThreadType

\* The error of start_reserved_delivery warns of deliveries only.
LEMMA FailedTyped ==
    ASSUME OthersTyped, NEW task, task.item \in Item, Failed(task)
    PROVE  /\ backoff' \in [on : BOOLEAN, nudges : 0 .. MaxRenudges]
           /\ warned' \subseteq 1 .. MaxDeliveries
  BY DEF OthersTyped, Failed, Item

\* What a body adds to the history: the one delivery of a relay, nothing for a nudge.
LEMMA RelaysAre ==
    ASSUME NEW item \in Singles
    PROVE  \/ item.kind = "nudge" /\ Relays(item) = <<>>
           \/ item.kind = "relay" /\ \E d \in 1 .. MaxDeliveries : item.ids = {d} /\ Relays(item) = <<d>>
<1>1. CASE item.kind = "relay"
  <2>1. PICK d \in 1 .. MaxDeliveries : item.ids = {d}
    BY <1>1 DEF Singles
  <2>2. (CHOOSE e \in {d} : TRUE) = d
    OBVIOUS
  <2>3. Relays(item) = <<d>>
    BY <1>1, <2>1, <2>2, Zenon DEF Relays
  <2> QED
    BY <1>1, <2>1, <2>3
<1>2. CASE item.kind # "relay"
  BY <1>2 DEF Relays, Singles, Item, Kinds
<1> QED
  BY <1>1, <1>2

\* inject_reserved of the body.
LEMMA WriteBodyShapes == ASSUME Shaped, NEW task \in Running, WriteBody(task) PROVE Shaped'
<1> DEFINE enter == [at |-> "enter", item |-> task.item, token |-> task.token]
           finish == [at |-> "finish", token |-> task.token]
           cancel == [task EXCEPT !.at = "cancel"]
<1>1. BagTyped /\ OutboxShaped /\ OthersTyped /\ LockTypeOK
  BY DEF Shaped, OthersTyped
<1>2. task \in Task /\ task.at = "body" /\ task.item \in Singles /\ task.item \in Item /\ task.token \in Nat
  BY <1>1, ReadTask, TaskFields DEF WriteBody, HasToken, Singles
<1>3. enter \in ThreadType /\ finish \in ThreadType /\ cancel \in ThreadType
  <2>1. cancel \in Task /\ cancel.at = "cancel"
    BY <1>2, TaskFields DEF Task
  <2> QED
    BY <1>2, <2>1, NewTasks DEF ThreadType
<1>4. BagTyped'
  <2>1. {enter} \cup AfterTail(task.tail) \in SUBSET ThreadType /\ {cancel} \in SUBSET ThreadType
        /\ {finish} \cup AfterTail(task.tail) \in SUBSET ThreadType
    BY <1>3, TailTyped
  <2>2. \E next \in SUBSET ThreadType : Becomes(task, next)
    BY <2>1, Zenon DEF WriteBody
  <2> QED
    BY <1>1, <2>2, BecomesTyped
<1> HIDE DEF enter, finish, cancel
<1>5. OutboxShaped' /\ LockTypeOK'
  BY <1>1, SameOutbox, SameLock DEF WriteBody
<1>6. written' \in Seq(1 .. MaxDeliveries)
  <2>1. written \in Seq(1 .. MaxDeliveries)
    BY <1>1 DEF OthersTyped
  <2>2. CASE written' = written
    BY <2>1, <2>2
  <2>3. CASE written' = written \o Relays(task.item)
    <3>1. CASE Relays(task.item) = <<>>
      BY <2>1, <2>3, <3>1
    <3>2. ASSUME NEW d \in 1 .. MaxDeliveries, Relays(task.item) = <<d>>
          PROVE  written' \in Seq(1 .. MaxDeliveries)
      <4>1. <<d>> \in Seq(1 .. MaxDeliveries)
        OBVIOUS
      <4> QED
        BY <2>1, <2>3, <3>2, <4>1
    <3> QED
      BY <1>2, <3>1, <3>2, RelaysAre
  <2> QED
    BY <2>2, <2>3 DEF WriteBody
<1>7. /\ idle' \in BOOLEAN /\ backoff' \in [on : BOOLEAN, nudges : 0 .. MaxRenudges]
      /\ warned' \subseteq 1 .. MaxDeliveries
  BY <1>1, <1>2, FailedTyped DEF WriteBody, OthersTyped
<1>8. UNCHANGED <<phase, sent, inputs, reports, submitted>>
  BY DEF WriteBody
<1> QED
  BY <1>1, <1>4, <1>5, <1>6, <1>7, <1>8 DEF Shaped, OthersTyped

\* cancel_started_delivery.
LEMMA CancelShapes == ASSUME Shaped, NEW task \in Running, CancelStarted(task) PROVE Shaped'
<1> DEFINE finish == [at |-> "finish", token |-> task.token]
           box == IF outbox.q = <<>> THEN NoOutbox ELSE [outbox EXCEPT !.submit = FALSE]
<1>1. BagTyped /\ OutboxShaped /\ OthersTyped /\ LockTypeOK
  BY DEF Shaped, OthersTyped
<1>2. task \in Task /\ task.at = "cancel" /\ task.item \in Item /\ task.token \in Nat
  BY <1>1, ReadTask, TaskFields DEF CancelStarted, HasToken
<1>3. BagTyped'
  <2>1. {finish} \cup AfterTail(task.tail) \in SUBSET ThreadType
    BY <1>2, NewTasks, TailTyped
  <2> QED
    BY <1>1, <2>1, BecomesTyped DEF CancelStarted
<1>4. OutboxShaped'
  <2>1. CASE outbox.open
    <3>1. box \in OutboxType /\ (~box.open => box.q = <<>>)
      BY <1>1, <2>1, NoOutboxTyped DEF OutboxShaped, OutboxType
    <3>2. SetOutbox(box) /\ unread' = unread
      BY <2>1, Zenon DEF CancelStarted
    <3> HIDE DEF box
    <3> QED
      BY <1>1, <3>1, <3>2, SetOutboxShapes
  <2>2. CASE ~outbox.open
    BY <1>1, <2>2, SameOutbox DEF CancelStarted
  <2> QED
    BY <2>1, <2>2
<1>5. /\ backoff' \in [on : BOOLEAN, nudges : 0 .. MaxRenudges]
      /\ warned' \subseteq 1 .. MaxDeliveries
  BY <1>1, <1>2, FailedTyped DEF CancelStarted
<1>6. LockTypeOK' /\ UNCHANGED <<phase, idle, sent, inputs, reports, written, submitted>>
  BY <1>1, SameLock DEF CancelStarted
<1> QED
  BY <1>1, <1>3, <1>4, <1>5, <1>6 DEF Shaped, OthersTyped

\* A thread's step that keeps the outbox in shape and the counters as they are.
LEMMA SimpleShapes ==
    ASSUME Shaped, NEW task \in Running, NEW next \in SUBSET ThreadType, Becomes(task, next),
           OutboxShaped', LockTypeOK', phase' \in {"pending", "live", "gone"},
           UNCHANGED <<idle, backoff, sent, inputs, reports, hist>>
    PROVE  Shaped'
  BY BecomesTyped, SameOthers DEF Shaped

\* The Enter.
LEMMA WriteEnterShapes == ASSUME Shaped, NEW task \in Running, WriteEnter(task) PROVE Shaped'
<1> DEFINE finish == [at |-> "finish", token |-> task.token]
<1>1. BagTyped /\ OutboxShaped /\ OthersTyped /\ LockTypeOK
  BY DEF Shaped, OthersTyped
<1>2. task \in Task /\ task.item \in Item /\ task.token \in Nat
  BY <1>1, ReadTask, TaskFields DEF WriteEnter, HasToken
<1>3. {finish} \in SUBSET ThreadType
  BY <1>2, NewTasks
<1>4. BagTyped'
  BY <1>1, <1>3, BecomesTyped DEF WriteEnter
<1>5. submitted' \subseteq 1 .. MaxDeliveries
  BY <1>1, <1>2 DEF WriteEnter, OthersTyped, Item
<1>6. OutboxShaped' /\ LockTypeOK'
      /\ UNCHANGED <<phase, idle, backoff, sent, inputs, reports, written, warned>>
  BY <1>1, SameOutbox, SameLock DEF WriteEnter
<1> QED
  BY <1>1, <1>4, <1>5, <1>6 DEF Shaped, OthersTyped

\* finish_delivery.
LEMMA FinishShapes == ASSUME Shaped, NEW task \in Running, Finish(task) PROVE Shaped'
<1>1. BagTyped /\ OutboxShaped /\ OthersTyped /\ LockTypeOK
  BY DEF Shaped, OthersTyped
<1>2. \E next \in SUBSET ThreadType : Becomes(task, next)
  <2>1. {[at |-> "notify", event |-> "finished"]} \in SUBSET ThreadType /\ {} \in SUBSET ThreadType
    BY NewTasks DEF Events
  <2> QED
    BY <2>1, Zenon DEF Finish
<1>3. OutboxShaped' /\ LockTypeOK' /\ UNCHANGED <<phase, idle, backoff, sent, inputs, reports, hist>>
  BY <1>1, SameOutbox, LockSteps DEF Finish
<1> QED
  BY <1>1, <1>2, <1>3, SimpleShapes DEF OthersTyped

\* The look of flush_outbox.
LEMMA CheckShapes == ASSUME Shaped, NEW task \in Running, Check(task) PROVE Shaped'
<1>1. BagTyped /\ OutboxShaped /\ OthersTyped /\ LockTypeOK
  BY DEF Shaped, OthersTyped
<1>2. task \in Task /\ task.tail \in Tails
  BY <1>1, ReadTask, TaskFields DEF Check
<1>3. \E next \in SUBSET ThreadType : Becomes(task, next)
  <2>1. {[at |-> "reserve", tail |-> task.tail]} \in SUBSET ThreadType /\ AfterTail(task.tail) \in SUBSET ThreadType
    BY <1>2, NewTasks, TailTyped
  <2> QED
    BY <2>1, Zenon DEF Check
<1>4. OutboxShaped' /\ LockTypeOK' /\ UNCHANGED <<phase, idle, backoff, sent, inputs, reports, hist>>
  BY <1>1, SameOutbox, SameLock DEF Check
<1> QED
  BY <1>1, <1>3, <1>4, SimpleShapes DEF OthersTyped

\* Its reservation.
LEMMA ReserveShapes == ASSUME Shaped, NEW task \in Running, ReserveForFlush(task) PROVE Shaped'
<1>1. BagTyped /\ OutboxShaped /\ OthersTyped /\ LockTypeOK
  BY DEF Shaped, OthersTyped
<1>2. task \in Task /\ task.tail \in Tails /\ lock.epoch \in Nat
  BY <1>1, ReadTask, TaskFields DEF ReserveForFlush, LockTypeOK
<1>3. \E next \in SUBSET ThreadType : Becomes(task, next)
  <2>1. {[at |-> "granted", token |-> lock.epoch, tail |-> task.tail]} \in SUBSET ThreadType
    BY <1>2, NewTasks
  <2>2. Reservation # "ready" =>
          {[at |-> "refused", answer |-> Reservation, tail |-> task.tail]} \in SUBSET ThreadType
    BY <1>2, NewTasks, AnswerTyped
  <2> QED
    BY <2>1, <2>2, Zenon DEF ReserveForFlush
<1>4. OutboxShaped' /\ LockTypeOK' /\ UNCHANGED <<phase, idle, backoff, sent, inputs, reports, hist>>
  BY <1>1, SameOutbox, LockSteps DEF ReserveForFlush, lvars
<1> QED
  BY <1>1, <1>3, <1>4, SimpleShapes DEF OthersTyped

\* A granted flush.
LEMMA GrantedShapes == ASSUME Shaped, NEW task \in Running, Granted(task) PROVE Shaped'
<1> DEFINE body == [at |-> "body", item |-> Head(outbox.q), token |-> task.token,
                    caller |-> "flush", tail |-> task.tail]
           box == [outbox EXCEPT !.q = Tail(@), !.submit = TRUE, !.blocked = FALSE]
           next == IF lock.held /\ lock.epoch = task.token THEN {[at |-> "jammed"]} ELSE AfterTail(task.tail)
<1>1. BagTyped /\ OutboxShaped /\ OthersTyped /\ LockTypeOK
  BY DEF Shaped, OthersTyped
<1>2. task \in Task /\ task.tail \in Tails /\ task.token \in Nat
  BY <1>1, ReadTask, TaskFields DEF Granted, HasToken
<1>3. UNCHANGED <<phase, unread, idle, backoff, sent, inputs, reports, hist>>
  BY DEF Granted
<1>4. CASE outbox.open /\ outbox.q # <<>>
  <2>1. outbox.q \in Seq(Singles)
    BY <1>1 DEF OutboxShaped, OutboxType
  <2>2. Head(outbox.q) \in Singles /\ Tail(outbox.q) \in Seq(Singles)
    BY <1>4, <2>1
  <2>3. box \in OutboxType /\ box.open
    BY <1>1, <1>4, <2>2 DEF OutboxShaped, OutboxType
  <2>4. {body} \in SUBSET ThreadType
    BY <1>2, <2>2, NewTasks
  <2>5. SetOutbox(box) /\ Becomes(task, {body}) /\ UNCHANGED <<lock, session>>
    BY <1>4, Zenon DEF Granted
  <2> HIDE DEF box, body
  <2>6. OutboxShaped'
    BY <1>1, <1>3, <2>3, <2>5, SetOutboxShapes
  <2> QED
    BY <1>1, <1>3, <2>4, <2>5, <2>6, SimpleShapes, SameLock DEF OthersTyped
<1>5. CASE ~(outbox.open /\ outbox.q # <<>>)
  <2>1. next \in SUBSET ThreadType
    BY <1>2, NewTasks, TailTyped
  <2>2. Becomes(task, next) /\ LockRelease(task.token) /\ UNCHANGED <<outbox, pill>>
    BY <1>5, Zenon DEF Granted, GrantedNothing
  <2> HIDE DEF next
  <2>3. LockTypeOK'
    BY <1>1, <2>2, LockSteps
  <2> QED
    BY <1>1, <1>3, <2>1, <2>2, <2>3, SimpleShapes, SameOutbox DEF OthersTyped
<1> QED
  BY <1>4, <1>5

\* A refused flush.
LEMMA RefusedShapes == ASSUME Shaped, NEW task \in Running, Refused(task) PROVE Shaped'
<1> DEFINE box == [outbox EXCEPT !.blocked = (task.answer = "pending_input")]
<1>1. BagTyped /\ OutboxShaped /\ OthersTyped /\ LockTypeOK
  BY DEF Shaped, OthersTyped
<1>2. task \in Task /\ task.tail \in Tails
  BY <1>1, ReadTask, TaskFields DEF Refused
<1>3. UNCHANGED <<lock, session, unread, idle, backoff, sent, inputs, reports, hist>>
      /\ phase' \in {"pending", "live", "gone"}
  BY <1>1 DEF Refused, OthersTyped
<1>4. \E next \in SUBSET ThreadType : Becomes(task, next)
  <2>1. {[at |-> "recent", tail |-> task.tail]} \in SUBSET ThreadType /\ AfterTail(task.tail) \in SUBSET ThreadType
    BY <1>2, NewTasks, TailTyped
  <2> QED
    BY <2>1, Zenon DEF Refused
<1>5. OutboxShaped'
  <2>1. CASE outbox.open
    <3>1. box \in OutboxType /\ box.open
      BY <1>1, <2>1 DEF OutboxShaped, OutboxType
    <3>2. SetOutbox(box) /\ unread' = unread
      BY <2>1, <1>3, Zenon DEF Refused
    <3> HIDE DEF box
    <3> QED
      BY <1>1, <3>1, <3>2, SetOutboxShapes
  <2>2. CASE ~outbox.open
    <3>1. SetOutbox(outbox) \/ UNCHANGED <<outbox, pill>>
      BY <2>2 DEF Refused
    <3>2. outbox \in OutboxType /\ outbox.q = <<>>
      BY <1>1, <2>2 DEF OutboxShaped
    <3> QED
      BY <1>1, <1>3, <3>1, <3>2, SetOutboxShapes, SameOutbox
  <2> QED
    BY <2>1, <2>2
<1> QED
  BY <1>1, <1>3, <1>4, <1>5, SimpleShapes, SameLock DEF OthersTyped

\* The timers and notifications change neither the queue nor what holds it back.
LEMMA TimerShapes ==
    ASSUME Shaped, NEW task \in Running,
           ScheduleRetry(task) \/ RetryWakes(task) \/ FlushWakes(task) \/ CooldownEnds(task)
           \/ InputCleared(task) \/ InputQueueDrained(task) \/ DeliveryFinished(task)
    PROVE  Shaped'
<1>1. BagTyped /\ OutboxShaped /\ OthersTyped /\ LockTypeOK /\ outbox \in OutboxType
  BY DEF Shaped, OthersTyped, OutboxShaped
<1>2. task \in Task /\ (task.at = "recent" => task.tail \in Tails)
  BY <1>1, ReadTask, TaskFields
<1>3. UNCHANGED <<lock, session, phase, unread, pill, idle, backoff, sent, inputs, reports, hist>>
  BY DEF ScheduleRetry, RetryWakes, FlushWakes, CooldownEnds, InputCleared, InputQueueDrained,
         DeliveryFinished
<1>4. outbox.gen + 1 \in Nat
  BY <1>1 DEF OutboxType
<1>5. \E next \in SUBSET ThreadType : Becomes(task, next)
  <2>1. AfterTail(task.tail) \in SUBSET ThreadType /\ {} \in SUBSET ThreadType
        /\ {[at |-> "retry", gen |-> outbox.gen + 1, touched |-> FALSE]} \in SUBSET ThreadType
        /\ {[at |-> "check", tail |-> "none"]} \in SUBSET ThreadType
        /\ {[at |-> "check", tail |-> "prune"]} \in SUBSET ThreadType
        /\ {[at |-> "flush", gen |-> outbox.gen + 1]} \in SUBSET ThreadType
        /\ {[at |-> "cooldown", gen |-> outbox.gen + 1]} \in SUBSET ThreadType
    BY <1>2, <1>4, NewTasks, TailTyped DEF Tails
  <2>2. CASE ScheduleRetry(task)
    <3> DEFINE then == IF task.at = "recent" THEN AfterTail(task.tail) ELSE {}
               retry == {[at |-> "retry", gen |-> outbox.gen + 1, touched |-> FALSE]}
    <3>1. then \in SUBSET ThreadType /\ retry \in SUBSET ThreadType /\ retry \cup then \in SUBSET ThreadType
      BY <2>1
    <3>2. Becomes(task, retry \cup then) \/ Becomes(task, then)
      BY <2>2, Zenon DEF ScheduleRetry
    <3> QED
      BY <3>1, <3>2, Zenon
  <2>3. CASE RetryWakes(task)
    BY <2>1, <2>3, Zenon DEF RetryWakes
  <2>4. CASE FlushWakes(task)
    BY <2>1, <2>4, Zenon DEF FlushWakes
  <2>5. CASE CooldownEnds(task)
    BY <2>1, <2>5, Zenon DEF CooldownEnds
  <2>6. CASE InputCleared(task)
    BY <2>1, <2>6, Zenon DEF InputCleared
  <2>7. CASE InputQueueDrained(task)
    BY <2>1, <2>7, Zenon DEF InputQueueDrained
  <2>8. CASE DeliveryFinished(task)
    BY <2>1, <2>8, Zenon DEF DeliveryFinished
  <2> QED
    BY <2>2, <2>3, <2>4, <2>5, <2>6, <2>7, <2>8
<1>6. /\ outbox' \in OutboxType /\ outbox'.q = outbox.q /\ outbox'.blocked = outbox.blocked
      /\ outbox'.open = outbox.open
  <2>1. CASE ScheduleRetry(task)
    BY <1>1, <1>4, <2>1 DEF ScheduleRetry, OutboxType
  <2>2. CASE RetryWakes(task) \/ CooldownEnds(task)
    BY <1>1, <2>2 DEF RetryWakes, CooldownEnds, OutboxType
  <2>3. CASE FlushWakes(task) \/ InputQueueDrained(task)
    BY <1>1, <2>3 DEF FlushWakes, InputQueueDrained
  <2>4. CASE InputCleared(task) \/ DeliveryFinished(task)
    BY <1>1, <1>4, <2>4 DEF InputCleared, DeliveryFinished, OutboxType
  <2> QED
    BY <2>1, <2>2, <2>3, <2>4
<1>7. OutboxShaped'
  BY <1>1, <1>3, <1>6, SameQueueShapes
<1> QED
  BY <1>1, <1>3, <1>5, <1>7, SimpleShapes, SameLock DEF OthersTyped

\* The last step of a cool-down.
LEMMA PruneShapes == ASSUME Shaped, NEW task \in Running, Prune(task) PROVE Shaped'
<1>1. BagTyped /\ OutboxShaped /\ OthersTyped /\ LockTypeOK
  BY DEF Shaped, OthersTyped
<1>2. Becomes(task, {}) /\ UNCHANGED <<lock, session, phase, unread, pill, idle, backoff, sent, inputs, reports, hist>>
  BY DEF Prune
<1>3. OutboxShaped'
  <2>1. CASE outbox' = outbox
    BY <1>1, <1>2, <2>1, SameOutbox
  <2>2. CASE outbox' = NoOutbox /\ outbox.q = <<>>
    <3>1. outbox' \in OutboxType /\ ~outbox'.open /\ outbox'.q = <<>>
      BY <2>2, NoOutboxTyped
    <3>2. pill = 0
      BY <1>1, <2>2 DEF OutboxShaped, PillIsCurrent, PillOf
    <3> QED
      BY <1>1, <1>2, <3>1, <3>2 DEF OutboxShaped, PillIsCurrent, PillOf
  <2> QED
    BY <2>1, <2>2 DEF Prune
<1>4. {} \in SUBSET ThreadType
  OBVIOUS
<1> QED
  BY <1>1, <1>2, <1>3, <1>4, SimpleShapes, SameLock DEF OthersTyped

\* The notification that a child came.
LEMMA RespawnedShapes == ASSUME Shaped, NEW task \in Running, Respawned(task) PROVE Shaped'
<1>1. BagTyped /\ OutboxShaped /\ OthersTyped /\ LockTypeOK /\ outbox \in OutboxType
  BY DEF Shaped, OthersTyped, OutboxShaped
<1>2. phase' = "live" /\ UNCHANGED <<lock, session, unread, pill, idle, backoff, sent, inputs, reports, hist>>
      /\ Becomes(task, {[at |-> "check", tail |-> "none"]})
  BY DEF Respawned
<1>3. {[at |-> "check", tail |-> "none"]} \in SUBSET ThreadType
  BY NewTasks DEF Tails
<1>4. /\ outbox' \in OutboxType /\ outbox'.q = outbox.q /\ outbox'.blocked = outbox.blocked
      /\ outbox'.open = outbox.open
  <2>1. CASE outbox.open
    <3>1. outbox' = [outbox EXCEPT !.submit = FALSE, !.retry = FALSE, !.gen = @ + 1]
      BY <2>1, Zenon DEF Respawned
    <3>2. outbox.gen + 1 \in Nat
      BY <1>1 DEF OutboxType
    <3> QED
      BY <1>1, <3>1, <3>2 DEF OutboxType
  <2>2. CASE ~outbox.open
    BY <1>1, <2>2 DEF Respawned
  <2> QED
    BY <2>1, <2>2
<1>5. OutboxShaped'
  BY <1>1, <1>2, <1>4, SameQueueShapes
<1> QED
  BY <1>1, <1>2, <1>3, <1>5, SimpleShapes, SameLock

\* The notification that a child went.
LEMMA ExitedShapes == ASSUME Shaped, NEW task \in Running, Exited(task) PROVE Shaped'
<1>1. BagTyped /\ OutboxShaped /\ OthersTyped /\ LockTypeOK /\ outbox \in OutboxType
  BY DEF Shaped, OthersTyped, OutboxShaped
<1>2. phase' = "gone" /\ UNCHANGED <<lock, session, unread, idle, backoff, sent, inputs, reports, written, submitted>>
      /\ Becomes(task, {}) /\ SetOutbox(NoOutbox)
  BY DEF Exited
<1>3. OutboxShaped' /\ BagTyped' /\ LockTypeOK'
  BY <1>1, <1>2, SetOutboxShapes, NoOutboxTyped, BecomesTyped, SameLock
<1>4. warned' \subseteq 1 .. MaxDeliveries
  <2>1. \A i \in DOMAIN outbox.q : outbox.q[i].ids \subseteq 1 .. MaxDeliveries
    BY <1>1 DEF OutboxType, Singles, Item
  <2> QED
    BY <1>1, <2>1 DEF Exited, OthersTyped, Queued
<1> QED
  BY <1>1, <1>2, <1>3, <1>4 DEF Shaped, OthersTyped

-----------------------------------------------------------------------------
(* The session manager and the counters keep the shape.                    *)

\* The session manager's side.
LEMMA ManagerShapes ==
    ASSUME Shaped,
           \/ HumanStep \/ InputIsServed \/ TimePasses
           \/ \E present \in BOOLEAN : ChildChanges(present)
    PROVE  Shaped'
<1>1. BagTyped /\ OutboxShaped /\ OthersTyped /\ LockTypeOK
  BY DEF Shaped, OthersTyped
<1>2. \A event \in Events : {[at |-> "notify", event |-> event]} \in SUBSET ThreadType
  BY NewTasks
<1>3. ASSUME NEW class \in InputClasses, NEW ok \in BOOLEAN, HumanTypes(class, ok) PROVE Shaped'
  <2>1. BagTyped'
    <3>1. PICK event \in Events : NotifiesInput(event)
      BY <1>3 DEF HumanTypes, Events
    <3> QED
      BY <1>1, <3>1, NotifiesTyped
  <2>2. OutboxShaped' /\ LockTypeOK'
    BY <1>1, <1>3, SameOutbox, LockSteps DEF HumanTypes
  <2>3. inputs' \in 0 .. MaxInputs
    BY <1>1, <1>3, OutboxAssumption DEF HumanTypes, OthersTyped
  <2> QED
    BY <1>1, <1>3, <2>1, <2>2, <2>3 DEF Shaped, OthersTyped, HumanTypes, hist
<1>4. CASE HumanWaits
  <2>1. OutboxShaped' /\ LockTypeOK' /\ BagTyped'
    BY <1>1, <1>4, SameOutbox, LockSteps, SameThreads DEF HumanWaits, rvars
  <2>2. inputs' \in 0 .. MaxInputs
    BY <1>1, <1>4, OutboxAssumption DEF HumanWaits, OthersTyped
  <2> QED
    BY <1>1, <1>4, <2>1, <2>2 DEF Shaped, OthersTyped, HumanWaits, hist, rvars
<1>5. CASE HumanGivesUp \/ TimePasses
  <2>1. OutboxShaped' /\ LockTypeOK' /\ BagTyped'
    BY <1>1, <1>5, SameOutbox, LockSteps, SameThreads DEF HumanGivesUp, TimePasses, rvars
  <2> QED
    BY <1>1, <1>5, <2>1 DEF Shaped, OthersTyped, HumanGivesUp, TimePasses, hist, rvars
<1>6. ASSUME NEW state \in InputStates, NEW fresh \in BOOLEAN, TerminalReports(state, fresh) PROVE Shaped'
  <2>1. BagTyped'
    <3>1. \/ Spawns({[at |-> "notify", event |-> "cleared"]})
          \/ tasks' = Touched \/ UNCHANGED tasks
      BY <1>6, Zenon DEF TerminalReports
    <3>2. {[at |-> "notify", event |-> "cleared"]} \in SUBSET ThreadType
      BY <1>2 DEF Events
    <3> QED
      BY <1>1, <3>1, <3>2, SpawnsTyped, TouchedTyped, SameThreads
  <2>2. OutboxShaped' /\ LockTypeOK'
    BY <1>1, <1>6, SameOutbox, LockSteps DEF TerminalReports
  <2>3. reports' \in 0 .. MaxReports
    BY <1>1, <1>6, OutboxAssumption DEF TerminalReports, OthersTyped
  <2> QED
    BY <1>1, <1>6, <2>1, <2>2, <2>3 DEF Shaped, OthersTyped, TerminalReports, hist
<1>7. ASSUME NEW class \in InputClasses, NEW ok \in BOOLEAN, HumanServed(class, ok) PROVE Shaped'
  <2>1. BagTyped'
    <3>1. tasks' = Touched \/ \E event \in Events : NotifiesInput(event)
      BY <1>7 DEF HumanServed, Events
    <3> QED
      BY <1>1, <3>1, NotifiesTyped, TouchedTyped
  <2>2. OutboxShaped' /\ LockTypeOK'
    BY <1>1, <1>7, SameOutbox, LockSteps DEF HumanServed
  <2> QED
    BY <1>1, <1>7, <2>1, <2>2 DEF Shaped, OthersTyped, HumanServed, hist
<1>8. ASSUME NEW present \in BOOLEAN, ChildChanges(present) PROVE Shaped'
  <2>1. BagTyped'
    <3>1. PICK event \in Events : Spawns({[at |-> "notify", event |-> event]})
      BY <1>8 DEF ChildChanges, Events
    <3> QED
      BY <1>1, <1>2, <3>1, SpawnsTyped
  <2>2. OutboxShaped' /\ LockTypeOK'
    BY <1>1, <1>8, SameOutbox, LockSteps DEF ChildChanges
  <2> QED
    BY <1>1, <1>8, <2>1, <2>2 DEF Shaped, OthersTyped, ChildChanges, hist
<1> QED
  BY <1>3, <1>4, <1>5, <1>6, <1>7, <1>8 DEF HumanStep, InputIsServed

\* The unread count, the status and the backoff.
LEMMA CountShapes ==
    ASSUME Shaped,
           \/ BackoffEnds \/ \E count \in 0 .. MaxUnread : UpdateInbox(count)
           \/ \E toIdle \in BOOLEAN : SetStatus(toIdle)
           \/ UNCHANGED vars
    PROVE  Shaped'
<1>1. BagTyped /\ OutboxShaped /\ OthersTyped /\ LockTypeOK
  BY DEF Shaped, OthersTyped
<1>2. ASSUME UNCHANGED <<lock, session, tasks>> PROVE LockTypeOK' /\ BagTyped'
  BY <1>1, <1>2, SameThreads, SameLock
<1>3. CASE BackoffEnds
  BY <1>1, <1>2, <1>3, SameOutbox DEF BackoffEnds, Shaped, OthersTyped, hist
<1>4. ASSUME NEW count \in 0 .. MaxUnread, UpdateInbox(count) PROVE Shaped'
  <2>1. OutboxShaped'
    BY <1>1, <1>4 DEF UpdateInbox, OutboxShaped, PillIsCurrent
  <2> QED
    BY <1>1, <1>2, <1>4, <2>1 DEF UpdateInbox, Shaped, OthersTyped, hist
<1>5. ASSUME NEW toIdle \in BOOLEAN, SetStatus(toIdle) PROVE Shaped'
  BY <1>1, <1>2, <1>5, SameOutbox DEF SetStatus, Shaped, OthersTyped, hist
<1>6. CASE UNCHANGED vars
  BY <1>1, <1>2, <1>6, SameOutbox DEF vars, rvars, Shaped, OthersTyped, hist
<1> QED
  BY <1>3, <1>4, <1>5, <1>6

\* Every step keeps the shape.
LEMMA ShapedStep == Shaped /\ [Next]_vars => Shaped'
<1> SUFFICES ASSUME Shaped, [Next]_vars PROVE Shaped'
  OBVIOUS
<1>1. ASSUME NEW task \in Running, ThreadStep(task) PROVE Shaped'
  BY <1>1, WriteBodyShapes, CancelShapes, WriteEnterShapes, FinishShapes, CheckShapes, ReserveShapes,
     GrantedShapes, RefusedShapes, TimerShapes, PruneShapes, RespawnedShapes, ExitedShapes
  DEF ThreadStep
<1>2. CASE \E kind \in Kinds : Deliver(kind)
  BY <1>2, DeliverShapes
<1>3. CASE Reconcile
  BY <1>3, ReconcileShapes
<1>4. CASE \/ BackoffEnds \/ \E count \in 0 .. MaxUnread : UpdateInbox(count)
           \/ \E toIdle \in BOOLEAN : SetStatus(toIdle)
           \/ UNCHANGED vars
  BY <1>4, CountShapes
<1>5. CASE HumanStep \/ InputIsServed \/ TimePasses \/ \E present \in BOOLEAN : ChildChanges(present)
  BY <1>5, ManagerShapes
<1> QED
  BY <1>1, <1>2, <1>3, <1>4, <1>5 DEF Next, Threads

\* The shape holds at the start.
LEMMA ShapedInit == Init => Shaped
<1> SUFFICES ASSUME Init PROVE Shaped
  OBVIOUS
<1>1. IsABag(tasks) /\ Running = {}
  BY DEF Init, EmptyBag, SetToBag, IsABag, Running, BagToSet
<1>2. OutboxShaped
  BY NoOutboxTyped, OutboxAssumption DEF Init, OutboxShaped, PillIsCurrent, PillOf
<1>3. LockTypeOK
  BY DEF Init, LockTypeOK, Blank
<1>4. backoff \in [on : BOOLEAN, nudges : 0 .. MaxRenudges]
  BY OutboxAssumption DEF Init
<1>5. written \in Seq(1 .. MaxDeliveries) /\ phase \in {"pending", "live", "gone"}
  BY DEF Init
<1>6. sent \in 0 .. MaxDeliveries /\ inputs \in 0 .. MaxInputs /\ reports \in 0 .. MaxReports
      /\ submitted = {} /\ warned = {} /\ idle = FALSE
  BY OutboxAssumption DEF Init
<1> QED
  BY <1>1, <1>2, <1>3, <1>4, <1>5, <1>6 DEF Shaped, BagTyped, OthersTyped

-----------------------------------------------------------------------------
(* Steps that hand nothing on.                                             *)

\* Steps that hand nothing on: no thread gets a token, no delivery moves.
Quiet ==
    /\ UNCHANGED <<sent, written, submitted>>
    /\ outbox'.q \in {outbox.q, <<>>}
    /\ lock'.epoch = lock.epoch /\ lock'.held = lock.held
    /\ \A t \in Running' : HasToken(t) => t \in Running /\ tasks'[t] <= tasks[t]

\* The threads that carry a delivery hold a token.
LEMMA InFlightHolds == \A t \in InFlight : t \in Holders /\ t.at # "granted" /\ t.at # "finish"
  BY DEF InFlight, Holders, HasToken

\* A running thread has a positive number of copies.
LEMMA Counts ==
    ASSUME BagTyped
    PROVE  \A t \in Running : tasks[t] \in Nat /\ tasks[t] > 0
  BY DEF BagTyped, IsABag, Running, BagToSet

\* ... after a step, too.
LEMMA CountsNext ==
    ASSUME BagTyped'
    PROVE  \A t \in Running' : tasks'[t] \in Nat /\ tasks'[t] > 0
  BY DEF BagTyped, IsABag, Running, BagToSet

\* A quiet step keeps the invariant.
LEMMA QuietKeeps == ASSUME OutboxInv, Shaped', Quiet PROVE OutboxInv'
<1> DEFINE q == outbox.q
<1>1. /\ \A t \in Holders' : t \in Holders /\ tasks'[t] <= tasks[t]
      /\ \A t \in InFlight' : t \in InFlight /\ tasks'[t] <= tasks[t]
  BY DEF Quiet, Holders, InFlight, HasToken
<1>2. \A t \in Running' : tasks'[t] \in Nat /\ tasks'[t] > 0
  BY CountsNext DEF Shaped
<1>3. \A t \in Running : tasks[t] \in Nat /\ tasks[t] > 0
  BY Counts DEF OutboxInv, Shaped
<1>4. OneHolder'
  BY <1>1, <1>2, <1>3 DEF OutboxInv, OneHolder, Quiet, Holders
<1>5. Known'
  BY <1>1 DEF OutboxInv, Known, Quiet
<1>6. Once'
  <2>1. \A t \in InFlight' : t.item.ids # {} => tasks'[t] = 1
    BY <1>1, <1>2, <1>3 DEF OutboxInv, Once, InFlight
  <2> QED
    BY <1>1, <2>1 DEF OutboxInv, Once, Quiet
<1>7. Ordered'
  BY <1>1 DEF OutboxInv, Ordered, Quiet, Before, RelaysInOrder
<1> QED
  BY <1>4, <1>5, <1>6, <1>7 DEF OutboxInv

\* A thread that moves on to threads without a token is quiet.
LEMMA BecomesQuiet ==
    ASSUME BagTyped, NEW task \in Running, NEW next, Becomes(task, next), \A t \in next : ~HasToken(t)
    PROVE  \A t \in Running' : HasToken(t) => t \in Running /\ tasks'[t] <= tasks[t]
  BY BecomesBag DEF BagTyped

\* So is one that starts threads without a token.
LEMMA SpawnsQuiet ==
    ASSUME BagTyped, NEW next, Spawns(next), \A t \in next : ~HasToken(t)
    PROVE  \A t \in Running' : HasToken(t) => t \in Running /\ tasks'[t] <= tasks[t]
  BY SpawnsBag DEF BagTyped

\* So is a step of no thread.
LEMMA SameQuiet ==
    ASSUME BagTyped, UNCHANGED tasks
    PROVE  \A t \in Running' : HasToken(t) => t \in Running /\ tasks'[t] <= tasks[t]
  BY Counts DEF Running, BagToSet

\* Timers, notifications and the look of a flush are quiet.
LEMMA ThreadIsQuiet ==
    ASSUME Shaped, NEW task \in Running,
           \/ Check(task) \/ Refused(task) \/ ScheduleRetry(task) \/ RetryWakes(task)
           \/ FlushWakes(task) \/ CooldownEnds(task) \/ Prune(task) \/ InputCleared(task)
           \/ InputQueueDrained(task) \/ DeliveryFinished(task) \/ Respawned(task) \/ Exited(task)
    PROVE  Quiet
<1>1. BagTyped
  BY DEF Shaped
<1>2. UNCHANGED <<lock, sent, written, submitted>>
  BY DEF Check, Refused, ScheduleRetry, RetryWakes, FlushWakes, CooldownEnds, Prune, InputCleared,
         InputQueueDrained, DeliveryFinished, Respawned, Exited, hist
<1>3. \E next : Becomes(task, next) /\ \A t \in next : ~HasToken(t)
  <2>1. \A t : \A u \in AfterTail(t) : ~HasToken(u)
    BY TailTyped
  <2>2. /\ \A g : ~HasToken([at |-> "retry", gen |-> g, touched |-> FALSE])
        /\ \A g : ~HasToken([at |-> "flush", gen |-> g]) /\ ~HasToken([at |-> "cooldown", gen |-> g])
        /\ \A t : ~HasToken([at |-> "check", tail |-> t]) /\ ~HasToken([at |-> "reserve", tail |-> t])
                  /\ ~HasToken([at |-> "recent", tail |-> t])
    BY DEF HasToken
  <2>3. CASE Check(task)
    <3> DEFINE next == IF outbox.open /\ ~outbox.submit /\ outbox.q # <<>>
                       THEN {[at |-> "reserve", tail |-> task.tail]} ELSE AfterTail(task.tail)
    <3>1. \A t \in next : ~HasToken(t)
      BY <2>1, <2>2
    <3>2. Becomes(task, next)
      BY <2>3 DEF Check
    <3> HIDE DEF next
    <3> QED
      BY <3>1, <3>2
  <2>4. CASE Refused(task)
    <3> DEFINE next == IF outbox.open /\ task.answer = "recently_typing"
                       THEN {[at |-> "recent", tail |-> task.tail]} ELSE AfterTail(task.tail)
    <3>1. \A t \in next : ~HasToken(t)
      BY <2>1, <2>2
    <3>2. Becomes(task, next)
      BY <2>4 DEF Refused
    <3> HIDE DEF next
    <3> QED
      BY <3>1, <3>2
  <2>5. CASE ScheduleRetry(task)
    <3> DEFINE then == IF task.at = "recent" THEN AfterTail(task.tail) ELSE {}
               retry == {[at |-> "retry", gen |-> outbox.gen + 1, touched |-> FALSE]}
    <3>1. \A t \in then : ~HasToken(t)
      BY <2>1
    <3>2. \A t \in retry \cup then : ~HasToken(t)
      BY <2>2, <3>1
    <3>3. Becomes(task, retry \cup then) \/ Becomes(task, then)
      BY <2>5, Zenon DEF ScheduleRetry
    <3> QED
      BY <3>1, <3>2, <3>3, Zenon
  <2>6. ASSUME NEW next, Becomes(task, next),
               \/ next = {} \/ \E t : next = {[at |-> "check", tail |-> t]}
               \/ \E g : next = {[at |-> "flush", gen |-> g]}
               \/ \E g : next = {[at |-> "cooldown", gen |-> g]}
        PROVE  \A t \in next : ~HasToken(t)
    BY <2>6 DEF HasToken
  <2>7. CASE RetryWakes(task)
    BY <2>6, <2>7, Zenon DEF RetryWakes
  <2>8. CASE FlushWakes(task)
    BY <2>6, <2>8, Zenon DEF FlushWakes
  <2>9. CASE CooldownEnds(task)
    BY <2>6, <2>9, Zenon DEF CooldownEnds
  <2>10. CASE Prune(task)
    BY <2>6, <2>10, Zenon DEF Prune
  <2>11. CASE InputCleared(task)
    BY <2>6, <2>11 DEF InputCleared
  <2>12. CASE InputQueueDrained(task)
    BY <2>6, <2>12, Zenon DEF InputQueueDrained
  <2>13. CASE DeliveryFinished(task)
    BY <2>6, <2>13 DEF DeliveryFinished
  <2>14. CASE Respawned(task)
    BY <2>6, <2>14, Zenon DEF Respawned
  <2>15. CASE Exited(task)
    BY <2>6, <2>15, Zenon DEF Exited
  <2> QED
    BY <2>3, <2>4, <2>5, <2>7, <2>8, <2>9, <2>10, <2>11, <2>12, <2>13, <2>14, <2>15
<1>4. outbox'.q \in {outbox.q, <<>>}
  <2>1. outbox \in OutboxType
    BY DEF Shaped, OutboxShaped
  <2>2. CASE Check(task) \/ FlushWakes(task) \/ InputQueueDrained(task)
    BY <2>2 DEF Check, FlushWakes, InputQueueDrained
  <2>3. CASE Refused(task)
    BY <2>1, <2>3 DEF Refused, SetOutbox, OutboxType
  <2>4. CASE ScheduleRetry(task) \/ RetryWakes(task) \/ CooldownEnds(task) \/ DeliveryFinished(task)
    BY <2>1, <2>4 DEF ScheduleRetry, RetryWakes, CooldownEnds, DeliveryFinished, OutboxType
  <2>5. CASE Prune(task) \/ Exited(task)
    BY <2>5, NoOutboxTyped DEF Prune, Exited, SetOutbox
  <2>6. CASE InputCleared(task)
    BY <2>1, <2>6 DEF InputCleared, OutboxType
  <2>7. CASE Respawned(task)
    BY <2>1, <2>7 DEF Respawned, OutboxType
  <2> QED
    BY <2>2, <2>3, <2>4, <2>5, <2>6, <2>7
<1>5. \A t \in Running' : HasToken(t) => t \in Running /\ tasks'[t] <= tasks[t]
  BY <1>1, <1>3, BecomesQuiet
<1> QED
  BY <1>2, <1>4, <1>5 DEF Quiet

\* The human, the terminal, the clock and the counters are quiet.
LEMMA OthersAreQuiet ==
    ASSUME Shaped,
           \/ BackoffEnds \/ \E count \in 0 .. MaxUnread : UpdateInbox(count)
           \/ \E toIdle \in BOOLEAN : SetStatus(toIdle)
           \/ HumanStep \/ InputIsServed \/ TimePasses \/ UNCHANGED vars
    PROVE  Quiet
<1>1. BagTyped /\ LockTypeOK
  BY DEF Shaped, OthersTyped
<1>2. UNCHANGED <<outbox, sent, written, submitted>>
  BY DEF BackoffEnds, UpdateInbox, SetStatus, HumanStep, InputIsServed, TimePasses, vars, rvars, hist,
         HumanTypes, HumanWaits, HumanGivesUp, TerminalReports, HumanServed
<1>3. lock'.epoch = lock.epoch /\ lock'.held = lock.held
  <2>1. \/ UNCHANGED lock
        \/ lock' = [lock EXCEPT !.waiting = @ + 1]
        \/ lock' = [lock EXCEPT !.waiting = @ - 1]
    BY DEF BackoffEnds, UpdateInbox, SetStatus, HumanStep, InputIsServed, TimePasses, vars,
           HumanTypes, HumanWaits, HumanGivesUp, TerminalReports, HumanServed, LockInputAtOnce,
           LockInputWaits, LockInputServed, LockInputGivesUp, LockObserve, LockElapse
  <2> QED
    BY <1>1, <2>1 DEF LockTypeOK
<1>4. \/ UNCHANGED tasks \/ tasks' = Touched \/ \E event \in Events : NotifiesInput(event)
      \/ Spawns({[at |-> "notify", event |-> "cleared"]})
  BY DEF BackoffEnds, UpdateInbox, SetStatus, HumanStep, InputIsServed, TimePasses, vars, rvars,
         HumanTypes, HumanWaits, HumanGivesUp, TerminalReports, HumanServed, Events
<1>5. \A t \in {[at |-> "notify", event |-> "cleared"]} : ~HasToken(t)
  BY DEF HasToken
<1>6. \A t \in Running' : HasToken(t) => t \in Running /\ tasks'[t] <= tasks[t]
  BY <1>1, <1>4, <1>5, SameQuiet, TouchedTyped, NotifiesTyped, SpawnsQuiet
<1> QED
  BY <1>2, <1>3, <1>6 DEF Quiet

-----------------------------------------------------------------------------
(* A thread passes its token on.                                           *)

\* A thread with a token goes on as `new`, with the same token; whatever else it
\* starts has none.
Passes(task, new) ==
    /\ task \in Holders /\ HasToken(new) /\ new.token = task.token /\ new.at # task.at
    /\ \A t \in Running' : HasToken(t) =>
          \/ t = new
          \/ t \in Running /\ tasks'[t] <= tasks[t] /\ (t = task => tasks[t] > 1)
    /\ new \in Running' /\ (new \notin Running => tasks'[new] = 1)

\* A holder that moves on to `new` and threads without a token passes its token.
LEMMA BecomesPasses ==
    ASSUME BagTyped, NEW task \in Holders, NEW new, HasToken(new), new.token = task.token, new.at # task.at,
           NEW next, Becomes(task, next), new \in next, \A t \in next : t = new \/ ~HasToken(t)
    PROVE  Passes(task, new)
<1>1. /\ Running' = {t \in Running : t = task => tasks[t] > 1} \cup next
      /\ \A t \in Running' \ next : tasks'[t] <= tasks[t]
      /\ \A t \in next \ Running : tasks'[t] = 1
  BY BecomesBag DEF BagTyped, Holders
<1> QED
  BY <1>1 DEF Passes, Holders

\* A passed token keeps the composer with one holder.
LEMMA PassKeepsHolder ==
    ASSUME BagTyped, BagTyped', LockTypeOK, OneHolder, NEW task, NEW new, Passes(task, new),
           lock'.epoch = lock.epoch, lock'.held = lock.held
    PROVE  OneHolder'
<1>1. \A t \in Running : tasks[t] \in Nat /\ tasks[t] > 0
  BY Counts
<1>2. \A t \in Running' : tasks'[t] \in Nat /\ tasks'[t] > 0
  BY CountsNext
<1>3. task \in Running /\ HasToken(task) /\ new.token = task.token /\ task.token <= lock.epoch /\ new # task
  BY DEF Passes, Holders, OneHolder
<1>4. ASSUME task.token = lock.epoch
      PROVE  /\ lock.held /\ tasks'[new] = 1
             /\ \A t \in Holders' : t.token = lock.epoch => t = new
  <2>1. lock.held /\ tasks[task] = 1 /\ \A t \in Holders : t.token = lock.epoch => t = task
    BY <1>3, <1>4 DEF OneHolder, Holders
  <2>2. new \notin Running
    BY <1>3, <1>4, <2>1 DEF Passes, Holders
  <2> QED
    BY <1>3, <2>1, <2>2 DEF Passes, Holders
<1>5. ASSUME task.token # lock.epoch
      PROVE  \A t \in Holders' : t.token = lock.epoch => t \in Holders /\ tasks'[t] <= tasks[t]
  BY <1>3, <1>5 DEF Passes, Holders
<1>6. \A t \in Holders' : t.token <= lock.epoch
  BY <1>3 DEF Passes, Holders, OneHolder
<1>7. CASE task.token = lock.epoch
  BY <1>4, <1>6, <1>7 DEF OneHolder
<1>8. CASE task.token # lock.epoch
  <2>1. \A t \in Holders' : t.token = lock.epoch => lock.held /\ tasks'[t] = 1
    BY <1>1, <1>2, <1>5, <1>8 DEF OneHolder, Holders
  <2> QED
    BY <1>5, <1>6, <1>8, <2>1 DEF OneHolder
<1> QED
  BY <1>7, <1>8

\* The delivery of a thread goes on with it, or leaves the flight: it was submitted,
\* or dropped.
LEMMA PassKeepsOnce ==
    ASSUME BagTyped, BagTyped', Known, Once, sent \in Nat, NEW task, NEW new, Passes(task, new),
           outbox'.q = outbox.q, sent' = sent,
           \A n \in DOMAIN written' : written'[n] <= sent,
           task \in InFlight,
           \/ new.at \in {"body", "cancel", "enter"} /\ new.item = task.item /\ submitted' = submitted
           \/ new.at \notin {"body", "cancel", "enter"} /\ submitted' \subseteq submitted \cup task.item.ids
    PROVE  Known' /\ Once'
<1> DEFINE q == outbox.q
<1>1. \A t \in Running : tasks[t] \in Nat /\ tasks[t] > 0
  BY Counts
<1>2. \A t \in Running' : tasks'[t] \in Nat /\ tasks'[t] > 0
  BY CountsNext
<1>3. \A t \in InFlight' : \/ t = new /\ new.at \in {"body", "cancel", "enter"}
                           \/ t \in InFlight /\ tasks'[t] <= tasks[t] /\ (t = task => tasks[t] > 1)
  BY InFlightHolds DEF Passes, InFlight, Holders, HasToken
<1>4. \A d \in submitted' : d \in submitted \/ (d \in task.item.ids /\ new.at \notin {"body", "cancel", "enter"})
  OBVIOUS
<1>5. task.item.ids # {} => \A t \in InFlight' : t # new => t # task
  BY <1>3 DEF Once
<1>6. new \in Running => new # task
  BY DEF Passes
<1>7. Known'
  BY <1>3, <1>4 DEF Known
<1>8. \A t, u \in InFlight' : t # u => \A d \in t.item.ids : d \notin u.item.ids
  <2> SUFFICES ASSUME NEW t \in InFlight', NEW u \in InFlight', t # u, NEW d \in t.item.ids, d \in u.item.ids
               PROVE  FALSE
    OBVIOUS
  <2>1. CASE t # new /\ u # new
    BY <1>3, <2>1 DEF Once
  <2>2. CASE t = new
    <3>1. new.item = task.item
      BY <2>2 DEF InFlight
    <3>2. d \in task.item.ids /\ u # new
      BY <2>2, <3>1
    <3>3. u \in InFlight /\ u # task
      BY <1>3, <1>5, <3>2
    <3> QED
      BY <3>2, <3>3 DEF Once
  <2>3. CASE u = new
    <3>1. new.item = task.item
      BY <2>3 DEF InFlight
    <3>2. d \in task.item.ids /\ t # new
      BY <2>3, <3>1
    <3>3. t \in InFlight /\ t # task
      BY <1>3, <1>5, <3>2
    <3> QED
      BY <3>2, <3>3 DEF Once
  <2> QED
    BY <2>1, <2>2, <2>3
<1>9. \A t \in InFlight' : t.item.ids # {} => tasks'[t] = 1
  <2> SUFFICES ASSUME NEW t \in InFlight', t.item.ids # {} PROVE tasks'[t] = 1
    OBVIOUS
  <2>1. t \in Running'
    BY DEF InFlight
  <2>2. CASE t # new
    BY <1>1, <1>2, <1>3, <2>1, <2>2 DEF Once, InFlight
  <2>3. CASE t = new
    <3>1. new.at \in {"body", "cancel", "enter"} /\ new.item = task.item
      BY <2>3 DEF InFlight
    <3>2. new \notin Running
      <4>1. SUFFICES ASSUME new \in Running PROVE FALSE
        OBVIOUS
      <4>2. new \in InFlight /\ new # task
        BY <3>1, <4>1, <1>6 DEF InFlight
      <4> QED
        BY <2>3, <3>1, <4>2 DEF Once
    <3> QED
      BY <2>3, <3>2 DEF Passes
  <2> QED
    BY <2>2, <2>3
<1>10. \A i \in DOMAIN q : \A t \in InFlight' : \A d \in q[i].ids : d \notin t.item.ids
  BY <1>3 DEF Once
<1>11. \A i \in DOMAIN q : \A d \in q[i].ids : d \notin submitted'
  BY <1>4 DEF Once
<1>12. \A t \in InFlight' : \A d \in t.item.ids : d \notin submitted'
  <2> SUFFICES ASSUME NEW t \in InFlight', NEW d \in t.item.ids, d \in submitted'
               PROVE  FALSE
    OBVIOUS
  <2>1. CASE t = new
    BY <1>4, <2>1 DEF Once, InFlight
  <2>2. CASE t # new
    BY <1>3, <1>4, <1>5, <2>2 DEF Once
  <2> QED
    BY <2>1, <2>2
<1> QED
  BY <1>7, <1>8, <1>9, <1>10, <1>11, <1>12 DEF Once

\* Nothing is written, and no body is new.
LEMMA PassKeepsOrdered ==
    ASSUME Ordered, NEW task, NEW new, Passes(task, new), new.at # "body",
           outbox'.q = outbox.q, written' = written, lock'.epoch = lock.epoch
    PROVE  Ordered'
<1>1. \A t \in Holders' : t.at = "body" => t \in Holders
  BY DEF Passes, Holders
<1> QED
  BY <1>1 DEF Ordered, RelaysInOrder, Before

\* The invariant, taken apart.
LEMMA Parts ==
    ASSUME OutboxInv
    PROVE  /\ Shaped /\ OneHolder /\ Known /\ Once /\ Ordered
           /\ BagTyped /\ OutboxShaped /\ OthersTyped /\ LockTypeOK
           /\ outbox \in OutboxType /\ outbox.q \in Seq(Singles)
           /\ sent \in Nat /\ lock.epoch \in Nat
           /\ written \in Seq(1 .. MaxDeliveries)
           /\ \A n \in DOMAIN written : written[n] \in Nat
           /\ \A i \in DOMAIN outbox.q : outbox.q[i].ids \subseteq Nat
  BY OutboxAssumption DEF OutboxInv, Shaped, OutboxShaped, OthersTyped, OutboxType, LockTypeOK, Singles, Item

\* What is left of a cool-down holds no token.
LEMMA TailsAreQuiet ==
    /\ \A tail : \A t \in AfterTail(tail) : ~HasToken(t)
    /\ \A t \in {} : ~HasToken(t)
  BY TailTyped

\* A thread about to finish still has its token.
LEMMA FinishHasToken ==
    ASSUME NEW token
    PROVE  /\ HasToken([at |-> "finish", token |-> token])
           /\ [at |-> "finish", token |-> token].token = token
           /\ [at |-> "finish", token |-> token].at = "finish"
  BY DEF HasToken

\* The body is written, refused by the gate, or refused by the PTY.
LEMMA WriteBodyKeeps == ASSUME OutboxInv, Shaped', NEW task \in Running, WriteBody(task) PROVE OutboxInv'
<1> DEFINE enter == [at |-> "enter", item |-> task.item, token |-> task.token]
           finish == [at |-> "finish", token |-> task.token]
           cancel == [task EXCEPT !.at = "cancel"]
<1>1. /\ OneHolder /\ Known /\ Once /\ Ordered /\ BagTyped /\ LockTypeOK /\ sent \in Nat
      /\ lock.epoch \in Nat /\ BagTyped' /\ written \in Seq(1 .. MaxDeliveries)
  BY Parts DEF Shaped
<1>2. task \in Task /\ task.at = "body" /\ task.item \in Singles /\ task.token \in Nat /\ task.item.ids \subseteq Nat
  BY <1>1, ReadTask, TaskFields DEF WriteBody, HasToken, Singles, Item
<1>3. task \in Holders /\ task \in InFlight
  BY <1>2 DEF Holders, HasToken, InFlight
<1>4. UNCHANGED <<lock, outbox, sent, submitted>>
  BY DEF WriteBody
<1>5. CASE MayWrite(task.token) /\ Becomes(task, {enter} \cup AfterTail(task.tail))
           /\ written' = written \o Relays(task.item)
  <2>1. Passes(task, enter)
    <3>1. HasToken(enter) /\ enter.token = task.token /\ enter.at = "enter"
      BY DEF HasToken
    <3> HIDE DEF enter
    <3>2. \A t \in {enter} \cup AfterTail(task.tail) : t = enter \/ ~HasToken(t)
      BY TailsAreQuiet
    <3> DEFINE next == {enter} \cup AfterTail(task.tail)
    <3>3. Becomes(task, next) /\ enter \in next
      BY <1>5
    <3> HIDE DEF next
    <3> QED
      BY <1>1, <1>2, <1>3, <3>1, <3>2, <3>3, BecomesPasses DEF next
  <2>2. OneHolder'
    BY <1>1, <1>4, <2>1, PassKeepsHolder
  <2>3. task.token = lock.epoch
    BY <1>5 DEF MayWrite
  <2>4. \A t \in Holders' : t.token = lock.epoch => t.at # "body"
    <3>1. enter \in Holders' /\ enter.token = lock.epoch /\ enter.at = "enter"
      BY <2>1, <2>3 DEF Passes, Holders
    <3> HIDE DEF enter
    <3> QED
      BY <1>4, <2>2, <3>1 DEF OneHolder
  <2>5. CASE Relays(task.item) = <<>>
    <3>1. written' = written
      BY <1>1, <1>5, <2>5
    <3>2. Known' /\ Once'
      BY <1>1, <1>3, <1>4, <2>1, <3>1, PassKeepsOnce DEF Known
    <3>3. Ordered'
      BY <1>1, <1>4, <2>1, <3>1, PassKeepsOrdered
    <3> QED
      BY <2>2, <3>2, <3>3 DEF OutboxInv
  <2>6. ASSUME NEW d \in 1 .. MaxDeliveries, task.item.kind = "relay", task.item.ids = {d}, Relays(task.item) = <<d>>
        PROVE  OutboxInv'
    <3>1. /\ written' \in Seq(1 .. MaxDeliveries) /\ DOMAIN written' = DOMAIN written \cup {Len(written) + 1}
          /\ written'[Len(written) + 1] = d
          /\ \A n \in DOMAIN written : written'[n] = written[n] /\ n < Len(written) + 1
      <4>1. written' = written \o <<d>>
        BY <1>5, <2>6
      <4> QED
        BY <1>1, <4>1
    <3>2. d <= sent /\ (\A n \in DOMAIN written : written[n] < d) /\ Before(d, outbox.q)
      BY <1>2, <1>3, <2>3, <2>6 DEF OutboxInv, Known, Ordered
    <3>3. \A n \in DOMAIN written' : written'[n] <= sent
      BY <1>1, <3>1, <3>2 DEF Known
    <3>4. Known' /\ Once'
      BY <1>1, <1>3, <1>4, <2>1, <3>3, PassKeepsOnce
    <3>5. \A n \in DOMAIN written' : Before(written'[n], outbox.q)
      BY <1>1, <3>1, <3>2 DEF Ordered
    <3>6. RelaysInOrder'
      <4> SUFFICES ASSUME NEW i \in DOMAIN written', NEW j \in DOMAIN written', i < j
                   PROVE  written'[i] < written'[j]
        BY DEF RelaysInOrder
      <4>1. i \in DOMAIN written
        BY <1>1, <3>1
      <4>2. CASE j \in DOMAIN written
        BY <1>1, <3>1, <4>1, <4>2 DEF Ordered, RelaysInOrder
      <4>3. CASE j = Len(written) + 1
        BY <3>1, <3>2, <4>1, <4>3
      <4> QED
        BY <3>1, <4>2, <4>3
    <3>7. Ordered'
      BY <1>1, <1>4, <2>4, <3>5, <3>6 DEF Ordered
    <3> QED
      BY <2>2, <3>4, <3>7 DEF OutboxInv
  <2> QED
    BY <1>2, <2>5, <2>6, RelaysAre
<1>6. ASSUME written' = written, NEW new, HasToken(new), new.token = task.token, new.at \in {"cancel", "finish"},
             new.at = "cancel" => new.item = task.item,
             NEW next, Becomes(task, next), new \in next, \A t \in next : t = new \/ ~HasToken(t)
      PROVE  OutboxInv'
  <2>1. Passes(task, new)
    BY <1>1, <1>2, <1>3, <1>6, BecomesPasses
  <2>2. OneHolder'
    BY <1>1, <1>4, <2>1, PassKeepsHolder
  <2>3. Known' /\ Once'
    BY <1>1, <1>3, <1>4, <1>6, <2>1, PassKeepsOnce DEF Known
  <2>4. Ordered'
    BY <1>1, <1>4, <1>6, <2>1, PassKeepsOrdered
  <2> QED
    BY <2>2, <2>3, <2>4 DEF OutboxInv
<1>7. CASE written' = written /\ Becomes(task, {cancel})
  <2>1. HasToken(cancel) /\ cancel.token = task.token /\ cancel.at = "cancel" /\ cancel.item = task.item
    BY <1>2, TaskFields DEF HasToken
  <2> HIDE DEF cancel
  <2> DEFINE next == {cancel}
  <2>2. Becomes(task, next) /\ cancel \in next /\ \A t \in next : t = cancel \/ ~HasToken(t)
    BY <1>7
  <2> HIDE DEF next
  <2> QED
    BY <1>6, <1>7, <2>1, <2>2
<1>8. CASE written' = written /\ Becomes(task, {finish} \cup AfterTail(task.tail))
  <2>1. HasToken(finish) /\ finish.token = task.token /\ finish.at = "finish"
    BY FinishHasToken
  <2> HIDE DEF finish
  <2> DEFINE next == {finish} \cup AfterTail(task.tail)
  <2>2. Becomes(task, next) /\ finish \in next /\ \A t \in next : t = finish \/ ~HasToken(t)
    BY <1>8, TailsAreQuiet
  <2> HIDE DEF next
  <2> QED
    BY <1>6, <1>8, <2>1, <2>2
<1> QED
  BY <1>5, <1>7, <1>8, Zenon DEF WriteBody

\* cancel_started_delivery, and the Enter: the thread has its composer to give back.
LEMMA EndOfFlightKeeps ==
    ASSUME OutboxInv, Shaped', NEW task \in Running, CancelStarted(task) \/ WriteEnter(task)
    PROVE  OutboxInv'
<1> DEFINE finish == [at |-> "finish", token |-> task.token]
<1>1. /\ OneHolder /\ Known /\ Once /\ Ordered /\ BagTyped /\ LockTypeOK /\ sent \in Nat /\ BagTyped'
      /\ outbox \in OutboxType
  BY Parts DEF Shaped
<1>2. task.at \in {"cancel", "enter"}
  BY DEF CancelStarted, WriteEnter
<1>3. task \in Holders /\ task \in InFlight
  BY <1>2 DEF Holders, HasToken, InFlight
<1>4. /\ UNCHANGED <<lock, sent, written>> /\ submitted' \subseteq submitted \cup task.item.ids
      /\ outbox'.q = outbox.q
  <2>1. CASE CancelStarted(task)
    <3>1. outbox'.q = outbox.q
      BY <1>1, <2>1, NoOutboxTyped DEF CancelStarted, SetOutbox, OutboxType
    <3> QED
      BY <2>1, <3>1 DEF CancelStarted
  <2>2. CASE WriteEnter(task)
    BY <2>2 DEF WriteEnter
  <2> QED
    BY <2>1, <2>2
<1>5. HasToken(finish) /\ finish.token = task.token /\ finish.at = "finish"
  BY FinishHasToken
<1>6. Becomes(task, {finish} \cup AfterTail(task.tail)) \/ Becomes(task, {finish})
  BY DEF CancelStarted, WriteEnter
<1> HIDE DEF finish
<1>7. \E next : Becomes(task, next) /\ finish \in next /\ \A t \in next : t = finish \/ ~HasToken(t)
  <2>1. \A t \in {finish} \cup AfterTail(task.tail) : t = finish \/ ~HasToken(t)
    BY TailsAreQuiet
  <2>2. \A t \in {finish} : t = finish
    OBVIOUS
  <2>3. finish \in {finish} \cup AfterTail(task.tail) /\ finish \in {finish}
    OBVIOUS
  <2> QED
    BY <1>6, <2>1, <2>2, <2>3, Zenon
<1>8. Passes(task, finish)
  BY <1>1, <1>2, <1>3, <1>5, <1>7, BecomesPasses
<1>9. OneHolder'
  BY <1>1, <1>4, <1>8, PassKeepsHolder
<1>10. Known' /\ Once'
  <2>1. \A n \in DOMAIN written' : written'[n] <= sent
    BY <1>1, <1>4 DEF Known
  <2> QED
    BY <1>1, <1>3, <1>4, <1>5, <1>8, <2>1, PassKeepsOnce
<1>11. Ordered'
  BY <1>1, <1>4, <1>5, <1>8, PassKeepsOrdered
<1> QED
  BY <1>9, <1>10, <1>11 DEF OutboxInv

\* finish_delivery: a thread gives its composer back and keeps no token.
LEMMA ReleaseKeeps ==
    ASSUME OutboxInv, Shaped', NEW task \in Holders, NEW next, Becomes(task, next),
           \A t \in next : ~HasToken(t), LockRelease(task.token),
           UNCHANGED <<outbox, sent, written, submitted>>
    PROVE  OutboxInv'
<1>1. /\ OneHolder /\ Known /\ Once /\ Ordered /\ BagTyped /\ LockTypeOK /\ lock.epoch \in Nat /\ BagTyped'
  BY Parts DEF Shaped
<1>2. task \in Running
  BY DEF Holders
<1>3. /\ \A t \in Running' : HasToken(t) => t \in Running /\ tasks'[t] <= tasks[t]
      /\ \A t \in Running' : HasToken(t) /\ t = task => tasks[t] > 1
  BY <1>1, <1>2, BecomesBag DEF BagTyped, Holders
<1>4. CASE lock.held /\ lock.epoch = task.token
  <2>1. tasks[task] = 1 /\ \A t \in Holders : t.token = lock.epoch => t = task
    BY <1>1, <1>4 DEF OneHolder
  <2>2. lock'.epoch = lock.epoch
    BY <1>1, <1>4 DEF LockRelease, LockTypeOK
  <2>3. \A t \in Holders' : t \in Holders /\ t.token # lock.epoch
    BY <1>3, <2>1 DEF Holders
  <2>4. OneHolder'
    BY <1>1, <2>2, <2>3 DEF OneHolder
  <2>5. \A t \in InFlight' : t \in InFlight /\ tasks'[t] <= tasks[t]
    BY <1>3 DEF InFlight, HasToken
  <2>6. \A t \in InFlight' : t.item.ids # {} => tasks'[t] = 1
    <3>1. \A t \in Running' : tasks'[t] \in Nat /\ tasks'[t] > 0
      BY <1>1, CountsNext
    <3> QED
      BY <1>1, <2>5, <3>1 DEF Once, InFlight
  <2>7. Known' /\ Once'
    BY <1>1, <2>5, <2>6 DEF Known, Once
  <2>8. Ordered'
    BY <1>1, <2>2, <2>3 DEF Ordered, RelaysInOrder, Before
  <2> QED
    BY <2>4, <2>7, <2>8 DEF OutboxInv
<1>5. CASE ~(lock.held /\ lock.epoch = task.token)
  <2>1. Quiet
    BY <1>3, <1>5 DEF Quiet, LockRelease
  <2> QED
    BY <2>1, QuietKeeps
<1> QED
  BY <1>4, <1>5

\* ... at the end of a delivery.
LEMMA FinishKeeps == ASSUME OutboxInv, Shaped', NEW task \in Running, Finish(task) PROVE OutboxInv'
<1> DEFINE next == IF lock.held /\ lock.epoch = task.token
                   THEN {[at |-> "notify", event |-> "finished"]} ELSE {}
<1>1. task \in Holders
  BY DEF Finish, Holders, HasToken
<1>2. \A t \in next : ~HasToken(t)
  BY DEF HasToken
<1>3. Becomes(task, next) /\ LockRelease(task.token) /\ UNCHANGED <<outbox, sent, written, submitted>>
  BY DEF Finish, hist
<1> HIDE DEF next
<1> QED
  BY <1>1, <1>2, <1>3, ReleaseKeeps

-----------------------------------------------------------------------------
(* A free composer is taken.                                               *)

\* A reservation is granted only when no thread is left with the current epoch.
LEMMA FreeComposer ==
    ASSUME OneHolder, LockTypeOK, BagTyped, LockReserve
    PROVE  /\ \A t \in Holders : t.token < lock.epoch
           /\ lock'.epoch = lock.epoch /\ lock'.held
<1>1. ~lock.held
  BY DEF LockReserve, Reservation, LockTypeOK
<1>2. lock'.epoch = lock.epoch /\ lock'.held /\ lock.epoch \in Nat
  BY DEF LockReserve, LockTypeOK
<1>3. \A t \in Holders : t.token <= lock.epoch /\ t.token # lock.epoch
  BY <1>1 DEF OneHolder
<1>4. ASSUME NEW t \in Holders PROVE t.token < lock.epoch
  <2>1. t.token <= lock.epoch /\ t.token # lock.epoch
    BY <1>3
  <2>2. t.token \in Nat
    BY ReadTask, TaskFields DEF Holders
  <2> QED
    BY <1>2, <2>1, <2>2
<1> QED
  BY <1>2, <1>4

\* `new` is given the free composer.
Takes(new) ==
    /\ HasToken(new) /\ new.token = lock.epoch
    /\ \A t \in Running' : HasToken(t) => t = new \/ (t \in Running /\ tasks'[t] <= tasks[t])
    /\ tasks'[new] = 1

\* The composer that is taken has one holder.
LEMMA TakeKeepsHolder ==
    ASSUME OneHolder, LockTypeOK, BagTyped, LockReserve, NEW new, Takes(new)
    PROVE  OneHolder' /\ \A t \in Holders' : t.token = lock.epoch => t = new
<1>1. /\ \A t \in Holders : t.token < lock.epoch
      /\ lock'.epoch = lock.epoch /\ lock'.held /\ lock.epoch \in Nat
  BY FreeComposer DEF LockTypeOK
<1>2. \A t \in Holders' : t = new \/ t \in Holders
  BY DEF Takes, Holders
<1>3. \A t \in Holders : t.token \in Nat
  BY ReadTask, TaskFields DEF Holders
<1>4. \A t \in Holders' : t.token <= lock.epoch /\ (t.token = lock.epoch => t = new)
  BY <1>1, <1>2, <1>3 DEF Takes
<1> QED
  BY <1>1, <1>4 DEF OneHolder, Takes

\* The reservation of a flush.
LEMMA ReserveKeeps == ASSUME OutboxInv, Shaped', NEW task \in Running, ReserveForFlush(task) PROVE OutboxInv'
<1> DEFINE granted == [at |-> "granted", token |-> lock.epoch, tail |-> task.tail]
           refused == [at |-> "refused", answer |-> Reservation, tail |-> task.tail]
<1>1. /\ OneHolder /\ Known /\ Once /\ Ordered /\ BagTyped /\ LockTypeOK /\ lock.epoch \in Nat /\ BagTyped'
  BY Parts DEF Shaped
<1>2. task.at = "reserve" /\ UNCHANGED <<outbox, sent, written, submitted>>
  BY DEF ReserveForFlush, hist
<1>3. CASE LockReserve /\ Becomes(task, {granted})
  <2>1. /\ Running' = {t \in Running : t = task => tasks[t] > 1} \cup {granted}
        /\ \A t \in Running' \ {granted} : tasks'[t] <= tasks[t]
        /\ \A t \in {granted} \ Running : tasks'[t] = 1
    BY <1>1, <1>3, BecomesBag DEF BagTyped
  <2>2. HasToken(granted) /\ granted.token = lock.epoch /\ granted.at = "granted"
    BY DEF HasToken
  <2> HIDE DEF granted
  <2>3. granted \notin Running
    <3>1. \A t \in Holders : t.token < lock.epoch
      BY <1>1, <1>3, FreeComposer
    <3> QED
      BY <1>1, <2>2, <3>1 DEF Holders
  <2>4. Takes(granted)
    BY <2>1, <2>2, <2>3 DEF Takes
  <2>5. OneHolder' /\ \A t \in Holders' : t.token = lock.epoch => t = granted
    BY <1>1, <1>3, <2>4, TakeKeepsHolder
  <2>6. \A t \in InFlight' : t \in InFlight /\ tasks'[t] <= tasks[t]
    BY <2>2, <2>4 DEF Takes, InFlight, HasToken
  <2>7. \A t \in InFlight' : t.item.ids # {} => tasks'[t] = 1
    <3>1. \A t \in Running' : tasks'[t] \in Nat /\ tasks'[t] > 0
      BY <1>1, CountsNext
    <3> QED
      BY <1>1, <2>6, <3>1 DEF Once, InFlight
  <2>8. Known' /\ Once'
    BY <1>1, <1>2, <2>6, <2>7 DEF Known, Once
  <2>9. Ordered'
    <3>1. lock'.epoch = lock.epoch
      BY <1>1, <1>3, FreeComposer
    <3> QED
      BY <1>1, <1>2, <2>2, <2>5, <3>1 DEF Ordered, RelaysInOrder, Before
  <2> QED
    BY <2>5, <2>8, <2>9 DEF OutboxInv
<1>4. CASE Becomes(task, {refused}) /\ UNCHANGED lock
  <2>1. \A t \in {refused} : ~HasToken(t)
    BY DEF HasToken
  <2> HIDE DEF refused
  <2>2. \A t \in Running' : HasToken(t) => t \in Running /\ tasks'[t] <= tasks[t]
    BY <1>1, <1>4, <2>1, BecomesQuiet
  <2>3. Quiet
    BY <1>2, <1>4, <2>2 DEF Quiet
  <2> QED
    BY <2>3, QuietKeeps
<1> QED
  BY <1>3, <1>4, Zenon DEF ReserveForFlush

\* The head of the queue takes off.
LEMMA GrantedKeeps == ASSUME OutboxInv, Shaped', NEW task \in Running, Granted(task) PROVE OutboxInv'
<1> DEFINE body == [at |-> "body", item |-> Head(outbox.q), token |-> task.token,
                    caller |-> "flush", tail |-> task.tail]
           next == IF lock.held /\ lock.epoch = task.token THEN {[at |-> "jammed"]} ELSE AfterTail(task.tail)
           box == [outbox EXCEPT !.q = Tail(@), !.submit = TRUE, !.blocked = FALSE]
<1>1. /\ OneHolder /\ Known /\ Once /\ Ordered /\ BagTyped /\ LockTypeOK /\ lock.epoch \in Nat /\ BagTyped'
      /\ outbox \in OutboxType /\ outbox.q \in Seq(Singles)
  BY Parts DEF Shaped
<1>2. task.at = "granted" /\ task \in Holders /\ task \notin InFlight
      /\ UNCHANGED <<sent, written, submitted>>
  BY DEF Granted, hist, Holders, HasToken, InFlight
<1>3. CASE outbox.open /\ outbox.q # <<>>
  <2> DEFINE q == outbox.q
  <2>1. Becomes(task, {body}) /\ SetOutbox(box) /\ UNCHANGED <<lock, session>>
    BY <1>3, Zenon DEF Granted
  <2>2. outbox'.q = Tail(q)
    BY <1>1, <2>1 DEF SetOutbox, OutboxType
  <2>3. /\ \A i \in DOMAIN Tail(q) : i + 1 \in DOMAIN q /\ Tail(q)[i] = q[i + 1] /\ i \in Nat
        /\ 1 \in DOMAIN q /\ Head(q) = q[1] /\ \A i \in DOMAIN q : i \in Nat
    BY <1>1, <1>3
  <2>4. HasToken(body) /\ body.token = task.token /\ body.at = "body" /\ body.item = q[1]
    BY <2>3 DEF HasToken
  <2> HIDE DEF body, box, q, next
  <2>5. Passes(task, body)
    <3> DEFINE new == {body}
    <3>1. Becomes(task, new) /\ body \in new /\ \A t \in new : t = body \/ ~HasToken(t)
      BY <2>1
    <3> HIDE DEF new
    <3> QED
      BY <1>1, <1>2, <2>4, <3>1, BecomesPasses
  <2>6. OneHolder'
    BY <1>1, <2>1, <2>5, PassKeepsHolder
  <2>7. \A t \in InFlight' : t = body \/ (t \in InFlight /\ tasks'[t] <= tasks[t])
    BY <2>5 DEF Passes, InFlight, HasToken
  <2>8. Known'
    BY <1>1, <1>2, <2>2, <2>3, <2>4, <2>7 DEF Known, q
  <2>9. Once'
    <3>1. \A i, j \in DOMAIN Tail(q) : i # j => \A d \in Tail(q)[i].ids : d \notin Tail(q)[j].ids
      <4> SUFFICES ASSUME NEW i \in DOMAIN Tail(q), NEW j \in DOMAIN Tail(q), i # j
                   PROVE  \A d \in Tail(q)[i].ids : d \notin Tail(q)[j].ids
        OBVIOUS
      <4>1. i + 1 \in DOMAIN q /\ j + 1 \in DOMAIN q /\ i + 1 # j + 1
            /\ Tail(q)[i] = q[i + 1] /\ Tail(q)[j] = q[j + 1]
        BY <2>3
      <4> QED
        BY <1>1, <4>1 DEF Once, q
    <3>2. \A t, u \in InFlight' : t # u => \A d \in t.item.ids : d \notin u.item.ids
      BY <1>1, <2>3, <2>4, <2>7 DEF Once, q
    <3>3. \A t \in InFlight' : t.item.ids # {} => tasks'[t] = 1
      <4> SUFFICES ASSUME NEW t \in InFlight', t.item.ids # {} PROVE tasks'[t] = 1
        OBVIOUS
      <4>1. \A u \in Running' : tasks'[u] \in Nat /\ tasks'[u] > 0
        BY <1>1, CountsNext
      <4>2. t \in Running'
        BY DEF InFlight
      <4>3. CASE t \in InFlight
        <5>1. t # body
          BY <1>1, <2>3, <2>4, <4>3 DEF Once, q
        <5> QED
          BY <1>1, <2>7, <4>1, <4>2, <4>3, <5>1 DEF Once
      <4>4. CASE t \notin InFlight
        <5>1. t = body /\ t \notin Running
          BY <2>4, <2>7, <4>4 DEF InFlight
        <5> QED
          BY <2>5, <5>1 DEF Passes
      <4> QED
        BY <4>3, <4>4
    <3>4. \A i \in DOMAIN Tail(q) : \A t \in InFlight' : \A d \in Tail(q)[i].ids : d \notin t.item.ids
      <4> SUFFICES ASSUME NEW i \in DOMAIN Tail(q), NEW t \in InFlight', NEW d \in Tail(q)[i].ids
                   PROVE  d \notin t.item.ids
        OBVIOUS
      <4>1. i + 1 \in DOMAIN q /\ i + 1 # 1 /\ Tail(q)[i] = q[i + 1]
        BY <1>1, <2>3 DEF q
      <4> QED
        BY <1>1, <2>3, <2>4, <2>7, <4>1 DEF Once, q
    <3>5. \A i \in DOMAIN Tail(q) : \A d \in Tail(q)[i].ids : d \notin submitted
      BY <1>1, <2>3 DEF Once, q
    <3>6. \A t \in InFlight' : \A d \in t.item.ids : d \notin submitted
      BY <1>1, <2>3, <2>4, <2>7 DEF Once, q
    <3> QED
      BY <1>2, <2>2, <3>1, <3>2, <3>3, <3>4, <3>5, <3>6 DEF Once
  <2>10. Ordered'
    <3>1. \A i, j \in DOMAIN Tail(q) :
            i < j /\ Tail(q)[i].kind = "relay" /\ Tail(q)[j].kind = "relay" =>
               \A d \in Tail(q)[i].ids, e \in Tail(q)[j].ids : d < e
      <4> SUFFICES ASSUME NEW i \in DOMAIN Tail(q), NEW j \in DOMAIN Tail(q), i < j,
                          Tail(q)[i].kind = "relay", Tail(q)[j].kind = "relay"
                   PROVE  \A d \in Tail(q)[i].ids, e \in Tail(q)[j].ids : d < e
        OBVIOUS
      <4>1. i + 1 \in DOMAIN q /\ j + 1 \in DOMAIN q /\ i + 1 < j + 1
            /\ Tail(q)[i] = q[i + 1] /\ Tail(q)[j] = q[j + 1]
        BY <2>3
      <4> QED
        BY <1>1, <4>1 DEF Ordered, q
    <3>2. \A d : Before(d, q) => Before(d, Tail(q))
      BY <2>3 DEF Before
    <3>3. q[1].kind = "relay" =>
            \A d \in q[1].ids : (\A n \in DOMAIN written : written[n] < d) /\ Before(d, Tail(q))
      <4> SUFFICES ASSUME q[1].kind = "relay", NEW d \in q[1].ids
                   PROVE  (\A n \in DOMAIN written : written[n] < d) /\ Before(d, Tail(q))
        OBVIOUS
      <4>1. \A n \in DOMAIN written : written[n] < d
        BY <1>1, <2>3 DEF Ordered, Before, q
      <4>2. ASSUME NEW i \in DOMAIN Tail(q), Tail(q)[i].kind = "relay", NEW e \in Tail(q)[i].ids
            PROVE  d < e
        <5>1. i + 1 \in DOMAIN q /\ 1 < i + 1 /\ Tail(q)[i] = q[i + 1]
          BY <1>1, <2>3 DEF q
        <5> QED
          BY <1>1, <2>3, <4>2, <5>1 DEF Ordered, q
      <4> QED
        BY <4>1, <4>2 DEF Before
    <3>4. \A t \in Holders' : t = body \/ t \in Holders
      BY <2>5 DEF Passes, Holders
    <3>5. \A t \in Holders' : t.at = "body" /\ t.item.kind = "relay" /\ t.token = lock.epoch =>
            \A d \in t.item.ids : (\A n \in DOMAIN written : written[n] < d) /\ Before(d, Tail(q))
      BY <1>1, <2>4, <3>2, <3>3, <3>4 DEF Ordered, q
    <3>6. \A n \in DOMAIN written : Before(written[n], Tail(q))
      BY <1>1, <3>2 DEF Ordered, q
    <3>7. RelaysInOrder'
      BY <1>1, <1>2 DEF Ordered, RelaysInOrder
    <3> QED
      BY <1>2, <2>1, <2>2, <3>1, <3>5, <3>6, <3>7 DEF Ordered
  <2> QED
    BY <2>6, <2>8, <2>9, <2>10 DEF OutboxInv
<1>4. CASE ~(outbox.open /\ outbox.q # <<>>)
  <2>1. Becomes(task, next) /\ LockRelease(task.token) /\ UNCHANGED outbox
    BY <1>4, Zenon DEF Granted, GrantedNothing
  <2>2. \A t \in next : ~HasToken(t)
    BY TailTyped DEF HasToken
  <2> HIDE DEF next
  <2> QED
    BY <1>2, <2>1, <2>2, ReleaseKeeps
<1> QED
  BY <1>3, <1>4

\* A delivery that finds nothing pending, and the composer free, takes off at once.
LEMMA StartKeeps ==
    ASSUME OutboxInv, Shaped', ~DeliveryPending, LockReserve,
           NEW item \in Singles, item.ids \subseteq {sent + 1},
           NEW caller, Start(item, caller),
           sent' \in {sent, sent + 1}, item.ids # {} => sent' = sent + 1,
           UNCHANGED <<written, submitted>>
    PROVE  OutboxInv'
<1> DEFINE new == [at |-> "body", item |-> item, token |-> lock.epoch, caller |-> caller, tail |-> "none"]
           box == [Opened EXCEPT !.submit = TRUE, !.blocked = FALSE]
<1>1. /\ OneHolder /\ Known /\ Once /\ Ordered /\ BagTyped /\ LockTypeOK /\ lock.epoch \in Nat /\ BagTyped'
      /\ outbox \in OutboxType /\ sent \in Nat
  BY Parts DEF Shaped
<1>2. outbox.q = <<>>
  BY DEF DeliveryPending, OutboxInv, Shaped, OutboxShaped
<1>3. outbox'.q = <<>>
  <2>1. Opened \in OutboxType /\ Opened.q = <<>>
    BY <1>1, <1>2, OpenedTyped
  <2>2. outbox' = box
    BY DEF Start, SetOutbox
  <2> QED
    BY <2>1, <2>2 DEF OutboxType
<1>4. HasToken(new) /\ new.token = lock.epoch /\ new.at = "body" /\ new.item = item
  BY DEF HasToken
<1>5. Spawns({new})
  BY DEF Start
<1> HIDE DEF new
<1>6. /\ Running' = Running \cup {new}
      /\ \A t \in Running' \ {new} : tasks'[t] <= tasks[t]
      /\ \A t \in {new} \ Running : tasks'[t] = 1
  BY <1>1, <1>5, SpawnsBag DEF BagTyped
<1>7. /\ \A t \in Holders : t.token < lock.epoch
      /\ lock'.epoch = lock.epoch
  BY <1>1, FreeComposer
<1>8. new \notin Running
  BY <1>1, <1>4, <1>7 DEF Holders
<1>9. Takes(new)
  BY <1>4, <1>6, <1>8 DEF Takes
<1>10. OneHolder' /\ \A t \in Holders' : t.token = lock.epoch => t = new
  BY <1>1, <1>9, TakeKeepsHolder
<1>11. /\ \A t \in InFlight' : t = new \/ (t \in InFlight /\ tasks'[t] <= tasks[t])
       /\ new \notin InFlight
  BY <1>8, <1>9 DEF Takes, InFlight, HasToken
<1>12. \A d \in item.ids : d = sent + 1 /\ sent' = sent + 1
  OBVIOUS
<1>13. Known'
  <2>1. ASSUME NEW t \in InFlight', NEW d \in t.item.ids PROVE d <= sent'
    <3>1. CASE t = new
      BY <1>1, <1>4, <1>12, <2>1, <3>1
    <3>2. CASE t # new
      <4>1. d <= sent /\ d \in Nat
        <5>1. t \in InFlight
          BY <1>11, <3>2
        <5>2. t.item \in Item
          BY <1>1, <5>1, ReadTask, TaskFields DEF InFlight
        <5> QED
          BY <1>1, <2>1, <5>1, <5>2 DEF Known, Item
      <4> QED
        BY <1>1, <4>1
    <3> QED
      BY <3>1, <3>2
  <2>2. \A d \in submitted : d <= sent'
    BY <1>1, OutboxAssumption DEF Known, OutboxInv, Shaped, OthersTyped
  <2>3. \A n \in DOMAIN written : written[n] <= sent'
    BY <1>1, Parts DEF Known
  <2> QED
    BY <1>3, <2>1, <2>2, <2>3 DEF Known
<1>14. Once'
  <2>1. \A t \in InFlight : \A d \in t.item.ids : d \notin item.ids
    BY <1>1, <1>12 DEF Known
  <2>2. \A t, u \in InFlight' : t # u => \A d \in t.item.ids : d \notin u.item.ids
    BY <1>1, <1>4, <1>11, <2>1 DEF Once
  <2>3. \A t \in InFlight' : t.item.ids # {} => tasks'[t] = 1
    <3>1. \A t \in Running' : tasks'[t] \in Nat /\ tasks'[t] > 0
      BY <1>1, CountsNext
    <3> QED
      BY <1>1, <1>9, <1>11, <3>1 DEF Once, InFlight, Takes
  <2>4. \A t \in InFlight' : \A d \in t.item.ids : d \notin submitted
    <3>1. \A d \in item.ids : d \notin submitted
      BY <1>1, <1>12 DEF Known
    <3> QED
      BY <1>1, <1>4, <1>11, <3>1 DEF Once
  <2> QED
    BY <1>3, <2>2, <2>3, <2>4 DEF Once
<1>15. Ordered'
  <2>1. \A d \in item.ids : \A n \in DOMAIN written : written[n] < d
    <3>1. \A n \in DOMAIN written : written[n] \in Nat
      BY Parts
    <3> QED
      BY <1>1, <1>12, <3>1 DEF Known
  <2>2. \A d : Before(d, outbox'.q)
    BY <1>3 DEF Before
  <2> QED
    BY <1>1, <1>3, <1>4, <1>7, <1>10, <2>1, <2>2 DEF Ordered, RelaysInOrder
<1> QED
  BY <1>10, <1>13, <1>14, <1>15 DEF OutboxInv

-----------------------------------------------------------------------------
(* A delivery is parked.                                                   *)

\* The queue after it took an item: one place of it, the last or a nudge's, holds
\* more than before.
Gains(q, next, item) ==
    \E n \in Nat :
        /\ DOMAIN next = DOMAIN q \cup {n}
        /\ \A i \in DOMAIN next : i # n => next[i] = q[i]
        /\ n \in DOMAIN q =>
              next[n].kind = "nudge" /\ next[n].ids = q[n].ids \cup item.ids
        /\ n \notin DOMAIN q => next[n] = item /\ \A i \in DOMAIN q : i < n

\* Enqueue adds the item at one place.
LEMMA EnqueuedGains ==
    ASSUME NEW box \in OutboxType, NEW item \in Singles
    PROVE  Gains(box.q, Enqueue(box, item).q, item)
<1> DEFINE q == box.q
           next == Enqueue(box, item).q
<1>1. q \in Seq(Singles)
  BY DEF OutboxType
<1>2. CASE next = Append(q, item)
  <2> DEFINE n == Len(q) + 1
  <2>1. /\ n \in Nat /\ n \notin DOMAIN q /\ DOMAIN next = DOMAIN q \cup {n} /\ next[n] = item
        /\ \A i \in DOMAIN q : i < n /\ next[i] = q[i]
    BY <1>1, <1>2
  <2> QED
    BY <2>1 DEF Gains
<1>3. ASSUME NEW n \in DOMAIN q, q[n].kind = "nudge",
             next = [q EXCEPT ![n] = [q[n] EXCEPT !.ids = @ \cup item.ids]]
      PROVE  Gains(q, next, item)
  <2>1. n \in Nat
    BY <1>1
  <2>2. q[n] \in Item
    BY <1>1 DEF Singles
  <2>3. next[n] = [q[n] EXCEPT !.ids = @ \cup item.ids] /\ DOMAIN next = DOMAIN q
        /\ \A i \in DOMAIN q : i # n => next[i] = q[i]
    BY <1>3
  <2>4. next[n].kind = "nudge" /\ next[n].ids = q[n].ids \cup item.ids
    BY <1>3, <2>2, <2>3 DEF Item
  <2>5. DOMAIN next = DOMAIN q \cup {n}
    BY <2>3
  <2> HIDE DEF next, q
  <2> QED
    BY <1>3, <2>1, <2>3, <2>4, <2>5 DEF Gains
<1>4. next = Append(q, item)
      \/ \E n \in DOMAIN q : q[n].kind = "nudge"
                             /\ next = [q EXCEPT ![n] = [q[n] EXCEPT !.ids = @ \cup item.ids]]
  BY Enqueued
<1> QED
  BY <1>2, <1>3, <1>4

\* A delivery is parked: behind all the others, or with the nudge that waits.
LEMMA GainKeeps ==
    ASSUME OutboxInv, Shaped', NEW item \in Singles, item.ids = {sent + 1}, Gains(outbox.q, outbox'.q, item),
           sent' = sent + 1, UNCHANGED <<written, submitted>>,
           lock'.epoch = lock.epoch, lock'.held = lock.held,
           \A t \in Running' : HasToken(t) => t \in Running /\ tasks'[t] <= tasks[t]
    PROVE  OutboxInv'
<1> DEFINE q == outbox.q
           next == outbox'.q
<1>1. /\ OneHolder /\ Known /\ Once /\ Ordered /\ BagTyped /\ LockTypeOK /\ lock.epoch \in Nat /\ BagTyped'
      /\ sent \in Nat /\ \A n \in DOMAIN written : written[n] \in Nat
      /\ \A i \in DOMAIN q : i \in Nat /\ q[i].ids \subseteq Nat
  <2>1. outbox.q \in Seq(Singles)
    BY Parts
  <2> QED
    BY <2>1, Parts DEF Shaped
<1> HIDE DEF q, next
<1>2. PICK n \in Nat :
        /\ DOMAIN next = DOMAIN q \cup {n}
        /\ \A i \in DOMAIN next : i # n => next[i] = q[i]
        /\ n \in DOMAIN q =>
              next[n].kind = "nudge" /\ next[n].ids = q[n].ids \cup {sent + 1}
        /\ n \notin DOMAIN q => next[n] = item /\ \A i \in DOMAIN q : i < n
  BY DEF Gains, q, next
<1>3. ASSUME NEW i \in DOMAIN next, NEW d \in next[i].ids
      PROVE  (i \in DOMAIN q /\ d \in q[i].ids) \/ (i = n /\ d = sent + 1)
  BY <1>2, <1>3
<1>4. /\ \A t \in Holders' : t \in Holders
      /\ \A t \in InFlight' : t \in InFlight /\ tasks'[t] <= tasks[t]
  BY DEF Holders, InFlight, HasToken
<1>5. \A t \in InFlight : t.item.ids \subseteq Nat
  BY <1>1, ReadTask, TaskFields DEF InFlight, Item
<1>6. OneHolder'
  <2>1. \A t \in Running' : tasks'[t] \in Nat /\ tasks'[t] > 0
    BY <1>1, CountsNext
  <2>2. \A t \in Running : tasks[t] \in Nat /\ tasks[t] > 0
    BY <1>1, Counts
  <2> QED
    BY <1>1, <1>4, <2>1, <2>2 DEF OneHolder, Holders
<1>7. Known'
  <2>1. \A i \in DOMAIN next : \A d \in next[i].ids : d <= sent + 1
    BY <1>1, <1>3 DEF Known, q
  <2>2. \A t \in InFlight' : \A d \in t.item.ids : d <= sent + 1
    BY <1>1, <1>4, <1>5 DEF Known
  <2>3. \A d \in submitted : d <= sent + 1
    BY <1>1, OutboxAssumption DEF Known, OutboxInv, Shaped, OthersTyped
  <2>4. \A m \in DOMAIN written : written[m] <= sent + 1
    BY <1>1 DEF Known
  <2> QED
    BY <2>1, <2>2, <2>3, <2>4 DEF Known, next
<1>8. Once'
  <2>1. /\ \A i \in DOMAIN q : sent + 1 \notin q[i].ids
        /\ \A t \in InFlight : sent + 1 \notin t.item.ids
        /\ sent + 1 \notin submitted
    BY <1>1 DEF Known, q
  <2>2. \A i, j \in DOMAIN next : i # j => \A d \in next[i].ids : d \notin next[j].ids
    <3> SUFFICES ASSUME NEW i \in DOMAIN next, NEW j \in DOMAIN next, i # j, NEW d \in next[i].ids,
                        d \in next[j].ids
                 PROVE  FALSE
      OBVIOUS
    <3> QED
      BY <1>1, <1>3, <2>1 DEF Once, q
  <2>3. \A t \in InFlight' : t.item.ids # {} => tasks'[t] = 1
    <3>1. \A t \in Running' : tasks'[t] \in Nat /\ tasks'[t] > 0
      BY <1>1, CountsNext
    <3> QED
      BY <1>1, <1>4, <3>1 DEF Once, InFlight
  <2>4. \A i \in DOMAIN next : \A d \in next[i].ids :
          d \notin submitted /\ \A t \in InFlight' : d \notin t.item.ids
    BY <1>1, <1>3, <1>4, <2>1 DEF Once, q
  <2>5. \A t, u \in InFlight' : t # u => \A d \in t.item.ids : d \notin u.item.ids
    BY <1>1, <1>4 DEF Once
  <2>6. \A t \in InFlight' : \A d \in t.item.ids : d \notin submitted
    BY <1>1, <1>4 DEF Once
  <2> QED
    BY <2>2, <2>3, <2>4, <2>5, <2>6 DEF Once, next
<1>9. Ordered'
  <2>1. ASSUME NEW i \in DOMAIN next, next[i].kind = "relay"
        PROVE  \/ i \in DOMAIN q /\ i # n /\ next[i] = q[i]
               \/ i = n /\ n \notin DOMAIN q /\ next[i].ids = {sent + 1}
    BY <1>2, <2>1
  <2>2. \A i, j \in DOMAIN next :
          i < j /\ next[i].kind = "relay" /\ next[j].kind = "relay" =>
             \A d \in next[i].ids, e \in next[j].ids : d < e
    <3> SUFFICES ASSUME NEW i \in DOMAIN next, NEW j \in DOMAIN next, i < j,
                        next[i].kind = "relay", next[j].kind = "relay",
                        NEW d \in next[i].ids, NEW e \in next[j].ids
                 PROVE  d < e
      OBVIOUS
    <3>1. CASE j \in DOMAIN q /\ j # n /\ next[j] = q[j]
      <4>1. i \in DOMAIN q /\ next[i] = q[i]
        BY <1>1, <1>2, <2>1, <3>1
      <4> QED
        BY <1>1, <3>1, <4>1 DEF Ordered, q
    <3>2. CASE j = n /\ n \notin DOMAIN q /\ next[j].ids = {sent + 1}
      <4>1. i \in DOMAIN q /\ next[i] = q[i]
        BY <1>1, <1>2, <2>1, <3>2
      <4> QED
        BY <1>1, <3>2, <4>1 DEF Known, q
    <3> QED
      BY <2>1, <3>1, <3>2
  <2>3. ASSUME NEW d \in Nat, d <= sent, Before(d, q) PROVE Before(d, next)
    <3> SUFFICES ASSUME NEW i \in DOMAIN next, next[i].kind = "relay", NEW e \in next[i].ids PROVE d < e
      BY DEF Before
    <3>1. CASE i \in DOMAIN q /\ next[i] = q[i]
      BY <2>3, <3>1 DEF Before
    <3>2. CASE next[i].ids = {sent + 1}
      BY <1>1, <2>3, <3>2
    <3> QED
      BY <2>1, <3>1, <3>2
  <2>4. \A m \in DOMAIN written : Before(written[m], next)
    BY <1>1, <2>3 DEF Ordered, Known, q
  <2>5. \A t \in Holders' : t.at = "body" /\ t.item.kind = "relay" /\ t.token = lock.epoch =>
          \A d \in t.item.ids : (\A m \in DOMAIN written : written[m] < d) /\ Before(d, next)
    <3> SUFFICES ASSUME NEW t \in Holders', t.at = "body", t.item.kind = "relay", t.token = lock.epoch,
                        NEW d \in t.item.ids
                 PROVE  (\A m \in DOMAIN written : written[m] < d) /\ Before(d, next)
      OBVIOUS
    <3>1. t \in Holders /\ t \in InFlight
      BY <1>4 DEF Holders, InFlight
    <3>2. (\A m \in DOMAIN written : written[m] < d) /\ Before(d, q)
      BY <1>1, <3>1 DEF Ordered, q
    <3>3. d \in Nat /\ d <= sent
      BY <1>1, <1>5, <3>1 DEF Known
    <3> QED
      BY <2>3, <3>2, <3>3
  <2>6. RelaysInOrder'
    BY <1>1 DEF Ordered, RelaysInOrder
  <2> QED
    BY <2>2, <2>4, <2>5, <2>6 DEF Ordered, next
<1> QED
  BY <1>6, <1>7, <1>8, <1>9 DEF OutboxInv

\* The outcomes of inject_delivery_at that park the delivery in a free outbox.
LEMMA ParkKeeps ==
    ASSUME OutboxInv, Shaped', ~DeliveryPending, NEW item \in Singles, item.ids = {sent + 1},
           NEW blocked \in BOOLEAN, Park(item, blocked),
           sent' = sent + 1, UNCHANGED <<written, submitted, lock>>,
           \A t \in Running' : HasToken(t) => t \in Running /\ tasks'[t] <= tasks[t]
    PROVE  OutboxInv'
<1> DEFINE box == [Opened EXCEPT !.blocked = blocked]
<1>1. outbox \in OutboxType /\ (~outbox.open => outbox.q = <<>>)
  BY DEF OutboxInv, Shaped, OutboxShaped
<1>2. box \in OutboxType /\ box.q = outbox.q
  <2>1. Opened \in OutboxType /\ Opened.q = outbox.q
    BY <1>1, OpenedTyped
  <2> QED
    BY <2>1 DEF OutboxType
<1>3. outbox' = Enqueue(box, item)
  BY DEF Park, SetOutbox
<1> HIDE DEF box
<1>4. Gains(outbox.q, outbox'.q, item)
  BY <1>2, <1>3, EnqueuedGains
<1> QED
  BY <1>4, GainKeeps

\* A handler's delivery: every outcome of inject_delivery_at.
LEMMA DeliverKeeps == ASSUME OutboxInv, Shaped', NEW kind \in Kinds, Deliver(kind) PROVE OutboxInv'
<1> DEFINE item == [kind |-> kind, ids |-> {sent + 1}]
<1>1. BagTyped /\ outbox \in OutboxType /\ OutboxShaped
  BY Parts
<1>2. sent + 1 \in 1 .. MaxDeliveries /\ sent' = sent + 1 /\ UNCHANGED <<written, submitted>>
  BY OutboxAssumption DEF OutboxInv, Shaped, OthersTyped, Deliver, hist
<1>3. item \in Singles /\ item.ids = {sent + 1}
  BY <1>2 DEF Singles, Item, Kinds
<1>4. Inject(item)
  BY DEF Deliver
<1> HIDE DEF item
<1>5. CASE DeliveryPending /\ SetOutbox(Enqueue(outbox, item)) /\ UNCHANGED <<lock, tasks>>
  <2>1. Gains(outbox.q, outbox'.q, item)
    BY <1>1, <1>3, <1>5, EnqueuedGains DEF SetOutbox
  <2>2. \A t \in Running' : HasToken(t) => t \in Running /\ tasks'[t] <= tasks[t]
    BY <1>1, <1>5, SameQuiet
  <2> QED
    BY <1>2, <1>3, <1>5, <2>1, <2>2, GainKeeps
<1>6. ASSUME NEW blocked \in BOOLEAN, ~DeliveryPending, Park(item, blocked), UNCHANGED <<lock, tasks>>
      PROVE  OutboxInv'
  <2>1. \A t \in Running' : HasToken(t) => t \in Running /\ tasks'[t] <= tasks[t]
    BY <1>1, <1>6, SameQuiet
  <2> QED
    BY <1>2, <1>3, <1>6, <2>1, ParkKeeps
<1>7. CASE ~DeliveryPending /\ Park(item, FALSE) /\ Spawns({[at |-> "dispatch-recent"]}) /\ UNCHANGED lock
  <2> DEFINE next == {[at |-> "dispatch-recent"]}
  <2>1. \A t \in next : ~HasToken(t)
    BY DEF HasToken
  <2>2. Spawns(next)
    BY <1>7
  <2> HIDE DEF next
  <2>3. \A t \in Running' : HasToken(t) => t \in Running /\ tasks'[t] <= tasks[t]
    BY <1>1, <2>1, <2>2, SpawnsQuiet
  <2> QED
    BY <1>2, <1>3, <1>7, <2>3, ParkKeeps
<1>8. CASE ~DeliveryPending /\ LockReserve /\ Start(item, "dispatch")
  BY <1>2, <1>3, <1>8, StartKeeps
<1> QED
  BY <1>4, <1>5, <1>6, <1>7, <1>8 DEF Inject

\* A reconciliation nudge carries no delivery.
LEMMA ReconcileKeeps == ASSUME OutboxInv, Shaped', Reconcile PROVE OutboxInv'
<1> DEFINE item == [kind |-> "nudge", ids |-> {}]
<1>1. item \in Singles /\ item.ids = {}
  BY DEF Singles, Item, Kinds
<1>2. ~DeliveryPending /\ LockReserve /\ Start(item, "reconcile") /\ UNCHANGED <<sent, written, submitted>>
  BY DEF Reconcile, hist
<1> HIDE DEF item
<1> QED
  BY <1>1, <1>2, StartKeeps

-----------------------------------------------------------------------------
(* A child comes or goes.                                                  *)

\* A child that comes or goes: no thread is left with the new epoch.
LEMMA ChildKeeps == ASSUME OutboxInv, Shaped', NEW present \in BOOLEAN, ChildChanges(present) PROVE OutboxInv'
<1> DEFINE next == {[at |-> "notify", event |-> IF present THEN "respawned" ELSE "exited"]}
<1>1. /\ OneHolder /\ Known /\ Once /\ Ordered /\ BagTyped /\ lock.epoch \in Nat /\ BagTyped'
  BY Parts DEF Shaped
<1>2. lock'.epoch = lock.epoch + 1 /\ UNCHANGED <<outbox, sent, written, submitted>>
  BY DEF ChildChanges, LockChild, hist
<1>3. \A t \in next : ~HasToken(t)
  BY DEF HasToken
<1>4. Spawns(next)
  BY DEF ChildChanges
<1> HIDE DEF next
<1>5. \A t \in Running' : HasToken(t) => t \in Running /\ tasks'[t] <= tasks[t]
  BY <1>1, <1>3, <1>4, SpawnsQuiet
<1>6. \A t \in Holders' : t \in Holders /\ t.token # lock'.epoch /\ t.token <= lock'.epoch
  <2> SUFFICES ASSUME NEW t \in Holders'
               PROVE  t \in Holders /\ t.token # lock'.epoch /\ t.token <= lock'.epoch
    OBVIOUS
  <2>1. t \in Holders
    BY <1>5 DEF Holders
  <2>2. t.token \in Nat /\ t.token <= lock.epoch
    BY <1>1, <2>1, ReadTask, TaskFields DEF Holders, OneHolder
  <2> QED
    BY <1>1, <1>2, <2>1, <2>2
<1>7. OneHolder'
  BY <1>6 DEF OneHolder
<1>8. \A t \in InFlight' : t \in InFlight /\ tasks'[t] <= tasks[t]
  BY <1>5 DEF InFlight, HasToken
<1>9. Known' /\ Once'
  <2>1. \A t \in InFlight' : t.item.ids # {} => tasks'[t] = 1
    <3>1. \A t \in Running' : tasks'[t] \in Nat /\ tasks'[t] > 0
      BY <1>1, CountsNext
    <3> QED
      BY <1>1, <1>8, <3>1 DEF Once, InFlight
  <2> QED
    BY <1>1, <1>2, <1>8, <2>1 DEF Known, Once
<1>10. Ordered'
  BY <1>1, <1>2, <1>6 DEF Ordered, RelaysInOrder, Before
<1> QED
  BY <1>7, <1>9, <1>10 DEF OutboxInv

-----------------------------------------------------------------------------
(* The theorems.                                                           *)

\* Every step keeps the invariant.
LEMMA OutboxStep == OutboxInv /\ [Next]_vars => OutboxInv'
<1> SUFFICES ASSUME OutboxInv, [Next]_vars PROVE OutboxInv'
  OBVIOUS
<1>1. Shaped /\ Shaped'
  BY ShapedStep DEF OutboxInv
<1>2. ASSUME NEW kind \in Kinds, Deliver(kind) PROVE OutboxInv'
  BY <1>1, <1>2, DeliverKeeps
<1>3. CASE Reconcile
  BY <1>1, <1>3, ReconcileKeeps
<1>4. ASSUME NEW task \in Running, ThreadStep(task) PROVE OutboxInv'
  <2>1. CASE WriteBody(task)
    BY <1>1, <2>1, WriteBodyKeeps
  <2>2. CASE CancelStarted(task) \/ WriteEnter(task)
    BY <1>1, <2>2, EndOfFlightKeeps
  <2>3. CASE Finish(task)
    BY <1>1, <2>3, FinishKeeps
  <2>4. CASE ReserveForFlush(task)
    BY <1>1, <2>4, ReserveKeeps
  <2>5. CASE Granted(task)
    BY <1>1, <2>5, GrantedKeeps
  <2>6. ASSUME \/ Check(task) \/ Refused(task) \/ ScheduleRetry(task) \/ RetryWakes(task)
               \/ FlushWakes(task) \/ CooldownEnds(task) \/ Prune(task) \/ InputCleared(task)
               \/ InputQueueDrained(task) \/ DeliveryFinished(task) \/ Respawned(task) \/ Exited(task)
        PROVE  OutboxInv'
    BY <1>1, <2>6, ThreadIsQuiet, QuietKeeps
  <2> QED
    BY <1>4, <2>1, <2>2, <2>3, <2>4, <2>5, <2>6 DEF ThreadStep
<1>5. ASSUME NEW present \in BOOLEAN, ChildChanges(present) PROVE OutboxInv'
  BY <1>1, <1>5, ChildKeeps
<1>6. CASE \/ BackoffEnds \/ \E count \in 0 .. MaxUnread : UpdateInbox(count)
           \/ \E toIdle \in BOOLEAN : SetStatus(toIdle)
           \/ HumanStep \/ InputIsServed \/ TimePasses \/ UNCHANGED vars
  BY <1>1, <1>6, OthersAreQuiet, QuietKeeps
<1> QED
  BY <1>2, <1>3, <1>4, <1>5, <1>6 DEF Next, Threads

\* The invariant holds at the start.
LEMMA OutboxInit == Init => OutboxInv
<1> SUFFICES ASSUME Init PROVE OutboxInv
  OBVIOUS
<1>1. Shaped
  BY ShapedInit
<1>2. outbox.q = <<>> /\ written = <<>> /\ submitted = {}
  BY NoOutboxTyped DEF Init
<1>3. Running = {}
  BY DEF Init, EmptyBag, SetToBag, Running, BagToSet
<1>4. Holders = {} /\ InFlight = {}
  BY <1>3 DEF Holders, InFlight
<1> QED
  BY <1>1, <1>2, <1>4 DEF OutboxInv, OneHolder, Known, Once, Ordered, RelaysInOrder, Before

\* The invariant of the outbox, its threads and the composer holds throughout, for
\* any number of deliveries, keystrokes, reports, threads and children.
THEOREM OutboxInvariance == Spec => []OutboxInv
<1>1. Init => OutboxInv
  BY OutboxInit
<1>2. OutboxInv /\ [Next]_vars => OutboxInv'
  BY OutboxStep
<1> QED
  BY <1>1, <1>2, PTL DEF Spec

\* Types.
THEOREM OutboxTyped == Spec => []TypeOK
<1>1. OutboxInv => TypeOK
  BY ShapedIsTyped DEF OutboxInv
<1> QED
  BY <1>1, OutboxInvariance, PTL

\* The "delivery waiting" pill shows the unread count exactly while the human's draft
\* holds a delivery back, whichever of the many threads that touch either was last.
THEOREM PillStaysCurrent == Spec => []PillIsCurrent
<1>1. OutboxInv => PillIsCurrent
  BY DEF OutboxInv, Shaped, OutboxShaped
<1> QED
  BY <1>1, OutboxInvariance, PTL

\* Relays are written to the agent in the order of their dispatch.
THEOREM RelaysStayInOrder == Spec => []RelaysInOrder
<1>1. OutboxInv => RelaysInOrder
  BY DEF OutboxInv, Ordered
<1> QED
  BY <1>1, OutboxInvariance, PTL

\* No delivery is ever in two places: not queued twice, not carried by two threads,
\* not kept after its Enter.
THEOREM DeliveredOnce == Spec => []DeliveredAtMostOnce
<1>1. ASSUME OutboxInv PROVE DeliveredAtMostOnce
  <2>1. Once
    BY <1>1 DEF OutboxInv
  <2>2. \A d \in Queued(outbox.q) : \E i \in DOMAIN outbox.q : d \in outbox.q[i].ids
    BY DEF Queued
  <2>3. \A d \in Flying : \E t \in InFlight : d \in t.item.ids
    BY DEF Flying
  <2>4. \A t \in InFlight : Copies(t) = tasks[t]
    BY DEF InFlight, Running, Copies, BagIn
  <2> QED
    BY <2>1, <2>2, <2>3, <2>4 DEF Once, DeliveredAtMostOnce
<1> QED
  BY <1>1, OutboxInvariance, PTL
=============================================================================
